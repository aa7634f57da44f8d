-------------------------- MODULE PreflightProofs --------------------------
(* Proofs about Preflight, for any runs, packages and forms of command and   *)
(* whatever the stages find out: the order of the stages and their guards    *)
(* are all they use; and, first, about the verdict rules of Policy that they *)
(* end with, for every report, by case analysis.                             *)
EXTENDS Preflight, TLAPS

(* One blocking signal is enough to block, wherever the code meets it.       *)
BlocksOn(s) ==
  \/ s.remoteShell
  \/ "block" \in s.findings
  \/ "block" \in s.flags
  \/ "malware" \in s.advisories
  \/ "critical" \in s.advisories

(* One prompting signal is enough to keep a run from being allowed.          *)
PromptsOn(s) ==
  \/ "prompt" \in s.findings
  \/ "prompt" \in s.flags
  \/ s.advisories # {}
  \/ s.found /\ s.ageDays \in 0 .. 6
  \/ s.bareDownloader

(* No early return of Policy.Evaluate and no later assignment hides a        *)
(* signal: the verdict is the worst of all of them, whatever their order.    *)
THEOREM EvaluateIsWorst ==
  ASSUME NEW s \in Signals
  PROVE  /\ Evaluate(s) = Block <=> BlocksOn(s)
         /\ Evaluate(s) = Allow <=> ~BlocksOn(s) /\ ~PromptsOn(s)
<1> DEFINE blocking == \/ s.remoteShell
                       \/ HasBlockingSeverity(s.findings)
                       \/ HasBlockingAdvisory(s.advisories)
                       \/ HasBlockingSeverity(s.flags)
           prompting == \/ HasPromptingSeverity(s.findings)
                        \/ s.advisories # {}
                        \/ InsideMaturityWindow(s)
                        \/ HasPromptingSeverity(s.flags)
                        \/ s.bareDownloader
<1>1. \A S : HasBlockingSeverity(S) <=> "block" \in S
  BY DEF HasBlockingSeverity, SeverityVerdict, Block, Prompt, Allow
<1>2. \A S : HasPromptingSeverity(S) <=> "prompt" \in S
  BY DEF HasPromptingSeverity, SeverityVerdict, Block, Prompt, Allow
<1>3. \A S : HasBlockingAdvisory(S) <=> "malware" \in S \/ "critical" \in S
  BY DEF HasBlockingAdvisory, AdvisoryVerdict, Block, Prompt
<1>4. InsideMaturityWindow(s) <=> s.found /\ s.ageDays \in 0 .. 6
  BY DEF InsideMaturityWindow, MaturityDays, Signals
<1>5. blocking <=> BlocksOn(s)
  BY <1>1, <1>3 DEF BlocksOn
<1>6. prompting <=> PromptsOn(s)
  BY <1>2, <1>4 DEF PromptsOn
<1>7. /\ Evaluate(s) = Block <=> blocking
      /\ Evaluate(s) = Allow <=> ~blocking /\ ~prompting
  BY DEF Evaluate, Block, Prompt, Allow
<1> QED
  BY <1>5, <1>6, <1>7

(* Re-evaluating a report to which a sandbox, a docker fixture or a provider *)
(* added findings or advisories never softens the verdict it had.            *)
THEOREM EvaluateMonotone ==
  ASSUME NEW s \in Signals, NEW t \in Signals, Extends(s, t)
  PROVE  Rank(Evaluate(s)) <= Rank(Evaluate(t))
<1>1. BlocksOn(s) => BlocksOn(t)
  BY DEF BlocksOn, Extends
<1>2. PromptsOn(s) => PromptsOn(t)
  BY DEF PromptsOn, Extends
<1>3. Evaluate(t) \in Verdicts /\ Evaluate(s) \in Verdicts
  BY DEF Evaluate, Verdicts, Allow, Prompt, Block
<1>4. CASE BlocksOn(s)
  <2>1. Evaluate(t) = Block /\ Evaluate(s) = Block
    BY <1>4, <1>1, EvaluateIsWorst
  <2> QED BY <2>1 DEF Rank
<1>5. CASE ~BlocksOn(s) /\ PromptsOn(s)
  <2>1. Evaluate(s) # Block /\ Evaluate(t) # Allow
    BY <1>5, <1>2, EvaluateIsWorst
  <2> QED BY <2>1, <1>3 DEF Rank, Verdicts, Allow, Prompt, Block
<1>6. CASE ~BlocksOn(s) /\ ~PromptsOn(s)
  <2>1. Evaluate(s) = Allow
    BY <1>6, EvaluateIsWorst
  <2> QED BY <2>1, <1>3 DEF Rank, Verdicts, Allow, Prompt, Block
<1> QED BY <1>4, <1>5, <1>6

(* ApplyLLMReview is escalate-only: the result is the worse of the verdict   *)
(* and the review, so a review can never clear a deterministic block or      *)
(* turn a prompt into an allow.                                              *)
THEOREM ReviewOnlyEscalates ==
  ASSUME NEW verdict \in Verdicts, NEW review \in Verdicts
  PROVE  /\ ApplyLLMReview(verdict, review) \in {verdict, review}
         /\ Rank(ApplyLLMReview(verdict, review)) >= Rank(verdict)
         /\ Rank(ApplyLLMReview(verdict, review)) >= Rank(review)
BY DEF ApplyLLMReview, Rank, Verdicts, Allow, Prompt, Block
-----------------------------------------------------------------------------
(* A signal that keeps a command from running silently.                      *)
Loud(rep) ==
  \/ HasBlockingSeverity(rep.flags) \/ HasBlockingAdvisory(rep.advisories)
  \/ "block" \in rep.findings \/ "prompt" \in rep.findings

(* The stages, in their order.                                               *)
FromApprovals  == {"approvals", "fixture", "record", "guard", "execute",
                   "executed", "refused", "reported", "failed"}
FromDecide     == FromApprovals \cup {"decide"}
FromDependencies == FromDecide \cup {"dependencies", "late", "reputation"}
FromArtifacts  == FromDependencies \cup {"artifacts"}
FromStage      == FromArtifacts \cup {"stage"}
FromSpecs      == FromStage \cup {"specs"}

(* What an early stage left is what the later ones rely on.                  *)
FilesOK(at, rep) ==
  /\ rep.identified \subseteq rep.artifacts
  /\ rep.artifacts # {} => rep.form \in {"npm", "npmExec", "pip", "requirements", "download"}
  /\ at \notin FromArtifacts => rep.staged = {} /\ rep.artifacts = {}
  /\ Loud(rep) \/ rep.staged = rep.artifacts

AskedOK(at, rep) ==
  /\ rep.found => ~ProjectInstall(rep) /\ rep.specs # {}
  /\ rep.topChecked => Top \in rep.asked
  /\ at \in FromSpecs => Loud(rep) \/ (rep.found => rep.topChecked)
  /\ at \in FromStage => Loud(rep) \/ (ProjectInstall(rep) => rep.specs \subseteq rep.asked)
  /\ at \in FromDependencies => Loud(rep) \/ rep.identified \subseteq rep.asked

VerdictOK(at, rep) ==
  /\ at \notin FromApprovals => rep.verdict = "none" /\ ~rep.allowlisted
  /\ at \in FromApprovals =>
       \/ ~rep.allowlisted /\ rep.verdict = Evaluate(SignalsOf(rep))
       \/ /\ rep.allowlisted /\ rep.verdict = Allow
          /\ Evaluate(SignalsOf(rep)) # Block /\ ArtifactsApproved(rep.approved, rep)
  /\ at \notin {"execute", "executed", "refused", "failed"} => ~rep.consent
  /\ at \in {"execute", "executed"} => rep.verdict = Allow \/ (rep.consent /\ rep.verdict = Prompt)

(* What CheckNPMStagedExecutionSupport leaves: what a decided npm command    *)
(* staged is promoted, or blocks.                                            *)
PromotedOK(at, rep) ==
  at \in FromApprovals /\ rep.form \in {"npm", "npmExec"} /\ rep.identified # {} =>
    CanPromoteNPMStagedInstall(rep) \/ "block" \in rep.findings

RunOK(at, rep) == rep \in Reports /\ FilesOK(at, rep) /\ AskedOK(at, rep) /\ VerdictOK(at, rep)

(* What the log holds of a run, and held when its reputation was looked up.  *)
LogOK(r) ==
  /\ pc[r] \in {"guard", "execute", "executed"} =>
       \E event \in log : event.run = r /\ event.verdict = report[r].verdict
  /\ pc[r] \in FromApprovals \ {"approvals", "fixture", "record"}
       \/ \A event \in log : event.run # r
  /\ pc[r] \in FromDecide =>
       \/ Loud(report[r])
       \/ \A p \in ReputationTargets(report[r]) :
            \E event \in log : event.run # r /\ p \in event.seen

PreflightInv ==
  /\ TypeOK
  /\ \A r \in Runs : RunOK(pc[r], report[r]) /\ LogOK(r)
-----------------------------------------------------------------------------
(* What a stage leaves of a report, field by field.                          *)
SameCommand(a, b) ==
  /\ b.form = a.form /\ b.guard = a.guard /\ b.fixture = a.fixture
  /\ b.shell = a.shell /\ b.flags = a.flags
SameFiles(a, b) ==
  b.staged = a.staged /\ b.artifacts = a.artifacts /\ b.identified = a.identified
SameVersion(a, b) == b.found = a.found /\ b.age = a.age
SameVerdict(a, b) ==
  /\ b.verdict = a.verdict /\ b.allowlisted = a.allowlisted
  /\ b.approved = a.approved /\ b.consent = a.consent
Grown(a, b) ==
  /\ b \in Reports /\ SameCommand(a, b)
  /\ a.findings \subseteq b.findings /\ a.advisories \subseteq b.advisories
  /\ a.asked \subseteq b.asked /\ (a.topChecked => b.topChecked)

(* Nothing quiets a signal.                                                  *)
LEMMA LoudStays == ASSUME NEW a, NEW b, Grown(a, b), Loud(a) PROVE Loud(b)
BY DEF Grown, SameCommand, Loud, HasBlockingAdvisory

LEMMA FormStays ==
  ASSUME NEW a, NEW b, b.form = a.form
  PROVE  /\ ProjectInstall(b) <=> ProjectInstall(a)
         /\ OneShot(b) <=> OneShot(a)
         /\ HasEcosystem(b) <=> HasEcosystem(a)
BY DEF ProjectInstall, OneShot, HasEcosystem

LEMMA ChoicesTyped ==
  /\ \A f \in FindingChoices : f \subseteq Severities
  /\ \A a \in AdvisoryChoices : a \subseteq AdvisoryKinds
BY ConstantsAssumption

LEMMA SignalledIs ==
  ASSUME NEW rep \in Reports, NEW new \in Signalled(rep)
  PROVE  /\ Grown(rep, new) /\ SameFiles(rep, new) /\ SameVersion(rep, new)
         /\ SameVerdict(rep, new) /\ new.specs = rep.specs /\ new.topChecked = rep.topChecked
<1>1. PICK f \in FindingChoices, a \in AdvisoryChoices : new = With(rep, f, a)
  BY DEF Signalled
<1> DEFINE fs == rep.findings \cup f
           as == rep.advisories \cup a
<1>2. fs \in SUBSET Severities /\ as \in SUBSET AdvisoryKinds
  BY ChoicesTyped DEF Reports
<1>3. new = [rep EXCEPT !.findings = fs, !.advisories = as]
  BY <1>1 DEF With
<1>4. rep.findings \subseteq fs /\ rep.advisories \subseteq as
  OBVIOUS
<1> HIDE DEF fs, as
<1>5. new \in Reports
  BY <1>2, <1>3 DEF Reports
<1> QED
  BY <1>3, <1>4, <1>5 DEF Reports, Grown, SameCommand, SameFiles, SameVersion, SameVerdict

LEMMA AnsweredIs ==
  ASSUME NEW rep \in Reports, NEW packages \in SUBSET Packages, NEW new \in Answered(rep, packages)
  PROVE  /\ Grown(rep, new) /\ SameFiles(rep, new) /\ SameVersion(rep, new)
         /\ SameVerdict(rep, new) /\ new.specs = rep.specs /\ new.topChecked = rep.topChecked
         /\ packages \subseteq new.asked
<1>1. CASE packages = {}
  BY <1>1 DEF Answered, Grown, SameCommand, SameFiles, SameVersion, SameVerdict
<1>2. CASE packages # {}
  <2>1. PICK answered \in Signalled(rep) : new = [answered EXCEPT !.asked = @ \cup packages]
    BY <1>2 DEF Answered
  <2>2. /\ answered \in Reports
        /\ Grown(rep, answered) /\ SameFiles(rep, answered) /\ SameVersion(rep, answered)
        /\ SameVerdict(rep, answered) /\ answered.specs = rep.specs
        /\ answered.topChecked = rep.topChecked
    BY SignalledIs DEF Grown
  <2> DEFINE asked == answered.asked \cup packages
  <2>3. asked \in SUBSET Packages /\ new = [answered EXCEPT !.asked = asked]
    BY <2>1, <2>2 DEF Reports
  <2>4. answered.asked \subseteq asked /\ packages \subseteq asked
    OBVIOUS
  <2> HIDE DEF asked
  <2>5. new \in Reports
    BY <2>2, <2>3 DEF Reports
  <2> QED
    BY <2>2, <2>3, <2>4, <2>5
    DEF Reports, Grown, SameCommand, SameFiles, SameVersion, SameVerdict
<1> QED
  BY <1>1, <1>2
-----------------------------------------------------------------------------
(* Stages that ask about packages, or look at findings, and touch neither    *)
(* the files nor the version nor the verdict.                                *)
LEMMA VerdictStays ==
  ASSUME NEW at, NEW to, NEW a, NEW b, VerdictOK(at, a), SameVerdict(a, b),
         at \notin FromApprovals, to \notin FromApprovals
  PROVE  VerdictOK(to, b)
BY DEF VerdictOK, SameVerdict, FromApprovals

LEMMA FilesStay ==
  ASSUME NEW at, NEW to, NEW a, NEW b, FilesOK(at, a), SameFiles(a, b), Grown(a, b),
         at \in FromArtifacts => to \in FromArtifacts,
         to \in FromArtifacts \/ at \notin FromArtifacts
  PROVE  FilesOK(to, b)
BY LoudStays DEF FilesOK, SameFiles, Grown, SameCommand

LEMMA ParsedOK ==
  ASSUME NEW rep, RunOK("parse", rep), NEW new \in Parsed(rep)
  PROVE  RunOK("resolve", new)
<1> USE DEF RunOK
<1>1. /\ Grown(rep, new) /\ SameFiles(rep, new) /\ SameVersion(rep, new) /\ SameVerdict(rep, new)
      /\ new.specs = rep.specs \/ ProjectInstall(rep)
      /\ new.topChecked = rep.topChecked
  <2>1. CASE NoBlockingRisk(rep) /\ ProjectInstall(rep)
    <3>1. PICK specs \in SUBSET Packages, f \in {{}, {"block"}} :
            new = [rep EXCEPT !.specs = specs, !.findings = @ \cup f]
      BY <2>1 DEF Parsed, ParseNPMLockfile, ParseRequirementsFiles
    <3> DEFINE fs == rep.findings \cup f
    <3>2. fs \in SUBSET Severities /\ rep.findings \subseteq fs
      BY DEF Reports, Severities
    <3>3. new = [rep EXCEPT !.specs = specs, !.findings = fs]
      BY <3>1
    <3> HIDE DEF fs
    <3>4. new \in Reports
      BY <3>2, <3>3 DEF Reports
    <3> QED
      BY <2>1, <3>2, <3>3, <3>4
      DEF Reports, Grown, SameCommand, SameFiles, SameVersion, SameVerdict
  <2>2. CASE ~(NoBlockingRisk(rep) /\ ProjectInstall(rep))
    <3>1. new = rep
      BY <2>2 DEF Parsed
    <3> QED
      BY <3>1 DEF Grown, SameCommand, SameFiles, SameVersion, SameVerdict
  <2> QED
    BY <2>1, <2>2
<1>2. FilesOK("resolve", new) /\ VerdictOK("resolve", new)
  BY <1>1, FilesStay, VerdictStays
     DEF FromApprovals, FromArtifacts, FromDecide, FromDependencies
<1>3. AskedOK("resolve", new)
  <2>1. ProjectInstall(new) <=> ProjectInstall(rep)
    BY <1>1, FormStays DEF Grown, SameCommand
  <2> QED
    BY <1>1, <2>1 DEF AskedOK, Grown, SameVersion, FromSpecs, FromStage, FromArtifacts,
                      FromDependencies, FromDecide, FromApprovals
<1> QED
  BY <1>1, <1>2, <1>3 DEF Grown

LEMMA ResolvedOK ==
  ASSUME NEW rep, RunOK("resolve", rep), NEW new \in Resolved(rep)
  PROVE  RunOK("follow", new)
<1> USE DEF RunOK
<1>1. /\ Grown(rep, new) /\ SameFiles(rep, new) /\ SameVerdict(rep, new)
      /\ new.specs = rep.specs /\ new.topChecked = rep.topChecked /\ new.asked = rep.asked
      /\ new.found => rep.found \/ (~ProjectInstall(rep) /\ rep.specs # {})
  <2>1. CASE new = rep
    BY <2>1 DEF Grown, SameCommand, SameFiles, SameVerdict
  <2>2. CASE new # rep
    <3>1. PICK age \in Ages : new = [rep EXCEPT !.found = TRUE, !.age = age]
      BY <2>2 DEF Resolved
    <3>2. ~ProjectInstall(rep) /\ rep.specs # {}
      BY <2>2 DEF Resolved
    <3>3. new \in Reports
      BY <3>1 DEF Reports
    <3> QED
      BY <3>1, <3>2, <3>3 DEF Reports, Grown, SameCommand, SameFiles, SameVerdict
  <2> QED
    BY <2>1, <2>2
<1>2. FilesOK("follow", new) /\ VerdictOK("follow", new)
  BY <1>1, FilesStay, VerdictStays
     DEF FromApprovals, FromArtifacts, FromDecide, FromDependencies
<1>3. AskedOK("follow", new)
  <2>1. ProjectInstall(new) <=> ProjectInstall(rep)
    BY <1>1, FormStays DEF Grown, SameCommand
  <2> QED
    BY <1>1, <2>1 DEF AskedOK, FromSpecs, FromStage, FromArtifacts,
                      FromDependencies, FromDecide, FromApprovals
<1> QED
  BY <1>1, <1>2, <1>3 DEF Grown

LEMMA QuietStages ==
  /\ {"parse", "resolve", "follow", "specs", "stage", "artifacts", "dependencies", "late",
      "reputation", "decide"} \cap FromApprovals = {}
  /\ {"parse", "resolve", "follow", "specs", "stage"} \cap FromArtifacts = {}
  /\ {"artifacts", "dependencies", "late", "reputation", "decide"} \subseteq FromArtifacts
BY DEF FromApprovals, FromArtifacts, FromDecide, FromDependencies

(* A guard that a stage skips on is passed over only by what is loud.        *)
LEMMA GuardsAreLoud ==
  ASSUME NEW rep
  PROVE  /\ ~NoBlockingRisk(rep) => Loud(rep)
         /\ ~NoBlockingRiskOrFinding(rep) => Loud(rep)
         /\ ~NoBlockingRiskFindingOrAdvisory(rep) => Loud(rep)
<1>1. HasBlockingSeverity(rep.findings) => "block" \in rep.findings
  BY DEF HasBlockingSeverity, SeverityVerdict, Block, Prompt, Allow
<1> QED
  BY <1>1 DEF Loud, NoBlockingRisk, NoBlockingRiskOrFinding, NoBlockingRiskFindingOrAdvisory

LEMMA FollowedOK ==
  ASSUME NEW rep, RunOK("follow", rep), NEW new \in Followed(rep)
  PROVE  RunOK("specs", new)
<1> USE DEF RunOK
<1>1. /\ Grown(rep, new) /\ SameFiles(rep, new) /\ SameVerdict(rep, new)
      /\ new.specs = rep.specs /\ new.found = rep.found
      /\ new.topChecked => Top \in new.asked
      /\ Loud(new) \/ (new.found => new.topChecked)
  <2>1. CASE NoBlockingRiskOrFinding(rep) /\ ~ProjectInstall(rep) /\ rep.specs # {} /\ rep.found
    <3>1. PICK age \in Ages, answered \in Answered(rep, {Top}) : new = OfAge(answered, age)
      BY <2>1 DEF Followed
    <3>2. /\ Grown(rep, answered) /\ SameFiles(rep, answered) /\ SameVersion(rep, answered)
          /\ SameVerdict(rep, answered) /\ answered.specs = rep.specs /\ {Top} \subseteq answered.asked
      BY ConstantsAssumption, AnsweredIs
    <3>3. answered \in Reports
      BY <3>2 DEF Grown
    <3>4. new \in Reports /\ new.topChecked = TRUE
      BY <3>1, <3>3 DEF Reports, OfAge
    <3> QED
      BY <3>1, <3>2, <3>3, <3>4
      DEF Reports, OfAge, Grown, SameCommand, SameFiles, SameVersion, SameVerdict
  <2>2. CASE ~(NoBlockingRiskOrFinding(rep) /\ ~ProjectInstall(rep) /\ rep.specs # {} /\ rep.found)
    <3>1. new = rep
      BY <2>2 DEF Followed
    <3>2. Loud(rep) \/ ~rep.found
      BY <2>2, GuardsAreLoud DEF AskedOK
    <3> QED
      BY <3>1, <3>2 DEF Grown, SameCommand, SameFiles, SameVerdict, AskedOK
  <2> QED
    BY <2>1, <2>2
<1>2. FilesOK("specs", new) /\ VerdictOK("specs", new)
  BY <1>1, QuietStages, FilesStay, VerdictStays
<1>3. AskedOK("specs", new)
  <2>1. ProjectInstall(new) <=> ProjectInstall(rep)
    BY <1>1, FormStays DEF Grown, SameCommand
  <2>2. "specs" \notin FromStage /\ "specs" \notin FromDependencies
    BY DEF FromStage, FromArtifacts, FromDependencies, FromDecide, FromApprovals
  <2> QED
    BY <1>1, <2>1, <2>2 DEF AskedOK
<1> QED
  BY <1>1, <1>2, <1>3 DEF Grown

(* What the stages from the specs to the reputation keep, and what they add. *)
LEMMA AskedStays ==
  ASSUME NEW at, NEW to, NEW a, NEW b, AskedOK(at, a), Grown(a, b), b.specs = a.specs,
         SameVersion(a, b), b.topChecked => a.topChecked \/ Top \in b.asked,
         at \in FromSpecs,
         to \in FromStage => at \in FromStage \/ Loud(b)
                             \/ (ProjectInstall(a) => a.specs \subseteq b.asked),
         to \in FromDependencies => \/ at \in FromDependencies /\ b.identified = a.identified
                                    \/ Loud(b) \/ b.identified \subseteq b.asked
  PROVE  AskedOK(to, b)
<1>1. ProjectInstall(b) <=> ProjectInstall(a)
  BY FormStays DEF Grown, SameCommand
<1>2. Loud(a) => Loud(b)
  BY LoudStays
<1> QED
  BY <1>1, <1>2 DEF AskedOK, Grown, SameVersion

LEMMA SpecsCheckedOK ==
  ASSUME NEW rep, RunOK("specs", rep), NEW new \in SpecsChecked(rep)
  PROVE  RunOK("stage", new)
<1> USE DEF RunOK
<1>1. /\ Grown(rep, new) /\ SameFiles(rep, new) /\ SameVersion(rep, new) /\ SameVerdict(rep, new)
      /\ new.specs = rep.specs /\ new.topChecked = rep.topChecked
      /\ Loud(new) \/ (ProjectInstall(rep) => rep.specs \subseteq new.asked)
  <2>1. CASE NoBlockingRiskFindingOrAdvisory(rep) /\ ProjectInstall(rep)
    <3>1. PICK answered \in Answered(rep, rep.specs) :
            new = [answered EXCEPT !.specsChecked = TRUE]
      BY <2>1 DEF SpecsChecked
    <3>2. rep.specs \in SUBSET Packages
      BY DEF Reports
    <3>3. /\ Grown(rep, answered) /\ SameFiles(rep, answered) /\ SameVersion(rep, answered)
          /\ SameVerdict(rep, answered) /\ answered.specs = rep.specs
          /\ rep.specs \subseteq answered.asked /\ answered.topChecked = rep.topChecked
      BY <3>2, AnsweredIs
    <3>4. answered \in Reports
      BY <3>3 DEF Grown
    <3>5. new \in Reports
      BY <3>1, <3>4 DEF Reports
    <3> QED
      BY <3>1, <3>3, <3>4, <3>5
      DEF Reports, Grown, SameCommand, SameFiles, SameVersion, SameVerdict
  <2>2. CASE ~(NoBlockingRiskFindingOrAdvisory(rep) /\ ProjectInstall(rep))
    <3>1. new = rep
      BY <2>2 DEF SpecsChecked
    <3> QED
      BY <2>2, <3>1, GuardsAreLoud
      DEF Grown, SameCommand, SameFiles, SameVersion, SameVerdict
  <2> QED
    BY <2>1, <2>2
<1>2. FilesOK("stage", new) /\ VerdictOK("stage", new)
  BY <1>1, QuietStages, FilesStay, VerdictStays
<1>3. AskedOK("stage", new)
  <2>1. "specs" \in FromSpecs /\ "stage" \notin FromDependencies
    BY DEF FromSpecs, FromDependencies, FromDecide, FromApprovals
  <2> QED
    BY <1>1, <2>1, AskedStays
<1> QED
  BY <1>1, <1>2, <1>3 DEF Grown

(* A stage whose only effect is on the findings.                             *)
LEMMA FindingAdded ==
  ASSUME NEW rep \in Reports, NEW f \in SUBSET Severities, NEW new,
         new = [rep EXCEPT !.findings = rep.findings \cup f]
  PROVE  /\ Grown(rep, new) /\ SameFiles(rep, new) /\ SameVersion(rep, new)
         /\ SameVerdict(rep, new) /\ new.specs = rep.specs /\ new.topChecked = rep.topChecked
         /\ f \subseteq new.findings
<1> DEFINE fs == rep.findings \cup f
<1>1. fs \in SUBSET Severities /\ rep.findings \subseteq fs /\ f \subseteq fs
  BY DEF Reports
<1>2. new = [rep EXCEPT !.findings = fs]
  OBVIOUS
<1> HIDE DEF fs
<1>3. new \in Reports
  BY <1>1, <1>2 DEF Reports
<1> QED
  BY <1>1, <1>2, <1>3 DEF Reports, Grown, SameCommand, SameFiles, SameVersion, SameVerdict

LEMMA DeferredIs ==
  ASSUME NEW rep \in Reports, NEW new \in Deferred(rep)
  PROVE  /\ Grown(rep, new) /\ SameFiles(rep, new) /\ SameVersion(rep, new)
         /\ SameVerdict(rep, new) /\ new.specs = rep.specs /\ new.topChecked = rep.topChecked
<1> DEFINE fs == rep.findings \cup {"prompt"}
<1>1. fs \in SUBSET Severities /\ rep.findings \subseteq fs
  BY DEF Reports, Severities
<1>2. new = [rep EXCEPT !.findings = fs, !.deferred = TRUE]
  BY DEF Deferred
<1> HIDE DEF fs
<1>3. new \in Reports
  BY <1>1, <1>2 DEF Reports
<1> QED
  BY <1>1, <1>2, <1>3 DEF Reports, Grown, SameCommand, SameFiles, SameVersion, SameVerdict

(* What a manager stages is what became artifacts, or leaves a finding.      *)
LEMMA CollectedIs ==
  ASSUME NEW rep \in Reports, NEW files \in SUBSET Packages, NEW new \in Collected(rep, files)
  PROVE  /\ Grown(rep, new) /\ SameVersion(rep, new) /\ SameVerdict(rep, new)
         /\ new.specs = rep.specs /\ new.topChecked = rep.topChecked
         /\ new.identified \subseteq new.artifacts
         /\ Loud(new) \/ new.staged = new.artifacts
<1>1. PICK kept \in SUBSET files :
        new \in { Holding(rep, files, kept, known, f) :
                    known \in SUBSET kept,
                    f \in { g \in FindingChoices : kept = files \/ g \cap {"prompt", "block"} # {} } }
  BY DEF Collected
<1>2. PICK known \in SUBSET kept,
           f \in { g \in FindingChoices : kept = files \/ g \cap {"prompt", "block"} # {} } :
        new = Holding(rep, files, kept, known, f)
  BY <1>1
<1> DEFINE fs == rep.findings \cup f
<1>3. /\ fs \in SUBSET Severities /\ rep.findings \subseteq fs
      /\ kept = files \/ "prompt" \in fs \/ "block" \in fs
  BY ChoicesTyped DEF Reports
<1>4. new = [rep EXCEPT !.staged = files, !.artifacts = kept, !.identified = known, !.findings = fs]
  BY <1>2 DEF Holding
<1>5. kept \in SUBSET Packages /\ known \in SUBSET Packages /\ known \subseteq kept
  OBVIOUS
<1> HIDE DEF fs
<1>6. new \in Reports
  BY <1>3, <1>4, <1>5 DEF Reports
<1>7. new.staged = files /\ new.artifacts = kept /\ new.identified = known /\ new.findings = fs
  BY <1>4 DEF Reports
<1>8. Grown(rep, new) /\ SameVersion(rep, new) /\ SameVerdict(rep, new)
      /\ new.specs = rep.specs /\ new.topChecked = rep.topChecked
  BY <1>3, <1>4, <1>6 DEF Reports, Grown, SameCommand, SameVersion, SameVerdict
<1> QED
  BY <1>3, <1>5, <1>7, <1>8 DEF Loud

LEMMA StagedOK ==
  ASSUME NEW rep, RunOK("stage", rep), NEW new \in Staged(rep)
  PROVE  RunOK("artifacts", new)
<1> USE DEF RunOK
<1>1. /\ Grown(rep, new) /\ SameVersion(rep, new) /\ SameVerdict(rep, new)
      /\ new.specs = rep.specs /\ new.topChecked = rep.topChecked
      /\ \/ SameFiles(rep, new)
         \/ /\ rep.form \in {"npm", "npmExec", "pip", "requirements", "download"}
            /\ new.identified \subseteq new.artifacts
            /\ Loud(new) \/ new.staged = new.artifacts
  <2>k. new = rep => /\ Grown(rep, new) /\ SameFiles(rep, new) /\ SameVersion(rep, new)
                     /\ SameVerdict(rep, new) /\ new.specs = rep.specs
                     /\ new.topChecked = rep.topChecked
    BY DEF Grown, SameCommand, SameFiles, SameVersion, SameVerdict
  <2>p. {"prompt"} \in SUBSET Severities /\ {"block"} \in SUBSET Severities
    BY DEF Severities
  <2>f. new \in StagingFails(rep) \cup StagingDirFails(rep) \cup Unsupported(rep) \cup Deferred(rep)
          => /\ Grown(rep, new) /\ SameFiles(rep, new) /\ SameVersion(rep, new)
             /\ SameVerdict(rep, new) /\ new.specs = rep.specs /\ new.topChecked = rep.topChecked
    <3>1. ASSUME new \in StagingFails(rep) \cup StagingDirFails(rep) \cup Unsupported(rep)
          PROVE  /\ Grown(rep, new) /\ SameFiles(rep, new) /\ SameVersion(rep, new)
                 /\ SameVerdict(rep, new) /\ new.specs = rep.specs
                 /\ new.topChecked = rep.topChecked
      <4>1. PICK f \in {{"prompt"}, {"block"}} : new = [rep EXCEPT !.findings = rep.findings \cup f]
        BY <3>1 DEF StagingFails, StagingDirFails, Unsupported
      <4>2. f \in SUBSET Severities
        BY <2>p
      <4> QED
        BY <4>1, <4>2, FindingAdded
    <3> QED
      BY <3>1, DeferredIs
  <2>c. ASSUME NEW files \in SUBSET Packages, new \in Collected(rep, files)
        PROVE  /\ Grown(rep, new) /\ SameVersion(rep, new) /\ SameVerdict(rep, new)
               /\ new.specs = rep.specs /\ new.topChecked = rep.topChecked
               /\ new.identified \subseteq new.artifacts
               /\ Loud(new) \/ new.staged = new.artifacts
    BY <2>c, CollectedIs
  <2>1. CASE new = rep
    BY <2>1, <2>k
  <2>2. CASE new # rep
    <3>1. new \in StageArtifacts(rep)
      BY <2>2 DEF Staged
    <3>2. \/ new \in StagingFails(rep) \cup StagingDirFails(rep) \cup Unsupported(rep) \cup Deferred(rep)
          \/ /\ rep.form \in {"npm", "npmExec"} /\ new \in StageNPM(rep)
          \/ /\ rep.form \in {"pip", "requirements"} /\ new \in StagePip(rep)
          \/ /\ rep.form = "download" /\ new \in StageDownload(rep)
      BY <2>2, <3>1 DEF StageArtifacts
    <3>3. new \in StageNPM(rep) => new \in StagingFails(rep)
                                   \/ \E files \in SUBSET Packages : new \in Collected(rep, files)
      BY DEF StageNPM
    <3>4. new \in StagePip(rep) => new \in StagingFails(rep)
                                   \/ \E files \in SUBSET Packages : new \in Collected(rep, files)
      BY DEF StagePip
    <3>5. new \in StageDownload(rep) => new \in StagingFails(rep)
                                   \/ \E files \in SUBSET Packages : new \in Collected(rep, files)
      <4>1. SUBSET rep.specs \subseteq SUBSET Packages
        BY DEF Reports
      <4> QED
        BY <4>1 DEF StageDownload
    <3>6. \/ new \in StagingFails(rep) \cup StagingDirFails(rep) \cup Unsupported(rep) \cup Deferred(rep)
          \/ /\ rep.form \in {"npm", "npmExec", "pip", "requirements", "download"}
             /\ \E files \in SUBSET Packages : new \in Collected(rep, files)
      BY <3>2, <3>3, <3>4, <3>5
    <3> QED
      BY <2>f, <2>c, <3>6
  <2> QED
    BY <2>1, <2>2
<1>2. FilesOK("artifacts", new)
  <2>1. CASE SameFiles(rep, new)
    BY <1>1, <2>1, QuietStages, FilesStay
  <2>2. CASE ~SameFiles(rep, new)
    BY <1>1, <2>2, QuietStages DEF FilesOK, Grown, SameCommand
  <2> QED
    BY <2>1, <2>2
<1>3. VerdictOK("artifacts", new)
  BY <1>1, QuietStages, VerdictStays
<1>4. AskedOK("artifacts", new)
  <2>1. "stage" \in FromSpecs /\ "stage" \in FromStage /\ "artifacts" \notin FromDependencies
    BY DEF FromSpecs, FromStage, FromDependencies, FromDecide, FromApprovals
  <2> QED
    BY <1>1, <2>1, AskedStays
<1> QED
  BY <1>1, <1>2, <1>3, <1>4 DEF Grown

LEMMA ArtifactsCheckedOK ==
  ASSUME NEW rep, RunOK("artifacts", rep), NEW new \in ArtifactsChecked(rep)
  PROVE  RunOK("dependencies", new)
<1> USE DEF RunOK
<1>1. /\ Grown(rep, new) /\ SameFiles(rep, new) /\ SameVersion(rep, new) /\ SameVerdict(rep, new)
      /\ new.specs = rep.specs /\ new.topChecked = rep.topChecked
      /\ Loud(new) \/ new.identified \subseteq new.asked
  <2>1. CASE NoBlockingRiskOrFinding(rep) /\ rep.artifacts # {}
    <3> DEFINE others == rep.identified \ (IF rep.topChecked THEN {Top} ELSE {})
    <3>1. new \in Answered(rep, others)
      BY <2>1 DEF ArtifactsChecked
    <3>2. others \in SUBSET Packages
      BY DEF Reports
    <3>3. rep.topChecked => Top \in rep.asked
      BY DEF AskedOK
    <3>4. rep.identified \subseteq others \cup rep.asked
      BY <3>3
    <3> HIDE DEF others
    <3>5. /\ Grown(rep, new) /\ SameFiles(rep, new) /\ SameVersion(rep, new)
          /\ SameVerdict(rep, new) /\ new.specs = rep.specs /\ new.topChecked = rep.topChecked
          /\ others \subseteq new.asked
      BY <3>1, <3>2, AnsweredIs
    <3> QED
      BY <3>4, <3>5 DEF Grown, SameFiles
  <2>2. CASE ~(NoBlockingRiskOrFinding(rep) /\ rep.artifacts # {})
    <3>1. new = rep
      BY <2>2 DEF ArtifactsChecked
    <3>2. Loud(rep) \/ rep.identified = {}
      BY <2>2, GuardsAreLoud DEF FilesOK
    <3> QED
      BY <3>1, <3>2 DEF Grown, SameCommand, SameFiles, SameVersion, SameVerdict
  <2> QED
    BY <2>1, <2>2
<1>2. FilesOK("dependencies", new) /\ VerdictOK("dependencies", new)
  BY <1>1, QuietStages, FilesStay, VerdictStays
<1>3. AskedOK("dependencies", new)
  <2>1. "artifacts" \in FromSpecs /\ "artifacts" \in FromStage
    BY DEF FromSpecs, FromStage, FromArtifacts
  <2> QED
    BY <1>1, <2>1, AskedStays
<1> QED
  BY <1>1, <1>2, <1>3 DEF Grown

(* The stages after every package was asked about.                           *)
LEMMA LateStage ==
  ASSUME NEW at \in {"dependencies", "late", "reputation"},
         NEW to \in {"late", "reputation", "decide"}, NEW rep, RunOK(at, rep), NEW new,
         Grown(rep, new), SameFiles(rep, new), SameVersion(rep, new), SameVerdict(rep, new),
         new.specs = rep.specs, new.topChecked = rep.topChecked
  PROVE  RunOK(to, new)
<1>1. at \in FromSpecs /\ at \in FromStage /\ at \in FromDependencies
  BY DEF FromSpecs, FromStage, FromArtifacts, FromDependencies, FromDecide
<1>2. FilesOK(to, new) /\ VerdictOK(to, new)
  BY QuietStages, FilesStay, VerdictStays DEF RunOK
<1>3. AskedOK(to, new)
  BY <1>1, AskedStays DEF RunOK, SameFiles
<1> QED
  BY <1>2, <1>3 DEF RunOK, Grown

LEMMA Unchanged ==
  ASSUME NEW rep \in Reports
  PROVE  Grown(rep, rep) /\ SameFiles(rep, rep) /\ SameVersion(rep, rep) /\ SameVerdict(rep, rep)
BY DEF Grown, SameCommand, SameFiles, SameVersion, SameVerdict

LEMMA DependenciesCheckedOK ==
  ASSUME NEW rep, RunOK("dependencies", rep), NEW new \in DependenciesChecked(rep)
  PROVE  RunOK("late", new)
<1>1. rep \in Reports /\ (new \in Signalled(rep) \/ new = rep)
  BY DEF RunOK, DependenciesChecked
<1> QED
  BY <1>1, SignalledIs, Unchanged, LateStage

LEMMA GrownTwice ==
  ASSUME NEW a, NEW b, NEW c, Grown(a, b), Grown(b, c), SameFiles(a, b), SameFiles(b, c),
         SameVersion(a, b), SameVersion(b, c), SameVerdict(a, b), SameVerdict(b, c)
  PROVE  Grown(a, c) /\ SameFiles(a, c) /\ SameVersion(a, c) /\ SameVerdict(a, c)
BY DEF Grown, SameCommand, SameFiles, SameVersion, SameVerdict

LEMMA LateCheckedOK ==
  ASSUME NEW rep, RunOK("late", rep), NEW new \in LateChecked(rep)
  PROVE  RunOK("reputation", new)
<1>1. rep \in Reports /\ rep.specs \in SUBSET Packages /\ {Top} \in SUBSET Packages
  BY ConstantsAssumption DEF RunOK, Reports
<1>2. PICK mid : /\ mid = rep \/ \E packages \in SUBSET Packages : mid \in Answered(rep, packages)
                 /\ new = mid \/ new \in Signalled(mid)
  <2>1. CASE NoBlockingRiskOrFinding(rep) /\ ProjectInstall(rep)
    <3>1. PICK mid \in (IF SpecsFallback(rep) THEN Answered(rep, rep.specs) ELSE {rep}) :
            new \in IF rep.artifacts # {} THEN Signalled(mid) ELSE {mid}
      BY <2>1 DEF LateChecked
    <3> QED
      BY <1>1, <3>1
  <2>2. CASE ~(NoBlockingRiskOrFinding(rep) /\ ProjectInstall(rep)) /\ TopFallback(rep)
    <3>1. PICK mid \in Answered(rep, {Top}) : new \in Signalled(mid)
      BY <2>2 DEF LateChecked
    <3> QED
      BY <1>1, <3>1
  <2>3. CASE ~(NoBlockingRiskOrFinding(rep) /\ ProjectInstall(rep)) /\ ~TopFallback(rep)
    <3>1. new = rep
      BY <2>3 DEF LateChecked
    <3> QED
      BY <3>1
  <2> QED
    BY <2>1, <2>2, <2>3
<1>3. /\ Grown(rep, mid) /\ SameFiles(rep, mid) /\ SameVersion(rep, mid)
      /\ SameVerdict(rep, mid) /\ mid.specs = rep.specs /\ mid.topChecked = rep.topChecked
  BY <1>1, <1>2, Unchanged, AnsweredIs
<1>4. mid \in Reports
  BY <1>3 DEF Grown
<1>5. /\ Grown(mid, new) /\ SameFiles(mid, new) /\ SameVersion(mid, new)
      /\ SameVerdict(mid, new) /\ new.specs = mid.specs /\ new.topChecked = mid.topChecked
  BY <1>2, <1>4, Unchanged, SignalledIs
<1>6. Grown(rep, new) /\ SameFiles(rep, new) /\ SameVersion(rep, new) /\ SameVerdict(rep, new)
  BY <1>3, <1>5, GrownTwice
<1> QED
  BY <1>3, <1>5, <1>6, LateStage

(* A package that no other run recorded is never passed over in silence.     *)
LEMMA ReputedOK ==
  ASSUME NEW rep, RunOK("reputation", rep), NEW new \in Reputed(rep)
  PROVE  /\ RunOK("decide", new)
         /\ Loud(new) \/ \A p \in ReputationTargets(new) : Seen(p)
<1>1. rep \in Reports
  BY DEF RunOK
<1>2. CASE NoBlockingRiskFindingOrAdvisory(rep) /\ ReputationTargets(rep) # {}
  <2>1. PICK f \in IF \A p \in ReputationTargets(rep) : Seen(p) THEN {{}, {"prompt"}}
                   ELSE {{"prompt"}} :
          new = [rep EXCEPT !.findings = rep.findings \cup f]
    BY <1>2 DEF Reputed
  <2>2. f \in SUBSET Severities
    BY DEF Severities
  <2>3. /\ Grown(rep, new) /\ SameFiles(rep, new) /\ SameVersion(rep, new)
        /\ SameVerdict(rep, new) /\ new.specs = rep.specs /\ new.topChecked = rep.topChecked
        /\ f \subseteq new.findings
    BY <1>1, <2>1, <2>2, FindingAdded
  <2>4. Loud(new) \/ \A p \in ReputationTargets(rep) : Seen(p)
    BY <2>3 DEF Loud
  <2>5. ReputationTargets(new) = ReputationTargets(rep)
    BY <2>3, FormStays DEF ReputationTargets, Grown, SameCommand, SameFiles
  <2>6. RunOK("decide", new)
    BY <2>3, LateStage
  <2> QED
    BY <2>4, <2>5, <2>6
<1>3. CASE ~(NoBlockingRiskFindingOrAdvisory(rep) /\ ReputationTargets(rep) # {})
  <2>1. new = rep
    BY <1>3 DEF Reputed
  <2>2. RunOK("decide", new)
    BY <1>1, <2>1, Unchanged, LateStage
  <2> QED
    BY <1>3, <2>1, <2>2, GuardsAreLoud
<1> QED
  BY <1>2, <1>3

LEMMA EvaluateTyped == \A s : Evaluate(s) \in Verdicts
  BY DEF Evaluate, Verdicts

(* Judging a report changes its verdict alone.                               *)
LEMMA JudgedIs ==
  ASSUME NEW rep \in Reports
  PROVE  /\ Judged(rep) \in Reports
         /\ Grown(rep, Judged(rep)) /\ SameFiles(rep, Judged(rep)) /\ SameVersion(rep, Judged(rep))
         /\ Judged(rep).specs = rep.specs /\ Judged(rep).topChecked = rep.topChecked
         /\ Judged(rep).allowlisted = rep.allowlisted /\ Judged(rep).consent = rep.consent
         /\ Judged(rep).verdict = Evaluate(SignalsOf(Judged(rep)))
<1> DEFINE new == Judged(rep)
<1>1. new = [rep EXCEPT !.verdict = Evaluate(SignalsOf(rep))]
  BY DEF Judged
<1> HIDE DEF new
<1>2. new \in Reports
  BY <1>1, EvaluateTyped DEF Reports
<1>3. /\ Grown(rep, new) /\ SameFiles(rep, new) /\ SameVersion(rep, new)
      /\ new.specs = rep.specs /\ new.topChecked = rep.topChecked
      /\ new.allowlisted = rep.allowlisted /\ new.consent = rep.consent
      /\ new.findings = rep.findings /\ new.advisories = rep.advisories
      /\ new.verdict = Evaluate(SignalsOf(rep))
  BY <1>1, <1>2 DEF Reports, Grown, SameCommand, SameFiles, SameVersion
<1>4. SignalsOf(new) = SignalsOf(rep)
  BY <1>3 DEF SignalsOf, Grown, SameCommand, SameVersion
<1> QED
  BY <1>2, <1>3, <1>4 DEF new

(* Decide keeps what the earlier stages said, and judges it.                 *)
LEMMA DecidedOK ==
  ASSUME NEW rep, RunOK("decide", rep), NEW new \in Decided(rep)
  PROVE  /\ RunOK("approvals", new) /\ Grown(rep, new) /\ SameFiles(rep, new)
         /\ new.specs = rep.specs /\ PromotedOK("approvals", new)
<1> DEFINE checked == IF /\ rep.form \in {"npm", "npmExec"} /\ rep.identified # {}
                         /\ ~CanPromoteNPMStagedInstall(rep)
                      THEN [rep EXCEPT !.findings = @ \cup {"block"}] ELSE rep
<1>1. new = Judged(checked)
  BY DEF Decided
<1>2. /\ Grown(rep, checked) /\ SameFiles(rep, checked) /\ SameVersion(rep, checked)
      /\ SameVerdict(rep, checked) /\ checked.specs = rep.specs
      /\ checked.topChecked = rep.topChecked
  <2>1. rep \in Reports /\ {"block"} \in SUBSET Severities
    BY DEF RunOK, Severities
  <2>0. checked = rep \/ checked = [rep EXCEPT !.findings = rep.findings \cup {"block"}]
    OBVIOUS
  <2> HIDE DEF checked
  <2>2. CASE checked = rep
    BY <2>1, <2>2, Unchanged
  <2>3. CASE checked # rep
    BY <2>0, <2>1, <2>3, FindingAdded
  <2> QED
    BY <2>2, <2>3
<1>p. \/ ~(rep.form \in {"npm", "npmExec"} /\ rep.identified # {})
      \/ CanPromoteNPMStagedInstall(rep) \/ "block" \in checked.findings
  <2>1. CASE \/ ~(rep.form \in {"npm", "npmExec"} /\ rep.identified # {})
             \/ CanPromoteNPMStagedInstall(rep)
    BY <2>1
  <2>2. CASE /\ rep.form \in {"npm", "npmExec"} /\ rep.identified # {}
             /\ ~CanPromoteNPMStagedInstall(rep)
    <3>1. checked = [rep EXCEPT !.findings = @ \cup {"block"}]
      BY <2>2
    <3> HIDE DEF checked
    <3> QED
      BY <3>1 DEF RunOK, Reports
  <2> QED
    BY <2>1, <2>2
<1> HIDE DEF checked
<1>3. checked \in Reports
  BY <1>2 DEF Grown
<1>5. /\ new \in Reports /\ Grown(checked, new) /\ SameFiles(checked, new)
      /\ SameVersion(checked, new)
      /\ new.specs = checked.specs /\ new.topChecked = checked.topChecked
      /\ new.allowlisted = checked.allowlisted /\ new.consent = checked.consent
      /\ new.verdict = Evaluate(SignalsOf(new))
  BY <1>1, <1>3, JudgedIs
<1>7. /\ Grown(rep, new) /\ SameFiles(rep, new) /\ SameVersion(rep, new)
      /\ new.specs = rep.specs /\ new.topChecked = rep.topChecked
  BY <1>2, <1>5 DEF Grown, SameCommand, SameFiles, SameVersion
<1>8. VerdictOK("approvals", new)
  BY <1>2, <1>5 DEF VerdictOK, RunOK, FromApprovals, SameVerdict
<1>9. FilesOK("approvals", new)
  <2>1. "approvals" \in FromArtifacts /\ "decide" \in FromArtifacts
    BY DEF FromArtifacts, FromDependencies, FromDecide, FromApprovals
  <2> QED
    BY <1>7, <2>1, FilesStay DEF RunOK
<1>10. AskedOK("approvals", new)
  <2>1. "decide" \in FromSpecs /\ "decide" \in FromStage /\ "decide" \in FromDependencies
    BY DEF FromSpecs, FromStage, FromArtifacts, FromDependencies, FromDecide
  <2> QED
    BY <1>7, <2>1, AskedStays DEF RunOK, SameFiles
<1>11. PromotedOK("approvals", new)
  <2>1. "block" \in checked.findings => "block" \in new.findings
    BY <1>5 DEF Grown
  <2> QED
    BY <1>p, <1>7, <2>1
    DEF PromotedOK, CanPromoteNPMStagedInstall, Grown, SameCommand, SameFiles, SameVersion
<1> QED
  BY <1>5, <1>7, <1>8, <1>9, <1>10, <1>11 DEF RunOK

LEMMA LateAts ==
  FromApprovals \subseteq FromArtifacts /\ FromApprovals \subseteq FromSpecs
  /\ FromApprovals \subseteq FromStage /\ FromApprovals \subseteq FromDependencies
BY DEF FromArtifacts, FromSpecs, FromStage, FromDependencies, FromDecide

LEMMA AllowlistedOK ==
  ASSUME NEW rep, RunOK("approvals", rep), NEW new \in Allowlisted(rep)
  PROVE  /\ RunOK("fixture", new) /\ Grown(rep, new) /\ SameFiles(rep, new)
         /\ new.specs = rep.specs /\ SameVersion(rep, new)
         /\ new.allowlisted \/ new.verdict = rep.verdict
<1>t. rep \in Reports /\ "approvals" \in FromApprovals /\ "fixture" \in FromApprovals
  BY DEF RunOK, FromApprovals
<1>1. /\ Grown(rep, new) /\ SameFiles(rep, new) /\ SameVersion(rep, new)
      /\ new.specs = rep.specs /\ new.topChecked = rep.topChecked
      /\ new.allowlisted \/ new.verdict = rep.verdict
      /\ VerdictOK("fixture", new)
  <2>1. CASE new = rep
    BY <1>t, <2>1, Unchanged DEF RunOK, VerdictOK
  <2>2. CASE new # rep
    <3>1. PICK approvals \in { s \in SUBSET Packages :
                                 rep.verdict # Block /\ ArtifactsApproved(s, rep) } :
            new = [rep EXCEPT !.verdict = Allow, !.allowlisted = TRUE, !.approved = approvals]
      BY <2>2 DEF Allowlisted
    <3>2. new \in Reports
      BY <1>t, <3>1 DEF Reports, Verdicts
    <3>3. /\ Grown(rep, new) /\ SameFiles(rep, new) /\ SameVersion(rep, new)
          /\ new.specs = rep.specs /\ new.topChecked = rep.topChecked
          /\ new.findings = rep.findings /\ new.advisories = rep.advisories
          /\ new.allowlisted /\ new.verdict = Allow /\ new.approved = approvals
          /\ new.consent = rep.consent
      BY <1>t, <3>1, <3>2 DEF Reports, Grown, SameCommand, SameFiles, SameVersion
    <3>4. SignalsOf(new) = SignalsOf(rep)
      BY <3>3 DEF SignalsOf, Grown, SameCommand, SameVersion
    <3>5. Evaluate(SignalsOf(rep)) # Block /\ ~rep.consent
      BY <1>t DEF RunOK, VerdictOK
    <3>6. ArtifactsApproved(new.approved, new)
      BY <3>3 DEF ArtifactsApproved, SameFiles
    <3> QED
      BY <1>t, <3>3, <3>4, <3>5, <3>6 DEF VerdictOK
  <2> QED
    BY <2>1, <2>2
<1>2. FilesOK("fixture", new)
  BY <1>t, <1>1, LateAts, FilesStay DEF RunOK
<1>3. AskedOK("fixture", new)
  BY <1>t, <1>1, LateAts, AskedStays DEF RunOK, SameFiles
<1> QED
  BY <1>1, <1>2, <1>3 DEF RunOK, Grown

LEMMA SignalsTyped == ASSUME NEW rep \in Reports PROVE SignalsOf(rep) \in Signals
<1>1. rep.age \in Int
  BY ConstantsAssumption DEF Reports
<1>2. rep.shell \in BOOLEAN /\ rep.found \in BOOLEAN /\ rep.flags \in SUBSET Severities
      /\ rep.findings \in SUBSET Severities /\ rep.advisories \in SUBSET AdvisoryKinds
  BY DEF Reports
<1>3. (rep.form = "download" /\ rep.specs = {}) \in BOOLEAN
  OBVIOUS
<1> QED
  BY <1>1, <1>2, <1>3 DEF SignalsOf, Signals

(* The fixture judges the report again, and only adds to it.                 *)
LEMMA FixtureAttachedOK ==
  ASSUME NEW rep, RunOK("fixture", rep), NEW new \in FixtureAttached(rep)
  PROVE  /\ RunOK("record", new) /\ Grown(rep, new) /\ SameFiles(rep, new)
         /\ new.specs = rep.specs /\ SameVersion(rep, new)
         /\ rep.allowlisted \/ Rank(new.verdict) >= Rank(rep.verdict)
<1>t. rep \in Reports /\ "fixture" \in FromApprovals /\ "record" \in FromApprovals
  BY DEF RunOK, FromApprovals
<1>1. /\ Grown(rep, new) /\ SameFiles(rep, new) /\ SameVersion(rep, new)
      /\ new.specs = rep.specs /\ new.topChecked = rep.topChecked
      /\ rep.allowlisted \/ Rank(new.verdict) >= Rank(rep.verdict)
      /\ VerdictOK("record", new)
  <2>1. CASE new = rep
    <3>1. Rank(new.verdict) >= Rank(rep.verdict)
      BY <2>1 DEF Rank
    <3> QED
      BY <1>t, <2>1, <3>1, Unchanged DEF RunOK, VerdictOK
  <2>2. CASE new # rep
    <3>1. PICK f \in FindingChoices :
            new = Judged([rep EXCEPT !.findings = @ \cup f, !.allowlisted = FALSE])
      BY <2>2 DEF FixtureAttached
    <3> DEFINE fs  == rep.findings \cup f
               mid == [rep EXCEPT !.findings = fs, !.allowlisted = FALSE]
    <3>2. fs \in SUBSET Severities /\ rep.findings \subseteq fs
      BY <1>t, ChoicesTyped DEF Reports
    <3>3. new = Judged(mid)
      BY <3>1
    <3> HIDE DEF fs
    <3>4. mid \in Reports
      BY <1>t, <3>2 DEF Reports
    <3>5. /\ Grown(rep, mid) /\ SameFiles(rep, mid) /\ SameVersion(rep, mid)
          /\ mid.specs = rep.specs /\ mid.topChecked = rep.topChecked
          /\ ~mid.allowlisted /\ mid.consent = rep.consent
      BY <1>t, <3>2, <3>4 DEF Reports, Grown, SameCommand, SameFiles, SameVersion
    <3> HIDE DEF mid
    <3>6. /\ new \in Reports /\ Grown(mid, new) /\ SameFiles(mid, new) /\ SameVersion(mid, new)
          /\ new.specs = mid.specs /\ new.topChecked = mid.topChecked
          /\ new.allowlisted = mid.allowlisted /\ new.consent = mid.consent
          /\ new.verdict = Evaluate(SignalsOf(new))
      BY <3>3, <3>4, JudgedIs
    <3>8. /\ Grown(rep, new) /\ SameFiles(rep, new) /\ SameVersion(rep, new)
          /\ new.specs = rep.specs /\ new.topChecked = rep.topChecked
          /\ ~new.allowlisted /\ new.consent = rep.consent
      BY <3>5, <3>6 DEF Grown, SameCommand, SameFiles, SameVersion
    <3>9. ~new.consent
      BY <3>8 DEF RunOK, VerdictOK
    <3>10. rep.allowlisted \/ Rank(new.verdict) >= Rank(rep.verdict)
      <4>1. SignalsOf(rep) \in Signals /\ SignalsOf(new) \in Signals
        BY <1>t, <3>6, SignalsTyped
      <4>2. Extends(SignalsOf(rep), SignalsOf(new))
        BY <3>8 DEF Extends, SignalsOf, Grown, SameCommand, SameVersion
      <4>3. Rank(Evaluate(SignalsOf(rep))) <= Rank(Evaluate(SignalsOf(new)))
        BY <4>1, <4>2, EvaluateMonotone
      <4>4. rep.allowlisted \/ rep.verdict = Evaluate(SignalsOf(rep))
        BY <1>t DEF RunOK, VerdictOK
      <4> QED
        BY <3>6, <4>3, <4>4 DEF Rank
    <3> QED
      BY <1>t, <3>6, <3>8, <3>9, <3>10 DEF VerdictOK
  <2> QED
    BY <2>1, <2>2
<1>2. FilesOK("record", new)
  BY <1>t, <1>1, LateAts, FilesStay DEF RunOK
<1>3. AskedOK("record", new)
  BY <1>t, <1>1, LateAts, AskedStays DEF RunOK, SameFiles
<1> QED
  BY <1>1, <1>2, <1>3 DEF RunOK, Grown
-----------------------------------------------------------------------------
(* The runs.                                                                 *)
LEMMA InitInv == Init => PreflightInv
<1> SUFFICES ASSUME Init PROVE PreflightInv
  OBVIOUS
<1>1. pc = [r \in Runs |-> "parse"]
      /\ log \in {{}} \cup { { [run |-> Earlier, verdict |-> Prompt, seen |-> seen] } :
                               seen \in SUBSET Packages }
  BY DEF Init
<1>2. PICK age0 \in Ages :
        report \in [Runs -> { rep \in
          [ form : Forms, guard : BOOLEAN, fixture : BOOLEAN,
            shell : BOOLEAN, flags : SUBSET {"prompt", "block"}, specs : {{}, {Top}},
            found : {FALSE}, age : {age0}, findings : {{}}, advisories : {{}},
            deferred : {FALSE}, staged : {{}}, artifacts : {{}}, identified : {{}},
            topChecked : {FALSE}, specsChecked : {FALSE}, asked : {{}},
            verdict : {"none"}, allowlisted : {FALSE}, approved : {{}},
            consent : {FALSE} ] : Classified(rep) }]
  BY DEF Init
<1>3. ASSUME NEW r \in Runs
      PROVE  /\ report[r] \in Reports /\ ~report[r].found /\ ~report[r].topChecked
             /\ report[r].staged = {} /\ report[r].artifacts = {} /\ report[r].identified = {}
             /\ report[r].verdict = "none" /\ ~report[r].allowlisted /\ ~report[r].consent
  <2>1. report[r] \in
          [ form : Forms, guard : BOOLEAN, fixture : BOOLEAN,
            shell : BOOLEAN, flags : SUBSET {"prompt", "block"}, specs : {{}, {Top}},
            found : {FALSE}, age : {age0}, findings : {{}}, advisories : {{}},
            deferred : {FALSE}, staged : {{}}, artifacts : {{}}, identified : {{}},
            topChecked : {FALSE}, specsChecked : {FALSE}, asked : {{}},
            verdict : {"none"}, allowlisted : {FALSE}, approved : {{}},
            consent : {FALSE} ]
    BY <1>2
  <2>2. Top \in Packages /\ {"prompt", "block"} \subseteq Severities
    BY ConstantsAssumption DEF Severities
  <2> QED
    BY <2>1, <2>2 DEF Reports
<1>4. \A event \in log : /\ event \in [run : {Earlier}, verdict : Verdicts, seen : SUBSET Packages]
                         /\ event.run = Earlier
  BY <1>1 DEF Verdicts
<1>5. TypeOK
  <2>1. report \in [Runs -> Reports]
    BY <1>2, <1>3
  <2> QED
    BY <1>1, <1>4, <2>1 DEF TypeOK, Stages
<1>6. ASSUME NEW r \in Runs PROVE RunOK(pc[r], report[r])
  <2>1. pc[r] = "parse" /\ "parse" \notin FromSpecs /\ "parse" \notin FromStage
        /\ "parse" \notin FromDependencies /\ "parse" \notin FromApprovals
    BY <1>1 DEF FromSpecs, FromStage, FromArtifacts, FromDependencies, FromDecide, FromApprovals
  <2> QED
    BY <1>3, <2>1 DEF RunOK, FilesOK, AskedOK, VerdictOK
<1>7. ASSUME NEW r \in Runs PROVE LogOK(r)
  <2>1. pc[r] = "parse" /\ "parse" \notin FromDecide
    BY <1>1 DEF FromDecide, FromApprovals
  <2> QED
    BY <1>4, <2>1, ConstantsAssumption DEF LogOK
<1> QED
  BY <1>5, <1>6, <1>7 DEF PreflightInv

(* What the steps of one run leave of the others.                            *)
LEMMA OthersKeep ==
  ASSUME PreflightInv, NEW r \in Runs, NEW q \in Runs \ {r},
         pc'[q] = pc[q], report'[q] = report[q], log \subseteq log',
         \A event \in log' \ log : event.run = r
  PROVE  RunOK(pc[q], report[q])' /\ LogOK(q)'
<1>1. RunOK(pc[q], report[q])'
  BY DEF PreflightInv, RunOK, FilesOK, AskedOK, VerdictOK
<1>2. LogOK(q)'
  BY DEF PreflightInv, LogOK, ReputationTargets, HasEcosystem, Loud
<1> QED
  BY <1>1, <1>2

(* A stage keeps the invariant when its outcomes are right for where it goes.*)
LEMMA StageKeeps ==
  ASSUME PreflightInv, NEW r \in Runs, NEW from, NEW to \in Stages, NEW outcomes,
         Stage(r, from, to, outcomes),
         to \notin {"guard", "execute", "executed", "refused", "reported", "failed"},
         from \notin {"guard", "execute", "executed", "refused", "reported", "failed"},
         \A new \in outcomes :
           /\ RunOK(to, new)
           /\ to \in FromDecide =>
                \/ Loud(new)
                \/ \A p \in ReputationTargets(new) : Seen(p)
                \/ /\ from \in FromDecide /\ Grown(report[r], new)
                   /\ SameFiles(report[r], new) /\ new.specs = report[r].specs
  PROVE  PreflightInv'
<1>1. PICK new \in outcomes : report' = [report EXCEPT ![r] = new]
  BY DEF Stage
<1>2. pc[r] = from /\ pc' = [pc EXCEPT ![r] = to] /\ log' = log
  BY DEF Stage
<1>3. /\ report'[r] = new /\ pc'[r] = to
      /\ \A q \in Runs \ {r} : pc'[q] = pc[q] /\ report'[q] = report[q]
  BY <1>1, <1>2 DEF PreflightInv, TypeOK
<1>4. TypeOK'
  <2>1. new \in Reports
    BY DEF RunOK
  <2> QED
    BY <1>1, <1>2, <2>1 DEF PreflightInv, TypeOK
<1>5. RunOK(pc'[r], report'[r])
  BY <1>3
<1>6. LogOK(r)'
  <2>1. \A event \in log : event.run # r
    BY <1>2 DEF PreflightInv, LogOK, FromApprovals
  <2>2. to \in FromDecide =>
          Loud(new) \/ \A p \in ReputationTargets(new) :
                         \E event \in log : event.run # r /\ p \in event.seen
    <3>1. (\A p \in ReputationTargets(new) : Seen(p)) =>
            \A p \in ReputationTargets(new) : \E event \in log : event.run # r /\ p \in event.seen
      BY <2>1 DEF Seen
    <3>2. from \in FromDecide /\ Grown(report[r], new)
          /\ SameFiles(report[r], new) /\ new.specs = report[r].specs
          => \/ Loud(new)
             \/ \A p \in ReputationTargets(new) :
                  \E event \in log : event.run # r /\ p \in event.seen
      <4> SUFFICES ASSUME from \in FromDecide, Grown(report[r], new),
                          SameFiles(report[r], new), new.specs = report[r].specs
                   PROVE  \/ Loud(new)
                          \/ \A p \in ReputationTargets(new) :
                               \E event \in log : event.run # r /\ p \in event.seen
        OBVIOUS
      <4>1. ReputationTargets(new) = ReputationTargets(report[r])
        BY FormStays DEF ReputationTargets, Grown, SameCommand, SameFiles
      <4>2. Loud(report[r]) => Loud(new)
        BY LoudStays
      <4> QED
        BY <1>2, <4>1, <4>2 DEF PreflightInv, LogOK
    <3> QED
      BY <3>1, <3>2
  <2>3. Loud(report[r])' <=> Loud(new)
    BY <1>3 DEF Loud
  <2>4. ReputationTargets(report[r])' = ReputationTargets(new)
    BY <1>3 DEF ReputationTargets, HasEcosystem
  <2> QED
    BY <1>2, <1>3, <2>1, <2>2, <2>3, <2>4 DEF LogOK
<1>7. \A q \in Runs \ {r} : RunOK(pc[q], report[q])' /\ LogOK(q)'
  BY <1>2, <1>3, OthersKeep
<1>8. RunOK(pc[r], report[r])'
  BY <1>5 DEF RunOK, FilesOK, AskedOK, VerdictOK
<1> QED
  BY <1>4, <1>6, <1>7, <1>8 DEF PreflightInv

(* A later step keeps the report, or asks the user about it.                 *)
LEMMA StepInv == PreflightInv /\ [Next]_vars => PreflightInv'
<1> SUFFICES ASSUME PreflightInv, [Next]_vars PROVE PreflightInv'
  OBVIOUS
<1>1. ASSUME UNCHANGED vars PROVE PreflightInv'
  BY <1>1 DEF vars, PreflightInv, TypeOK, RunOK, FilesOK, AskedOK, VerdictOK, LogOK,
              ReputationTargets, HasEcosystem, Loud
<1> SUFFICES ASSUME NEW r \in Runs, RunStep(r) PROVE PreflightInv'
  BY <1>1 DEF Next, Finished
<1>r. RunOK(pc[r], report[r]) /\ report[r] \in Reports /\ LogOK(r)
  BY DEF PreflightInv, RunOK
<1>s. /\ {"resolve", "follow", "specs", "stage", "artifacts", "dependencies", "late",
           "reputation", "decide", "approvals", "fixture", "record"} \subseteq Stages
      /\ {"resolve", "follow", "specs", "stage", "artifacts", "dependencies", "late",
          "reputation"} \cap FromDecide = {}
      /\ {"decide", "approvals", "fixture", "record"} \subseteq FromDecide
  BY DEF Stages, FromDecide, FromApprovals
<1>2. CASE Parse(r)
  <2>1. Stage(r, "parse", "resolve", Parsed(report[r])) /\ pc[r] = "parse"
    BY <1>2 DEF Parse, Stage
  <2>2. RunOK("parse", report[r])
    BY <1>r, <2>1
  <2>3. \A new \in Parsed(report[r]) : RunOK("resolve", new)
    BY <2>2, ParsedOK
  <2> QED
    BY <1>s, <2>1, <2>3, StageKeeps
<1>3. CASE Resolve(r)
  <2>1. Stage(r, "resolve", "follow", Resolved(report[r])) /\ pc[r] = "resolve"
    BY <1>3 DEF Resolve, Stage
  <2>2. RunOK("resolve", report[r])
    BY <1>r, <2>1
  <2>3. \A new \in Resolved(report[r]) : RunOK("follow", new)
    BY <2>2, ResolvedOK
  <2> QED
    BY <1>s, <2>1, <2>3, StageKeeps
<1>4. CASE Follow(r)
  <2>1. Stage(r, "follow", "specs", Followed(report[r])) /\ pc[r] = "follow"
    BY <1>4 DEF Follow, Stage
  <2>2. RunOK("follow", report[r])
    BY <1>r, <2>1
  <2>3. \A new \in Followed(report[r]) : RunOK("specs", new)
    BY <2>2, FollowedOK
  <2> QED
    BY <1>s, <2>1, <2>3, StageKeeps
<1>5. CASE CheckSpecs(r)
  <2>1. Stage(r, "specs", "stage", SpecsChecked(report[r])) /\ pc[r] = "specs"
    BY <1>5 DEF CheckSpecs, Stage
  <2>2. RunOK("specs", report[r])
    BY <1>r, <2>1
  <2>3. \A new \in SpecsChecked(report[r]) : RunOK("stage", new)
    BY <2>2, SpecsCheckedOK
  <2> QED
    BY <1>s, <2>1, <2>3, StageKeeps
<1>6. CASE StageFiles(r)
  <2>1. Stage(r, "stage", "artifacts", Staged(report[r])) /\ pc[r] = "stage"
    BY <1>6 DEF StageFiles, Stage
  <2>2. RunOK("stage", report[r])
    BY <1>r, <2>1
  <2>3. \A new \in Staged(report[r]) : RunOK("artifacts", new)
    BY <2>2, StagedOK
  <2> QED
    BY <1>s, <2>1, <2>3, StageKeeps
<1>7. CASE CheckArtifacts(r)
  <2>1. Stage(r, "artifacts", "dependencies", ArtifactsChecked(report[r])) /\ pc[r] = "artifacts"
    BY <1>7 DEF CheckArtifacts, Stage
  <2>2. RunOK("artifacts", report[r])
    BY <1>r, <2>1
  <2>3. \A new \in ArtifactsChecked(report[r]) : RunOK("dependencies", new)
    BY <2>2, ArtifactsCheckedOK
  <2> QED
    BY <1>s, <2>1, <2>3, StageKeeps
<1>8. CASE CheckDependencies(r)
  <2>1. Stage(r, "dependencies", "late", DependenciesChecked(report[r])) /\ pc[r] = "dependencies"
    BY <1>8 DEF CheckDependencies, Stage
  <2>2. RunOK("dependencies", report[r])
    BY <1>r, <2>1
  <2>3. \A new \in DependenciesChecked(report[r]) : RunOK("late", new)
    BY <2>2, DependenciesCheckedOK
  <2> QED
    BY <1>s, <2>1, <2>3, StageKeeps
<1>9. CASE CheckLate(r)
  <2>1. Stage(r, "late", "reputation", LateChecked(report[r])) /\ pc[r] = "late"
    BY <1>9 DEF CheckLate, Stage
  <2>2. RunOK("late", report[r])
    BY <1>r, <2>1
  <2>3. \A new \in LateChecked(report[r]) : RunOK("reputation", new)
    BY <2>2, LateCheckedOK
  <2> QED
    BY <1>s, <2>1, <2>3, StageKeeps
<1>10. CASE CheckReputation(r)
  <2>1. Stage(r, "reputation", "decide", Reputed(report[r])) /\ pc[r] = "reputation"
    BY <1>10 DEF CheckReputation, Stage
  <2>2. RunOK("reputation", report[r])
    BY <1>r, <2>1
  <2>3. \A new \in Reputed(report[r]) : RunOK("decide", new)
    BY <2>2, ReputedOK
  <2>4. \A new \in Reputed(report[r]) :
          \/ Loud(new)
          \/ \A p \in ReputationTargets(new) : Seen(p)
          \/ /\ "reputation" \in FromDecide /\ Grown(report[r], new)
             /\ SameFiles(report[r], new) /\ new.specs = report[r].specs
    BY <1>s, <2>2, ReputedOK
  <2> QED
    BY <1>s, <2>1, <2>3, <2>4, StageKeeps
<1>11. CASE Decide(r)
  <2>1. Stage(r, "decide", "approvals", Decided(report[r])) /\ pc[r] = "decide"
    BY <1>11 DEF Decide, Stage
  <2>2. RunOK("decide", report[r])
    BY <1>r, <2>1
  <2>3. \A new \in Decided(report[r]) : RunOK("approvals", new)
    BY <2>2, DecidedOK
  <2>4. \A new \in Decided(report[r]) :
          \/ Loud(new)
          \/ \A p \in ReputationTargets(new) : Seen(p)
          \/ /\ "decide" \in FromDecide /\ Grown(report[r], new)
             /\ SameFiles(report[r], new) /\ new.specs = report[r].specs
    BY <1>s, <2>2, DecidedOK
  <2> QED
    BY <1>s, <2>1, <2>3, <2>4, StageKeeps
<1>12. CASE ReadApprovals(r)
  <2>1. Stage(r, "approvals", "fixture", Allowlisted(report[r])) /\ pc[r] = "approvals"
    BY <1>12 DEF ReadApprovals, Stage
  <2>2. RunOK("approvals", report[r])
    BY <1>r, <2>1
  <2>3. \A new \in Allowlisted(report[r]) : RunOK("fixture", new)
    BY <2>2, AllowlistedOK
  <2>4. \A new \in Allowlisted(report[r]) :
          \/ Loud(new)
          \/ \A p \in ReputationTargets(new) : Seen(p)
          \/ /\ "approvals" \in FromDecide /\ Grown(report[r], new)
             /\ SameFiles(report[r], new) /\ new.specs = report[r].specs
    BY <1>s, <2>2, AllowlistedOK
  <2> QED
    BY <1>s, <2>1, <2>3, <2>4, StageKeeps
<1>13. CASE AttachFixture(r)
  <2>1. Stage(r, "fixture", "record", FixtureAttached(report[r])) /\ pc[r] = "fixture"
    BY <1>13 DEF AttachFixture, Stage
  <2>2. RunOK("fixture", report[r])
    BY <1>r, <2>1
  <2>3. \A new \in FixtureAttached(report[r]) : RunOK("record", new)
    BY <2>2, FixtureAttachedOK
  <2>4. \A new \in FixtureAttached(report[r]) :
          \/ Loud(new)
          \/ \A p \in ReputationTargets(new) : Seen(p)
          \/ /\ "fixture" \in FromDecide /\ Grown(report[r], new)
             /\ SameFiles(report[r], new) /\ new.specs = report[r].specs
    BY <1>s, <2>2, FixtureAttachedOK
  <2> QED
    BY <1>s, <2>1, <2>3, <2>4, StageKeeps
(* The steps after the report is final.                                      *)
<1>k. ASSUME NEW to \in {"guard", "execute", "executed", "refused", "reported", "failed"},
             pc' = [pc EXCEPT ![r] = to],
             pc[r] \in {"record", "guard", "execute"},
             TypeOK', RunOK(to, report'[r]),
             \A q \in Runs \ {r} : report'[q] = report[q],
             Grown(report[r], report'[r]), SameFiles(report[r], report'[r]),
             report'[r].specs = report[r].specs,
             report'[r].verdict = report[r].verdict,
             \/ log' = log /\ (pc[r] = "record" => to = "failed")
             \/ log' = log \cup {Event(r)}
      PROVE  PreflightInv'
  <2>1. pc'[r] = to /\ \A q \in Runs \ {r} : pc'[q] = pc[q]
    BY <1>k DEF PreflightInv, TypeOK
  <2>2. /\ log \subseteq log' /\ Event(r).run = r /\ Event(r).verdict = report[r].verdict
        /\ \A event \in log' \ log : event.run = r
    BY <1>k DEF Event
  <2>3. \A q \in Runs \ {r} : RunOK(pc[q], report[q])' /\ LogOK(q)'
    BY <1>k, <2>1, <2>2, OthersKeep
  <2>4. RunOK(pc[r], report[r])'
    BY <1>k, <2>1 DEF RunOK, FilesOK, AskedOK, VerdictOK
  <2>5. LogOK(r)'
    <3>1. pc'[r] \in {"guard", "execute", "executed"} =>
            \E event \in log' : event.run = r /\ event.verdict = report'[r].verdict
      BY <1>k, <1>r, <2>1, <2>2 DEF LogOK
    <3>2. pc'[r] \in FromApprovals \ {"approvals", "fixture", "record"}
      BY <1>k, <2>1 DEF FromApprovals
    <3>3. Loud(report[r])' \/ \A p \in ReputationTargets(report[r])' :
                                \E event \in log' : event.run # r /\ p \in event.seen
      <4>1. pc[r] \in FromDecide
        BY <1>k DEF FromDecide, FromApprovals
      <4>2. Loud(report[r]) => Loud(report[r])'
        BY <1>k, LoudStays DEF Loud, Grown, SameCommand, HasBlockingAdvisory
      <4>3. ReputationTargets(report[r])' = ReputationTargets(report[r])
        BY <1>k DEF ReputationTargets, HasEcosystem, Grown, SameCommand, SameFiles
      <4> QED
        BY <1>r, <2>2, <4>1, <4>2, <4>3 DEF LogOK
    <3> QED
      BY <3>1, <3>2, <3>3 DEF LogOK
  <2> QED
    BY <1>k, <2>3, <2>4, <2>5 DEF PreflightInv
(* Where a report is guarded, executed or refused is no matter to it.        *)
<1>l. ASSUME NEW to \in {"guard", "execute", "executed", "refused", "reported", "failed"},
             pc[r] \in {"record", "guard", "execute"},
             to \in {"execute", "executed"} =>
               report[r].verdict = Allow \/ (report[r].consent /\ report[r].verdict = Prompt),
             to \in {"guard", "reported"} => pc[r] = "record"
      PROVE  RunOK(to, report[r])
  <2>1. pc[r] \in FromApprovals /\ to \in FromApprovals
    BY <1>l DEF FromApprovals
  <2>2. FilesOK(to, report[r]) /\ AskedOK(to, report[r])
    BY <1>r, <2>1, LateAts DEF RunOK, FilesOK, AskedOK
  <2>3. VerdictOK(to, report[r])
    BY <1>l, <1>r, <2>1 DEF RunOK, VerdictOK
  <2> QED
    BY <1>r, <2>2, <2>3 DEF RunOK
<1>u. /\ Grown(report[r], report[r]) /\ SameFiles(report[r], report[r])
      /\ pc \in [Runs -> Stages] /\ report \in [Runs -> Reports]
      /\ log \subseteq [run : Runs \cup {Earlier}, verdict : Verdicts, seen : SUBSET Packages]
  BY <1>r, Unchanged DEF PreflightInv, TypeOK
<1>m. {"guard", "execute", "executed", "refused", "reported", "failed"} \subseteq Stages
  BY DEF Stages
<1>14. CASE Record(r)
  <2>1. PICK to \in {"guard", "reported", "failed"} :
          /\ pc' = [pc EXCEPT ![r] = to] /\ pc[r] = "record" /\ UNCHANGED report
          /\ \/ log' = log /\ to = "failed"
             \/ log' = log \cup {Event(r)}
    BY <1>14 DEF Record
  <2>2. Event(r) \in [run : Runs \cup {Earlier}, verdict : Verdicts, seen : SUBSET Packages]
    <3>1. report[r].verdict \in Verdicts
      BY <1>r, <2>1, EvaluateTyped DEF RunOK, VerdictOK, FromApprovals, Verdicts
    <3> QED
      BY <1>r, <3>1 DEF Event, Reports
  <2>3. TypeOK'
    BY <1>u, <1>m, <2>1, <2>2 DEF TypeOK
  <2>4. RunOK(to, report[r])
    BY <1>l, <2>1
  <2> QED
    BY <1>k, <1>u, <2>1, <2>3, <2>4
<1>15. CASE Refuse(r) \/ Pass(r) \/ Execute(r)
  <2>1. PICK to \in {"execute", "executed", "refused", "failed"} :
          /\ pc' = [pc EXCEPT ![r] = to] /\ pc[r] \in {"guard", "execute"}
          /\ UNCHANGED <<report, log>>
          /\ to = "execute" => pc[r] = "guard" /\ report[r].verdict = Allow
          /\ to = "executed" => pc[r] = "execute"
    BY <1>15 DEF Refuse, Pass, Execute
  <2>2. TypeOK'
    BY <1>u, <1>m, <2>1 DEF TypeOK
  <2>3. RunOK(to, report[r])
    BY <1>l, <1>r, <2>1 DEF RunOK, VerdictOK
  <2> QED
    BY <1>k, <1>u, <2>1, <2>2, <2>3
<1>16. CASE Ask(r)
  <2>1. PICK yes \in BOOLEAN :
          /\ report' = [report EXCEPT ![r].consent = yes]
          /\ pc' = [pc EXCEPT ![r] = IF yes THEN "execute" ELSE "refused"]
    BY <1>16 DEF Ask
  <2> DEFINE to  == IF yes THEN "execute" ELSE "refused"
             new == [report[r] EXCEPT !.consent = yes]
  <2>2. pc[r] = "guard" /\ report[r].verdict = Prompt /\ log' = log
    BY <1>16 DEF Ask
  <2>3. /\ new \in Reports /\ Grown(report[r], new) /\ SameFiles(report[r], new)
        /\ SameVersion(report[r], new) /\ new.specs = report[r].specs
        /\ new.topChecked = report[r].topChecked
        /\ new.verdict = report[r].verdict /\ new.allowlisted = report[r].allowlisted
        /\ new.approved = report[r].approved /\ new.consent = yes
        /\ new.findings = report[r].findings /\ new.advisories = report[r].advisories
    BY <1>r DEF Reports, Grown, SameCommand, SameFiles, SameVersion
  <2>4. report'[r] = new /\ \A q \in Runs \ {r} : report'[q] = report[q]
    BY <1>u, <2>1
  <2> HIDE DEF new
  <2>5. TypeOK'
    <3>1. report' \in [Runs -> Reports] /\ pc' \in [Runs -> Stages]
      BY <1>u, <1>m, <2>1, <2>3, <2>4
    <3> QED
      BY <1>u, <2>2, <3>1 DEF TypeOK
  <2>6. RunOK(to, new)
    <3>1. pc[r] \in FromApprovals /\ to \in FromApprovals
      BY <2>2 DEF FromApprovals
    <3>2. SignalsOf(new) = SignalsOf(report[r])
      BY <2>3 DEF SignalsOf, Grown, SameCommand, SameVersion
    <3>3. VerdictOK(to, new)
      <4>1. ~report[r].allowlisted /\ report[r].verdict = Evaluate(SignalsOf(report[r]))
        BY <1>r, <2>2, <3>1 DEF RunOK, VerdictOK, Prompt, Allow
      <4> QED
        BY <2>2, <2>3, <3>1, <3>2, <4>1 DEF VerdictOK
    <3>4. FilesOK(to, new)
      BY <1>r, <2>3, <3>1, LateAts, FilesStay DEF RunOK
    <3>5. AskedOK(to, new)
      BY <1>r, <2>3, <3>1, LateAts, AskedStays DEF RunOK, SameFiles
    <3> QED
      BY <2>3, <3>3, <3>4, <3>5 DEF RunOK
  <2> QED
    BY <1>k, <2>1, <2>2, <2>3, <2>4, <2>5, <2>6
<1> QED
  BY <1>2, <1>3, <1>4, <1>5, <1>6, <1>7, <1>8, <1>9, <1>10, <1>11, <1>12, <1>13, <1>14, <1>15,
     <1>16 DEF RunStep

(* What each stage leaves the next one holds in every run.                   *)
THEOREM InvHolds == Spec => []PreflightInv
BY InitInv, StepInv, PTL DEF Spec

(* Runs, reports and the log stay well formed.                               *)
THEOREM TypeCorrect == Spec => []TypeOK
<1>1. PreflightInv => TypeOK
  BY DEF PreflightInv
<1> QED
  BY <1>1, InvHolds, PTL
-----------------------------------------------------------------------------
(* What the properties are about: the runs that were executed.               *)
LEMMA ExecutedReport ==
  ASSUME PreflightInv, NEW r \in Runs, Executed(r)
  PROVE  /\ report[r] \in Reports /\ SignalsOf(report[r]) \in Signals
         /\ FilesOK("executed", report[r]) /\ AskedOK("executed", report[r])
         /\ report[r].verdict = Allow \/ (report[r].consent /\ report[r].verdict = Prompt)
         /\ \/ ~report[r].allowlisted /\ report[r].verdict = Evaluate(SignalsOf(report[r]))
            \/ /\ report[r].allowlisted /\ Evaluate(SignalsOf(report[r])) # Block
               /\ ArtifactsApproved(report[r].approved, report[r])
<1>1. RunOK("executed", report[r])
  BY DEF PreflightInv, Executed
<1> QED
  BY <1>1, SignalsTyped DEF RunOK, VerdictOK, FromApprovals

LEMMA SilentReport ==
  ASSUME PreflightInv, NEW r \in Runs, Silent(r)
  PROVE  /\ ~BlocksOn(SignalsOf(report[r])) /\ ~PromptsOn(SignalsOf(report[r]))
         /\ ~Loud(report[r])
<1>1. Evaluate(SignalsOf(report[r])) = Allow /\ SignalsOf(report[r]) \in Signals
  BY ExecutedReport DEF Silent
<1>2. ~BlocksOn(SignalsOf(report[r])) /\ ~PromptsOn(SignalsOf(report[r]))
  BY <1>1, EvaluateIsWorst
<1>3. /\ SignalsOf(report[r]).flags = report[r].flags
      /\ SignalsOf(report[r]).findings = report[r].findings
      /\ SignalsOf(report[r]).advisories = report[r].advisories
  BY DEF SignalsOf
<1> QED
  BY <1>2, <1>3
  DEF BlocksOn, PromptsOn, Loud, HasBlockingSeverity, HasBlockingAdvisory, SeverityVerdict,
      Block, Allow, Prompt

(* A blocking signal of any stage, in any order, is never executed.          *)
THEOREM BlockedNeverRuns == Spec => []BlockNeverExecuted
<1>1. PreflightInv => BlockNeverExecuted
  <2> SUFFICES ASSUME PreflightInv, NEW r \in Runs, Executed(r)
               PROVE  ~Blocking(report[r])
    BY DEF BlockNeverExecuted
  <2>1. Evaluate(SignalsOf(report[r])) # Block /\ SignalsOf(report[r]) \in Signals
    BY ExecutedReport DEF Allow, Prompt, Block
  <2>2. ~BlocksOn(SignalsOf(report[r]))
    BY <2>1, EvaluateIsWorst
  <2>3. /\ SignalsOf(report[r]).flags = report[r].flags
        /\ SignalsOf(report[r]).findings = report[r].findings
        /\ SignalsOf(report[r]).advisories = report[r].advisories
        /\ SignalsOf(report[r]).remoteShell = report[r].shell
    BY DEF SignalsOf
  <2> QED
    BY <2>2, <2>3
    DEF BlocksOn, Blocking, HasBlockingSeverity, HasBlockingAdvisory, SeverityVerdict,
        AdvisoryVerdict, Block, Allow, Prompt
<1> QED
  BY <1>1, InvHolds, PTL

(* Nothing is executed whose report and verdict the log does not hold.       *)
THEOREM ExecutedIsRecorded == Spec => []ExecutedWasRecorded
<1>1. PreflightInv => ExecutedWasRecorded
  BY DEF PreflightInv, LogOK, ExecutedWasRecorded, Executed
<1> QED
  BY <1>1, InvHolds, PTL

(* Whatever runs share the log, the first to meet a package asks.            *)
THEOREM SilentRunsWereSeen == Spec => []SilentRunWasSeen
<1>1. PreflightInv => SilentRunWasSeen
  <2> SUFFICES ASSUME PreflightInv, NEW r \in Runs, Silent(r), HasEcosystem(report[r]),
                      NEW p \in report[r].specs \cup report[r].identified
               PROVE  \E event \in log : event.run # r /\ p \in event.seen
    BY DEF SilentRunWasSeen
  <2>1. pc[r] \in FromDecide /\ LogOK(r)
    BY DEF PreflightInv, Silent, Executed, FromDecide, FromApprovals
  <2>2. ~Loud(report[r]) /\ p \in ReputationTargets(report[r])
    BY SilentReport DEF ReputationTargets
  <2> QED
    BY <2>1, <2>2 DEF LogOK
<1> QED
  BY <1>1, InvHolds, PTL

(* A decided npm command stays promoted or blocked.                          *)
PromotionInv == \A r \in Runs : PromotedOK(pc[r], report[r])

LEMMA PromotionStays ==
  ASSUME NEW a, NEW b, PromotedOK("approvals", a), Grown(a, b), SameFiles(a, b),
         SameVersion(a, b), NEW to
  PROVE  PromotedOK(to, b)
BY DEF PromotedOK, CanPromoteNPMStagedInstall, Grown, SameCommand, SameFiles, SameVersion,
       FromApprovals

LEMMA PromotionKept == PreflightInv /\ PromotionInv /\ [Next]_vars => PromotionInv'
<1> SUFFICES ASSUME PreflightInv, PromotionInv, [Next]_vars, NEW q \in Runs
             PROVE  PromotedOK(pc[q], report[q])'
  BY DEF PromotionInv
<1>1. PromotedOK(pc[q], report[q])' <=> PromotedOK(pc'[q], report'[q])
  BY DEF PromotedOK, CanPromoteNPMStagedInstall
<1>2. CASE pc'[q] = pc[q] /\ report'[q] = report[q]
  BY <1>1, <1>2 DEF PromotionInv
<1>3. ASSUME RunStep(q) PROVE PromotedOK(pc'[q], report'[q])
  <2>1. /\ pc \in [Runs -> Stages] /\ report \in [Runs -> Reports]
        /\ RunOK(pc[q], report[q]) /\ report[q] \in Reports
        /\ PromotedOK(pc[q], report[q])
    BY DEF PreflightInv, PromotionInv, TypeOK, RunOK
  <2>2. PromotedOK("approvals", report[q]) \/ pc[q] \notin FromApprovals
    BY <2>1 DEF PromotedOK, FromApprovals
  <2>3. CASE \/ Parse(q) \/ Resolve(q) \/ Follow(q) \/ CheckSpecs(q) \/ StageFiles(q)
             \/ CheckArtifacts(q) \/ CheckDependencies(q) \/ CheckLate(q)
             \/ CheckReputation(q)
    <3>1. pc'[q] \in {"resolve", "follow", "specs", "stage", "artifacts", "dependencies",
                      "late", "reputation", "decide"}
      BY <2>1, <2>3 DEF Parse, Resolve, Follow, CheckSpecs, StageFiles, CheckArtifacts,
                        CheckDependencies, CheckLate, CheckReputation, Stage
    <3> QED
      BY <3>1 DEF PromotedOK, FromApprovals
  <2>4. CASE Decide(q)
    <3>1. report'[q] \in Decided(report[q]) /\ pc[q] = "decide" /\ pc'[q] = "approvals"
      BY <2>1, <2>4 DEF Decide, Stage
    <3> QED
      BY <2>1, <3>1, DecidedOK
  <2>5. CASE ReadApprovals(q)
    <3>1. report'[q] \in Allowlisted(report[q]) /\ pc[q] = "approvals"
      BY <2>1, <2>5 DEF ReadApprovals, Stage
    <3> QED
      BY <2>1, <3>1, AllowlistedOK, PromotionStays
  <2>6. CASE AttachFixture(q)
    <3>1. report'[q] \in FixtureAttached(report[q]) /\ pc[q] = "fixture"
      BY <2>1, <2>6 DEF AttachFixture, Stage
    <3> QED
      BY <2>1, <2>2, <3>1, FixtureAttachedOK, PromotionStays DEF FromApprovals
  <2>7. CASE Record(q) \/ Refuse(q) \/ Ask(q) \/ Pass(q) \/ Execute(q)
    <3>1. pc[q] \in FromApprovals
      BY <2>7 DEF Record, Refuse, Ask, Pass, Execute, FromApprovals
    <3>2. /\ report'[q].form = report[q].form /\ report'[q].identified = report[q].identified
          /\ report'[q].found = report[q].found /\ report'[q].findings = report[q].findings
      <4>1. CASE Ask(q)
        <5>1. PICK yes \in BOOLEAN : report' = [report EXCEPT ![q].consent = yes]
          BY <4>1 DEF Ask
        <5>2. report'[q] = [report[q] EXCEPT !.consent = yes]
          BY <2>1, <5>1
        <5> QED
          BY <2>1, <5>2 DEF Reports
      <4>2. CASE ~Ask(q)
        BY <2>7, <4>2 DEF Record, Refuse, Pass, Execute
      <4> QED
        BY <4>1, <4>2
    <3> QED
      BY <2>2, <3>1, <3>2 DEF PromotedOK, CanPromoteNPMStagedInstall, FromApprovals
  <2> QED
    BY <1>3, <2>3, <2>4, <2>5, <2>6, <2>7 DEF RunStep
<1>4. ASSUME NEW r \in Runs, RunStep(r), r # q
      PROVE  pc'[q] = pc[q] /\ report'[q] = report[q]
  <2>1. pc \in [Runs -> Stages] /\ report \in [Runs -> Reports]
    BY DEF PreflightInv, TypeOK
  <2> QED
    BY <1>4, <2>1
    DEF RunStep, Parse, Resolve, Follow, CheckSpecs, StageFiles, CheckArtifacts,
        CheckDependencies, CheckLate, CheckReputation, Decide, ReadApprovals,
        AttachFixture, Stage, Record, Refuse, Ask, Pass, Execute
<1>5. CASE UNCHANGED vars
  BY <1>2, <1>5 DEF vars
<1> QED
  BY <1>1, <1>2, <1>3, <1>4, <1>5 DEF Next, Finished

LEMMA PromotionHolds == Spec => []PromotionInv
<1>1. Init => PromotionInv
  BY DEF Init, PromotionInv, PromotedOK, FromApprovals
<1> QED
  BY <1>1, PromotionKept, InvHolds, PTL DEF Spec

(* Approvals of every staged artifact are approvals of every package the     *)
(* executed command can install, once it was rewritten to them: for npm that *)
(* rests on the block of what cannot be promoted.                            *)
THEOREM ApprovalsCoverInstalls == Spec => []AllowlistCoversInstall
<1>1. PreflightInv /\ PromotionInv => AllowlistCoversInstall
  <2> SUFFICES ASSUME PreflightInv, PromotionInv,
                      NEW r \in Runs, Executed(r), report[r].allowlisted,
                      report[r].staged = report[r].artifacts, ~Unrewritten(report[r])
               PROVE  Installable(report[r]) \subseteq report[r].approved
    BY DEF AllowlistCoversInstall
  <2> DEFINE rep == report[r]
  <2>1. /\ ArtifactsApproved(rep.approved, rep) /\ FilesOK("executed", rep)
        /\ Evaluate(SignalsOf(rep)) # Block /\ rep \in Reports
    BY ExecutedReport
  <2>2. /\ rep.artifacts # {} /\ rep.staged = rep.artifacts
        /\ rep.identified = rep.artifacts /\ rep.artifacts \subseteq rep.approved
        /\ rep.form \in {"npm", "npmExec", "pip", "requirements", "download"}
    BY <2>1 DEF ArtifactsApproved, FilesOK
  <2>3. rep.form \in {"npm", "npmExec"} => CanPromoteNPMStagedInstall(rep)
    <3>1. "block" \notin rep.findings
      <4>1. ~BlocksOn(SignalsOf(rep))
        BY <2>1, SignalsTyped, EvaluateIsWorst
      <4> QED
        BY <4>1 DEF BlocksOn, SignalsOf
    <3> QED
      BY <2>2, <3>1 DEF PromotionInv, PromotedOK, FromApprovals, Executed
  <2>4. CASE rep.form = "requirements"
    BY <2>2, <2>4 DEF Installable
  <2>5. CASE rep.form = "pip"
    BY <2>2, <2>5 DEF Installable, Unrewritten
  <2>6. CASE rep.form \in {"npm", "npmExec"}
    BY <2>2, <2>3, <2>6 DEF Installable
  <2>7. CASE rep.form = "download"
    BY <2>2, <2>7 DEF Installable
  <2> QED
    BY <2>2, <2>4, <2>5, <2>6, <2>7
<1> QED
  BY <1>1, InvHolds, PromotionHolds, PTL

(* A run nobody was asked about left no signal and skipped no stage, unless  *)
(* the clock is behind the registry's: a version of negative age is inside   *)
(* no maturity window.                                                       *)
THEOREM SilentRunsAreAudited ==
  ASSUME Ages \subseteq Nat
  PROVE  Spec => []SilentRunIsAudited
<1>1. PreflightInv => SilentRunIsAudited
  <2> SUFFICES ASSUME PreflightInv, NEW r \in Runs, Silent(r)
               PROVE  /\ report[r].flags \cup report[r].findings \subseteq {"info"}
                      /\ report[r].advisories = {} /\ ~report[r].shell
                      /\ report[r].found => report[r].age >= MaturityDays
                      /\ report[r].staged = report[r].artifacts
                      /\ report[r].identified \subseteq report[r].asked
                      /\ report[r].found => Top \in report[r].asked
                      /\ ProjectInstall(report[r]) => report[r].specs \subseteq report[r].asked
    BY DEF SilentRunIsAudited
  <2>1. /\ ~BlocksOn(SignalsOf(report[r])) /\ ~PromptsOn(SignalsOf(report[r]))
        /\ ~Loud(report[r])
    BY SilentReport
  <2>2. /\ report[r] \in Reports
        /\ FilesOK("executed", report[r]) /\ AskedOK("executed", report[r])
    BY ExecutedReport DEF Silent
  <2>3. /\ SignalsOf(report[r]).flags = report[r].flags
        /\ SignalsOf(report[r]).findings = report[r].findings
        /\ SignalsOf(report[r]).advisories = report[r].advisories
        /\ SignalsOf(report[r]).remoteShell = report[r].shell
        /\ SignalsOf(report[r]).found = report[r].found
        /\ SignalsOf(report[r]).ageDays = report[r].age
    BY DEF SignalsOf
  <2>4. report[r].flags \cup report[r].findings \subseteq {"info"}
    <3>1. report[r].flags \subseteq Severities /\ report[r].findings \subseteq Severities
      BY <2>2 DEF Reports
    <3> QED
      BY <2>1, <2>3, <3>1 DEF BlocksOn, PromptsOn, Severities
  <2>5. report[r].advisories = {} /\ ~report[r].shell
    BY <2>1, <2>3 DEF BlocksOn, PromptsOn
  <2>6. report[r].found => report[r].age >= MaturityDays
    <3>1. report[r].age \in Nat
      BY <2>2 DEF Reports
    <3> QED
      BY <2>1, <2>3, <3>1 DEF PromptsOn, MaturityDays
  <2>7. "executed" \in FromSpecs /\ "executed" \in FromStage /\ "executed" \in FromDependencies
    BY LateAts DEF FromApprovals
  <2>8. report[r].staged = report[r].artifacts
    BY <2>1, <2>2 DEF FilesOK
  <2> QED
    BY <2>1, <2>2, <2>4, <2>5, <2>6, <2>7, <2>8 DEF AskedOK
<1> QED
  BY <1>1, InvHolds, PTL

(* The fixture's second evaluation, the question and the steps after them    *)
(* never soften a verdict that no approval had overridden.                   *)
THEOREM OnlyApprovalsRelaxVerdicts == Spec => OnlyApprovalsRelax
<1>1. ASSUME PreflightInv, [Next]_vars
      PROVE  [\A r \in Runs :
                /\ report[r].verdict # "none"
                /\ ~(report[r].allowlisted \/ report'[r].allowlisted)
                => Rank(report'[r].verdict) >= Rank(report[r].verdict)]_vars
  <2> SUFFICES ASSUME NEW q \in Runs, report[q].verdict # "none",
                      ~(report[q].allowlisted \/ report'[q].allowlisted)
               PROVE  Rank(report'[q].verdict) >= Rank(report[q].verdict)
    OBVIOUS
  <2>1. \A v, w : v = w => Rank(v) >= Rank(w)
    BY DEF Rank
  <2>2. CASE UNCHANGED vars
    BY <2>1, <2>2 DEF vars
  <2>3. ASSUME NEW r \in Runs, RunStep(r)
        PROVE  Rank(report'[q].verdict) >= Rank(report[q].verdict)
    <3>1. report \in [Runs -> Reports] /\ RunOK(pc[r], report[r]) /\ RunOK(pc[q], report[q])
      BY <1>1 DEF PreflightInv, TypeOK
    <3>2. pc[q] \in FromApprovals
      BY <3>1 DEF RunOK, VerdictOK
    <3>3. CASE q # r
      <4>1. report'[q] = report[q]
        BY <2>3, <3>1, <3>3
        DEF RunStep, Parse, Resolve, Follow, CheckSpecs, StageFiles, CheckArtifacts,
            CheckDependencies, CheckLate, CheckReputation, Decide, ReadApprovals,
            AttachFixture, Stage, Record, Refuse, Ask, Pass, Execute
      <4> QED
        BY <2>1, <4>1
    <3>4. CASE q = r
      <4>1. CASE ReadApprovals(r)
        <5>1. report'[r] \in Allowlisted(report[r]) /\ pc[r] = "approvals"
          BY <3>1, <4>1 DEF ReadApprovals, Stage
        <5> QED
          BY <2>1, <3>1, <3>4, <5>1, AllowlistedOK
      <4>2. CASE AttachFixture(r)
        <5>1. report'[r] \in FixtureAttached(report[r]) /\ pc[r] = "fixture"
          BY <3>1, <4>2 DEF AttachFixture, Stage
        <5> QED
          BY <3>1, <3>4, <5>1, FixtureAttachedOK
      <4>3. CASE Record(r) \/ Refuse(r) \/ Ask(r) \/ Pass(r) \/ Execute(r)
        <5>1. report'[r].verdict = report[r].verdict
          <6>1. CASE Ask(r)
            <7>1. PICK yes \in BOOLEAN : report' = [report EXCEPT ![r].consent = yes]
              BY <6>1 DEF Ask
            <7>2. report'[r] = [report[r] EXCEPT !.consent = yes]
              BY <3>1, <7>1
            <7> QED
              BY <3>1, <7>2 DEF Reports
          <6>2. CASE ~Ask(r)
            BY <4>3, <6>2 DEF Record, Refuse, Pass, Execute
          <6> QED
            BY <6>1, <6>2
        <5> QED
          BY <2>1, <3>4, <5>1
      <4> QED
        BY <2>3, <3>2, <3>4, <4>1, <4>2, <4>3
        DEF RunStep, Parse, Resolve, Follow, CheckSpecs, StageFiles, CheckArtifacts,
            CheckDependencies, CheckLate, CheckReputation, Decide, Stage, FromApprovals
    <3> QED
      BY <3>3, <3>4
  <2> QED
    BY <1>1, <2>2, <2>3 DEF Next, Finished
<1> QED
  BY <1>1, InvHolds, PTL DEF Spec, OnlyApprovalsRelax
=============================================================================
