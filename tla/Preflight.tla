------------------------------ MODULE Preflight ------------------------------
(* The audit pipeline of preflight.go and the guard of cli.go: several runs  *)
(* of local-sec, each classifying one command, auditing what it would        *)
(* install, deciding, recording its report in the shared event log and, for  *)
(* `guard`, executing the command or refusing to.                            *)
(*                                                                           *)
(* A run's local variables and its RunReport are one record.  A stage of the *)
(* pipeline maps it to the set of reports it may become, so that a stage     *)
(* whose guard fails leaves it as it is.  What a stage learns from outside   *)
(* (registries, advisory sources, archives) is chosen when the stage runs.   *)
(*                                                                           *)
(* A package stands for one exact ecosystem, name and version, and for the   *)
(* artifact of that version.  The sets of findings, advisories and flags are *)
(* sets of kinds (see Policy).                                               *)
EXTENDS FiniteSets, Policy

CONSTANTS
  Runs,
  Earlier,           \* a run that ended before these started
  Packages,          \* packages a run may name, stage or find approved
  Top,               \* the one a command names: analysis.PackageSpecs[0]
  Forms,             \* the forms of command considered, among AllForms
  FindingChoices,    \* what one stage may add to the findings
  AdvisoryChoices,   \* what one stage may add to the advisories
  Ages               \* version.AgeDays considered

(* npm install P; npm exec/init P; pip install P; npx, uvx, pipx run and     *)
(* uv tool run P; uv add, uv pip install and pipx install P; pip install -r  *)
(* (P may stand next to it); npm install of a project; curl and wget; any    *)
(* other command.                                                            *)
AllForms == {"npm", "npmExec", "pip", "oneShot", "unsupported", "requirements",
             "lockfile", "download", "other"}

ASSUME ConstantsAssumption ==
  /\ Earlier \notin Runs
  /\ Top \in Packages
  /\ Forms \subseteq AllForms
  /\ {} \in FindingChoices /\ FindingChoices \subseteq SUBSET Severities
  /\ {"prompt"} \in FindingChoices /\ {"block"} \in FindingChoices
  /\ {} \in AdvisoryChoices /\ AdvisoryChoices \subseteq SUBSET AdvisoryKinds
  /\ Ages \subseteq Int /\ Ages # {}

VARIABLES
  pc,      \* the stage each run is about to make
  report,  \* each run's local variables and RunReport
  log      \* the reports in events.jsonl: who wrote it, verdict, packages seen

vars == << pc, report, log >>

Stages == {"parse", "resolve", "follow", "specs", "stage", "artifacts",
           "dependencies", "late", "reputation", "decide", "approvals",
           "fixture", "record", "guard", "execute",
           "executed", "refused", "reported", "failed"}

Reports ==
  [ form : Forms, guard : BOOLEAN, fixture : BOOLEAN,
    shell : BOOLEAN, flags : SUBSET Severities,      \* CommandAnalysis
    specs : SUBSET Packages,                         \* analysis.PackageSpecs
    found : BOOLEAN, age : Ages,                     \* VersionInfo
    findings : SUBSET Severities, advisories : SUBSET AdvisoryKinds,
    deferred : BOOLEAN,                \* a dynamic_stage_deferred finding
    staged : SUBSET Packages,          \* files in the staging directory
    artifacts : SUBSET Packages,       \* those in report.Artifacts
    identified : SUBSET Packages,      \* those with an ecosystem, name, version
    topChecked : BOOLEAN, specsChecked : BOOLEAN,
    asked : SUBSET Packages,           \* whose advisories were asked for
    verdict : Verdicts \cup {"none"},
    allowlisted : BOOLEAN,             \* the verdict comes from the approvals
    approved : SUBSET Packages,        \* the approvals it was compared with
    consent : BOOLEAN ]                \* the user typed yes

OneShot(rep) == rep.form \in {"npmExec", "oneShot"}
ProjectInstall(rep) == rep.form \in {"requirements", "lockfile"}
HasEcosystem(rep) == rep.form \notin {"download", "other"}

NoBlockingRisk(rep) == ~HasBlockingSeverity(rep.flags)
NoBlockingRiskOrFinding(rep) ==
  NoBlockingRisk(rep) /\ ~HasBlockingSeverity(rep.findings)
NoBlockingRiskFindingOrAdvisory(rep) ==
  NoBlockingRiskOrFinding(rep) /\ ~HasBlockingAdvisory(rep.advisories)

SignalsOf(rep) ==
  [ remoteShell |-> rep.shell, flags |-> rep.flags,
    bareDownloader |-> rep.form = "download" /\ rep.specs = {},
    found |-> rep.found, ageDays |-> rep.age,
    findings |-> rep.findings, advisories |-> rep.advisories ]

(* Classify: what the flags of an analysis say of its form.                  *)
Classified(rep) ==
  /\ rep.form \in {"npm", "pip", "unsupported"} => rep.specs = {Top}
  /\ rep.form \in {"lockfile", "other"} => rep.specs = {}
  /\ OneShot(rep) => "prompt" \in rep.flags
  /\ OneShot(rep) /\ rep.specs = {} => "block" \in rep.flags
  /\ rep.shell => rep.form = "download" /\ "block" \in rep.flags
  /\ rep.form = "download" /\ ~rep.shell => "prompt" \in rep.flags

(* The log holds what earlier runs recorded, if any did.                     *)
Init ==
  /\ pc = [r \in Runs |-> "parse"]
  /\ log \in {{}} \cup { { [run |-> Earlier, verdict |-> Prompt, seen |-> seen] } :
                            seen \in SUBSET Packages }
  /\ \E age0 \in Ages :
       report \in [Runs -> { rep \in
         [ form : Forms, guard : BOOLEAN, fixture : BOOLEAN,
           shell : BOOLEAN, flags : SUBSET {"prompt", "block"}, specs : {{}, {Top}},
           found : {FALSE}, age : {age0}, findings : {{}}, advisories : {{}},
           deferred : {FALSE}, staged : {{}}, artifacts : {{}}, identified : {{}},
           topChecked : {FALSE}, specsChecked : {FALSE}, asked : {{}},
           verdict : {"none"}, allowlisted : {FALSE}, approved : {{}},
           consent : {FALSE} ] : Classified(rep) }]
-----------------------------------------------------------------------------
(* What a stage may add to a report.                                         *)
With(rep, f, a) == [rep EXCEPT !.findings = @ \cup f, !.advisories = @ \cup a]
Signalled(rep) == { With(rep, f, a) : f \in FindingChoices, a \in AdvisoryChoices }

(* Maturity and advisory checks of `packages`, one after another: nothing is *)
(* learnt when there is none to ask about.                                   *)
Answered(rep, packages) ==
  IF packages = {} THEN {rep}
  ELSE { [answered EXCEPT !.asked = @ \cup packages] : answered \in Signalled(rep) }

(* Every entry the parsers cannot pin to a name, a version and a hash of the *)
(* public registry is left out of the specs and blocks.                      *)
ParseRequirementsFiles == [specs : SUBSET Packages, findings : {{}, {"block"}}]
ParseNPMLockfile       == [specs : SUBSET Packages, findings : {{}, {"block"}}]

(* A command installing from a requirements file or a lockfile gets its      *)
(* package specs from there; they replace those of the command line.         *)
Parsed(rep) ==
  IF NoBlockingRisk(rep) /\ ProjectInstall(rep)
  THEN { [rep EXCEPT !.specs = parsed.specs, !.findings = @ \cup parsed.findings] :
           parsed \in IF rep.form = "lockfile" THEN ParseNPMLockfile
                                              ELSE ParseRequirementsFiles }
  ELSE {rep}

(* ResolveVersion finds nothing without a named registry package, or when    *)
(* the registry does not answer.                                             *)
Resolved(rep) ==
  IF NoBlockingRiskOrFinding(rep) /\ ~ProjectInstall(rep) /\ HasEcosystem(rep) /\ rep.specs # {}
  THEN {rep} \cup { [rep EXCEPT !.found = TRUE, !.age = age] : age \in Ages }
  ELSE {rep}

(* FollowAdvisoryCleanCandidate, whose choice of a version the module        *)
(* Resolver details: it may change the version's age.                        *)
OfAge(answered, age) == [answered EXCEPT !.age = age, !.topChecked = TRUE]
Followed(rep) ==
  IF NoBlockingRiskOrFinding(rep) /\ ~ProjectInstall(rep) /\ rep.specs # {} /\ rep.found
  THEN { OfAge(answered, age) : age \in Ages, answered \in Answered(rep, {Top}) }
  ELSE {rep}

SpecsChecked(rep) ==
  IF NoBlockingRiskFindingOrAdvisory(rep) /\ ProjectInstall(rep)
  THEN { [answered EXCEPT !.specsChecked = TRUE] : answered \in Answered(rep, rep.specs) }
  ELSE {rep}

(* collectArtifacts: a file it cannot hash, extract or scan is left out of   *)
(* the artifacts with a finding; one without metadata is kept, unidentified. *)
Holding(rep, files, kept, known, f) ==
  [rep EXCEPT !.staged = files, !.artifacts = kept, !.identified = known,
              !.findings = @ \cup f]
Collected(rep, files) ==
  UNION { { Holding(rep, files, kept, known, f) :
              known \in SUBSET kept,
              f \in { g \in FindingChoices : kept = files \/ g \cap {"prompt", "block"} # {} } } :
            kept \in SUBSET files }

(* Wrong variant: a severity no rule of the policy knows.                    *)
StagingFails_Warns(rep) ==
  { [rep EXCEPT !.findings = @ \cup f] : f \in {{"warning"}, {"block"}} }

(* A tool is missing, the download fails, or the manager's form is refused.  *)
StagingFails(rep) ==
  { [rep EXCEPT !.findings = @ \cup f] : f \in {{"prompt"}, {"block"}} }

Deferred(rep) ==
  { [rep EXCEPT !.findings = @ \cup {"prompt"}, !.deferred = TRUE] }

Unsupported(rep) == { [rep EXCEPT !.findings = @ \cup {"block"}] }

(* npm resolves a lockfile, downloads and verifies its tarballs and seeds an *)
(* offline cache from them; the tarball of the named package is one of them. *)
StageNPM(rep) ==
  StagingFails(rep) \cup
  UNION { Collected(rep, files) : files \in { s \in SUBSET Packages : Top \in s } }

(* pip download --only-binary: the wheels of the named package and of what   *)
(* it needs, or those of a requirements file.                                *)
StagePip(rep) ==
  StagingFails(rep) \cup
  UNION { Collected(rep, files) :
            files \in { s \in SUBSET Packages : rep.form = "pip" => Top \in s } }

(* The download of the one URL; a URL it does not recognise is passed over.  *)
StageDownload(rep) ==
  StagingFails(rep) \cup UNION { Collected(rep, files) : files \in SUBSET rep.specs }

StagingDirFails(rep) == { [rep EXCEPT !.findings = @ \cup {"prompt"}] }

StageArtifacts(rep) ==
  StagingDirFails(rep) \cup
  IF rep.form \in {"npm", "npmExec"} THEN StageNPM(rep)
  ELSE IF rep.form \in {"pip", "requirements"} THEN StagePip(rep)
  ELSE IF rep.form = "download" THEN StageDownload(rep)
  ELSE IF rep.form = "oneShot" THEN Deferred(rep)
  ELSE IF rep.form = "unsupported" THEN Unsupported(rep)
  ELSE {rep} \cup Deferred(rep)

Staged(rep) ==
  IF NoBlockingRiskFindingOrAdvisory(rep) /\ rep.form # "lockfile"
  THEN StageArtifacts(rep) ELSE {rep}

(* Wrong variant: the dependencies' own artifacts are skipped as well.       *)
ArtifactsChecked_OnlyTop(rep) ==
  IF NoBlockingRiskOrFinding(rep) /\ rep.artifacts # {}
  THEN Answered(rep, (rep.identified \cap {Top}) \ (IF rep.topChecked THEN {Top} ELSE {}))
  ELSE {rep}

(* CheckArtifactMaturity and RefreshArtifactAdvisories: every identified     *)
(* artifact but the one FollowAdvisoryCleanCandidate answered for.           *)
ArtifactsChecked(rep) ==
  IF NoBlockingRiskOrFinding(rep) /\ rep.artifacts # {}
  THEN Answered(rep, rep.identified \ (IF rep.topChecked THEN {Top} ELSE {}))
  ELSE {rep}

(* RefreshDependencyAdvisories on what the artifacts' metadata pins.         *)
DependenciesChecked(rep) ==
  IF NoBlockingRisk(rep) /\ ~ProjectInstall(rep) /\ rep.artifacts # {}
  THEN Signalled(rep) ELSE {rep}

(* The two fallbacks of the late stage: specs or a selected version nobody   *)
(* has asked about yet.                                                      *)
SpecsFallback(rep) ==
  NoBlockingRiskOrFinding(rep) /\ ProjectInstall(rep) /\ ~rep.specsChecked
TopFallback(rep) ==
  /\ ~(NoBlockingRiskOrFinding(rep) /\ ProjectInstall(rep))
  /\ ~rep.topChecked /\ NoBlockingRiskOrFinding(rep) /\ rep.specs # {} /\ rep.found

LateChecked(rep) ==
  IF NoBlockingRiskOrFinding(rep) /\ ProjectInstall(rep)
  THEN UNION { IF rep.artifacts # {} THEN Signalled(new) ELSE {new} :
                 new \in IF SpecsFallback(rep) THEN Answered(rep, rep.specs) ELSE {rep} }
  ELSE IF TopFallback(rep)
  THEN UNION { Signalled(new) : new \in Answered(rep, {Top}) }
  ELSE {rep}

(* Wrong variant: only the named package is looked up.                       *)
ReputationTargets_OnlyTop(rep) ==
  (IF HasEcosystem(rep) THEN rep.specs ELSE {}) \cap {Top}

ReputationTargets(rep) ==
  (IF HasEcosystem(rep) THEN rep.specs ELSE {}) \cup rep.identified

Seen(package) == \E event \in log : package \in event.seen

(* CheckLocalReputation: a package no recorded report names prompts; a seen  *)
(* one may prompt for its version, hash or maintainers (see LocalHistory).   *)
Reputed(rep) ==
  IF NoBlockingRiskFindingOrAdvisory(rep) /\ ReputationTargets(rep) # {}
  THEN { [rep EXCEPT !.findings = @ \cup f] :
           f \in IF \A p \in ReputationTargets(rep) : Seen(p) THEN {{}, {"prompt"}}
                 ELSE {{"prompt"}} }
  ELSE {rep}

CanPromoteNPMStagedInstall(rep) == rep.found /\ Top \in rep.identified

Judged(rep) == [rep EXCEPT !.verdict = Evaluate(SignalsOf(rep))]

(* CheckNPMStagedExecutionSupport, then Policy.Evaluate.                     *)
Decided(rep) ==
  LET checked == IF /\ rep.form \in {"npm", "npmExec"} /\ rep.identified # {}
                    /\ ~CanPromoteNPMStagedInstall(rep)
                 THEN [rep EXCEPT !.findings = @ \cup {"block"}] ELSE rep
  IN  { Judged(checked) }

(* Wrong variants: one approved artifact is enough; a block is overridden.   *)
ArtifactsApproved_Any(approvals, rep) ==
  rep.artifacts \cap rep.identified \cap approvals # {}

(* Every artifact is identified and its exact record is in the file.         *)
ArtifactsApproved(approvals, rep) ==
  rep.artifacts # {} /\ rep.artifacts \subseteq rep.identified \cap approvals

Allowlisted_EvenBlocked(rep) ==
  {rep} \cup
  { [rep EXCEPT !.verdict = Allow, !.allowlisted = TRUE, !.approved = approvals] :
      approvals \in { s \in SUBSET Packages : ArtifactsApproved(s, rep) } }

(* The approvals file, whatever it holds when it is read (see ApprovalStore).*)
Allowlisted(rep) ==
  {rep} \cup
  { [rep EXCEPT !.verdict = Allow, !.allowlisted = TRUE, !.approved = approvals] :
      approvals \in { s \in SUBSET Packages :
                        rep.verdict # Block /\ ArtifactsApproved(s, rep) } }

(* Wrong variant: the report is judged again on its findings alone.          *)
FixtureAttached_FindingsOnly(rep) ==
  IF rep.fixture /\ rep.verdict # Block /\ (OneShot(rep) \/ rep.deferred)
  THEN { [rep EXCEPT !.findings = @ \cup f, !.allowlisted = FALSE,
            !.verdict = Evaluate([SignalsOf(rep) EXCEPT !.findings = @ \cup f,
                                                        !.advisories = {}, !.flags = {}])] :
           f \in FindingChoices }
  ELSE {rep}

(* The optional docker fixture: whether it fails or reports findings, the    *)
(* report is judged again, which forgets that it was allowlisted.            *)
FixtureAttached(rep) ==
  IF rep.fixture /\ rep.verdict # Block /\ (OneShot(rep) \/ rep.deferred)
  THEN { Judged([rep EXCEPT !.findings = @ \cup f, !.allowlisted = FALSE]) :
           f \in FindingChoices }
  ELSE {rep}
-----------------------------------------------------------------------------
Stage(r, from, to, outcomes) ==
  /\ pc[r] = from
  /\ pc' = [pc EXCEPT ![r] = to]
  /\ \E new \in outcomes : report' = [report EXCEPT ![r] = new]
  /\ UNCHANGED log

Parse(r)        == Stage(r, "parse", "resolve", Parsed(report[r]))
Resolve(r)      == Stage(r, "resolve", "follow", Resolved(report[r]))
Follow(r)       == Stage(r, "follow", "specs", Followed(report[r]))
CheckSpecs(r)   == Stage(r, "specs", "stage", SpecsChecked(report[r]))
StageFiles(r)   == Stage(r, "stage", "artifacts", Staged(report[r]))
CheckArtifacts(r)    == Stage(r, "artifacts", "dependencies", ArtifactsChecked(report[r]))
CheckDependencies(r) == Stage(r, "dependencies", "late", DependenciesChecked(report[r]))
CheckLate(r)    == Stage(r, "late", "reputation", LateChecked(report[r]))
CheckReputation(r) == Stage(r, "reputation", "decide", Reputed(report[r]))
Decide(r)       == Stage(r, "decide", "approvals", Decided(report[r]))
ReadApprovals(r) == Stage(r, "approvals", "fixture", Allowlisted(report[r]))
AttachFixture(r) == Stage(r, "fixture", "record", FixtureAttached(report[r]))

Event(r) == [ run |-> r, verdict |-> report[r].verdict,
              seen |-> report[r].specs \cup report[r].identified ]

(* Wrong variant: the guard goes on when its report could not be appended.   *)
Record_IgnoresFailure(r) ==
  /\ pc[r] = "record"
  /\ log' \in {log, log \cup {Event(r)}}
  /\ pc' = [pc EXCEPT ![r] = IF report[r].guard THEN "guard" ELSE "reported"]
  /\ UNCHANGED report

(* AppendEvent; a run whose report cannot be appended stops.                 *)
Record(r) ==
  /\ pc[r] = "record"
  /\ \/ /\ log' = log \cup {Event(r)}
        /\ pc' = [pc EXCEPT ![r] = IF report[r].guard THEN "guard" ELSE "reported"]
     \/ /\ pc' = [pc EXCEPT ![r] = "failed"]
        /\ UNCHANGED log
  /\ UNCHANGED report

(* runGuard refuses a blocked command, and a download whose output is not a  *)
(* terminal.                                                                 *)
Refuse(r) ==
  /\ pc[r] = "guard"
  /\ report[r].verdict = Block \/ report[r].form = "download"
  /\ pc' = [pc EXCEPT ![r] = "refused"]
  /\ UNCHANGED << report, log >>

Ask(r) ==
  /\ pc[r] = "guard" /\ report[r].verdict = Prompt
  /\ \E yes \in BOOLEAN :
       /\ report' = [report EXCEPT ![r].consent = yes]
       /\ pc' = [pc EXCEPT ![r] = IF yes THEN "execute" ELSE "refused"]
  /\ UNCHANGED log

Pass(r) ==
  /\ pc[r] = "guard" /\ report[r].verdict = Allow
  /\ pc' = [pc EXCEPT ![r] = "execute"]
  /\ UNCHANGED << report, log >>

(* The staged download is streamed, or the rewritten command is executed; a  *)
(* download needs exactly one artifact, a command its real executable.       *)
Execute(r) ==
  /\ pc[r] = "execute"
  /\ \/ /\ report[r].form = "download" => Cardinality(report[r].artifacts) = 1
        /\ pc' = [pc EXCEPT ![r] = "executed"]
     \/ pc' = [pc EXCEPT ![r] = "failed"]
  /\ UNCHANGED << report, log >>

Finished ==
  /\ \A r \in Runs : pc[r] \in {"executed", "refused", "reported", "failed"}
  /\ UNCHANGED vars

RunStep(r) ==
  \/ Parse(r) \/ Resolve(r) \/ Follow(r) \/ CheckSpecs(r) \/ StageFiles(r)
  \/ CheckArtifacts(r) \/ CheckDependencies(r) \/ CheckLate(r)
  \/ CheckReputation(r) \/ Decide(r) \/ ReadApprovals(r) \/ AttachFixture(r)
  \/ Record(r) \/ Refuse(r) \/ Ask(r) \/ Pass(r) \/ Execute(r)

Next == (\E r \in Runs : RunStep(r)) \/ Finished

Spec == Init /\ [][Next]_vars
-----------------------------------------------------------------------------
TypeOK ==
  /\ pc \in [Runs -> Stages]
  /\ report \in [Runs -> Reports]
  /\ log \subseteq [run : Runs \cup {Earlier}, verdict : Verdicts, seen : SUBSET Packages]

Blocking(rep) ==
  \/ rep.shell \/ HasBlockingSeverity(rep.flags)
  \/ HasBlockingSeverity(rep.findings) \/ HasBlockingAdvisory(rep.advisories)

Executed(r) == pc[r] = "executed"
(* Executed with nobody asked and no approval on file.                       *)
Silent(r) == Executed(r) /\ ~report[r].consent /\ ~report[r].allowlisted

(* The rewrite of cli.go:168 leaves a pip command as it is when no version   *)
(* was found, although its wheels were staged.                               *)
Unrewritten(rep) == rep.form = "pip" /\ ~rep.found

(* What the executed command can install: a requirements file or several     *)
(* wheels are resolved against the whole staging directory, npm against the  *)
(* tarballs in its seeded cache, a lockfile names what it installs; one      *)
(* staged file is handed over itself, with what it depends on when npm gets  *)
(* it without the cache.  Any other command fetches what it likes.           *)
Installable(rep) ==
  CASE rep.form = "requirements" /\ rep.artifacts # {} -> rep.staged
    [] rep.form = "pip" /\ rep.found ->
         IF Cardinality(rep.artifacts) > 1 THEN rep.staged ELSE rep.artifacts
    [] rep.form \in {"npm", "npmExec"} /\ CanPromoteNPMStagedInstall(rep)
       /\ (rep.form = "npm" /\ Cardinality(rep.identified) = 1 => rep.staged = rep.identified) ->
         rep.identified
    [] rep.form = "download" -> rep.artifacts
    [] rep.form = "lockfile" -> rep.specs
    [] OTHER -> Packages

(* A command that runs without a question and without approvals left no      *)
(* signal at any stage, and every package it resolved, pins or staged was    *)
(* asked about: no stage may be skipped on the way to a silent run.  (One    *)
(* named next to a requirements file is none of these: see Parsed.)          *)
SilentRunIsAudited ==
  \A r \in Runs : Silent(r) =>
    LET rep == report[r] IN
    /\ rep.flags \cup rep.findings \subseteq {"info"}
    /\ rep.advisories = {} /\ ~rep.shell
    /\ rep.found => rep.age >= MaturityDays
    /\ rep.staged = rep.artifacts
    /\ rep.identified \subseteq rep.asked
    /\ rep.found => Top \in rep.asked
    /\ ProjectInstall(rep) => rep.specs \subseteq rep.asked

(* A blocking signal from any stage is final: neither a yes, nor approvals,  *)
(* nor a second evaluation executes the command.                             *)
BlockNeverExecuted == \A r \in Runs : Executed(r) => ~Blocking(report[r])

(* What was executed is in the log, with the verdict it was executed under.  *)
ExecutedWasRecorded ==
  \A r \in Runs : Executed(r) =>
    \E event \in log : event.run = r /\ event.verdict = report[r].verdict

(* A package runs silently only after another run recorded it: the first run *)
(* of a package always asks.                                                 *)
SilentRunWasSeen ==
  \A r \in Runs : Silent(r) /\ HasEcosystem(report[r]) =>
    \A p \in report[r].specs \cup report[r].identified :
      \E event \in log : event.run # r /\ p \in event.seen

(* When every staged file became an artifact and the command was rewritten   *)
(* to them, approvals let it run only if they hold every package it can      *)
(* install.  (A pip command that is Unrewritten may install anything.)       *)
AllowlistCoversInstall ==
  \A r \in Runs :
    /\ Executed(r) /\ report[r].allowlisted
    /\ report[r].staged = report[r].artifacts /\ ~Unrewritten(report[r])
    => Installable(report[r]) \subseteq report[r].approved

(* A verdict, once reached, is relaxed by the approvals alone, and only from *)
(* prompt to allow.                                                          *)
OnlyApprovalsRelax ==
  [][\A r \in Runs :
       /\ report[r].verdict # "none"
       /\ ~(report[r].allowlisted \/ report'[r].allowlisted)
       => Rank(report'[r].verdict) >= Rank(report[r].verdict)]_vars

(* What the documentation says of staged installs: approvals turn a prompt   *)
(* into an allow only if every staged artifact has one.                      *)
EveryStagedFileApproved ==
  \A r \in Runs : Executed(r) /\ report[r].allowlisted =>
    Installable(report[r]) \subseteq report[r].approved
=============================================================================
