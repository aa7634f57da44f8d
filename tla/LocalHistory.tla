---------------------------- MODULE LocalHistory ----------------------------
(* What local-sec remembers of the packages it met, and what it makes of it: *)
(* CheckLocalReputation (local_reputation.go) over the histories that        *)
(* LoadLocalPackageHistory (local_history.go) reads from the event log, in   *)
(* several runs that share the log.                                          *)
(*                                                                           *)
(* A package stands for one ecosystem and name.  Packages are numbers, in    *)
(* the order in which a run looks them up.  A maintainer stands for all      *)
(* spellings that normalizeMaintainer maps to one.  The URL of a download    *)
(* names no package: such a run has no specs here.                           *)
EXTENDS FiniteSetsExt, Integers, Sequences

CONSTANTS
  Runs,
  Earlier,          \* runs that were recorded before the others started
  Packages, Versions, Hashes, Maintainers,
  Unnamed,          \* the name of an artifact without metadata
  Unversioned,      \* a version that is not known
  Redacted,         \* what the log keeps of a maintainer (evidence.go)
  ReportChoices,    \* the reports considered, among Reports
  EarlierChoices    \* those of the earlier runs

(* What a run knows of its packages when it looks them up.  `signal` is the  *)
(* worst finding or advisory of the other stages.                            *)
Specs     == [name : Packages, version : Versions \cup {Unversioned}]
Artifacts == [name : Packages \cup {Unnamed}, version : Versions \cup {Unversioned},
              hash : Hashes]
Signals   == {"none", "prompt", "block"}

(* Maintainers are those of the first package named.  Most commands that     *)
(* name more are blocked, but not `python -m pip download A B`.              *)
Reports ==
  [ specs : Seq(Specs), selected : Versions \cup {Unversioned},
    maintainers : SUBSET Maintainers, artifacts : SUBSET Artifacts,
    signal : Signals ]

ASSUME ConstantsAssumption ==
  /\ Earlier \subseteq Runs
  /\ Packages \subseteq Nat /\ IsFiniteSet(Packages)
  /\ Unnamed \notin Packages /\ Unversioned \notin Versions
  /\ "owners" \notin Versions
  /\ Redacted \in [Maintainers -> Maintainers]
  /\ \A owner \in Maintainers : Redacted[Redacted[owner]] = Redacted[owner]
  /\ ReportChoices \subseteq Reports /\ EarlierChoices \subseteq ReportChoices

VARIABLES
  phase,     \* where each run is
  report,    \* its RunReport
  pending,   \* the packages it has still to look up
  looked,    \* what the log held when it looked up each package
  findings,  \* the codes of its findings, "other" for those of other stages
  log        \* the runs whose report is in the log

vars == << phase, report, pending, looked, findings, log >>

Codes == {"other", "package_history_unavailable", "first_seen_package",
          "first_seen_package_version", "artifact_hash_drift",
          "first_seen_maintainer", "ownership_drift"}

NoReport == [ specs |-> << >>, selected |-> Unversioned, maintainers |-> {},
              artifacts |-> {}, signal |-> "none" ]
NothingLooked == [p \in Packages |-> {}]
-----------------------------------------------------------------------------
(* What a report says of a package.                                          *)
Naming(rep, p)      == { i \in DOMAIN rep.specs : rep.specs[i].name = p }
ArtifactsOf(rep, p) == { artifact \in rep.artifacts : artifact.name = p }
Mentions(rep, p)    == Naming(rep, p) # {} \/ ArtifactsOf(rep, p) # {}

(* The first package named takes the version the registry selected.          *)
VersionNamed(rep, i) ==
  IF rep.specs[i].version = Unversioned /\ i = 1 THEN rep.selected
                                                 ELSE rep.specs[i].version

VersionsOf(rep, p) ==
  ( { VersionNamed(rep, i) : i \in Naming(rep, p) } \cup
    { artifact.version : artifact \in ArtifactsOf(rep, p) } ) \ {Unversioned}

HashesOf(rep, p, v) ==
  { artifact.hash : artifact \in { a \in ArtifactsOf(rep, p) : a.version = v } }

(* A run compares the maintainers of its first package; a recorded report    *)
(* lends them, redacted, to every package it names.                          *)
OwnersOf(rep, p) == IF 1 \in Naming(rep, p) THEN rep.maintainers ELSE {}
OwnersRecorded(rep, p) ==
  IF Naming(rep, p) # {} THEN { Redacted[owner] : owner \in rep.maintainers } ELSE {}

(* The history of a package, from the reports of these runs.                 *)
PackageSeen(runs, p)    == \E r \in runs : Mentions(report[r], p)
VersionsSeen(runs, p)   == UNION { VersionsOf(report[r], p) : r \in runs }
HashesSeen(runs, p, v)  == UNION { HashesOf(report[r], p, v) : r \in runs }
OwnersSeen(runs, p)     == UNION { OwnersRecorded(report[r], p) : r \in runs }

(* Wrong variant: also artifacts without a name are looked up.               *)
Targets_Unnamed(rep) ==
  { rep.specs[i].name : i \in DOMAIN rep.specs } \cup
  { artifact.name : artifact \in rep.artifacts }

Targets(rep) ==
  { rep.specs[i].name : i \in DOMAIN rep.specs } \cup
  ({ artifact.name : artifact \in rep.artifacts } \ {Unnamed})

(* Wrong variant: a hash on record for any version will do.                  *)
HashDrift_AnyVersion(rep, p, runs) ==
  LET seen == UNION { HashesSeen(runs, p, v) : v \in Versions } IN
  \E v \in VersionsOf(rep, p) :
    HashesSeen(runs, p, v) # {} /\ ~(HashesOf(rep, p, v) \subseteq seen)

(* A version that has hashes on record comes with another one.               *)
HashDrift(rep, p, runs) ==
  \E v \in VersionsOf(rep, p) :
    /\ HashesSeen(runs, p, v) # {}
    /\ ~(HashesOf(rep, p, v) \subseteq HashesSeen(runs, p, v))

OwnerDrift(rep, p, runs) ==
  OwnersSeen(runs, p) # {} /\ ~(OwnersOf(rep, p) \subseteq OwnersSeen(runs, p))

Compared(rep, p, runs) ==
  IF ~PackageSeen(runs, p) THEN {"first_seen_package"}
  ELSE (IF VersionsOf(rep, p) \subseteq VersionsSeen(runs, p)
          THEN {} ELSE {"first_seen_package_version"}) \cup
       (IF HashDrift(rep, p, runs) THEN {"artifact_hash_drift"} ELSE {}) \cup
       (IF OwnerDrift(rep, p, runs) THEN {"first_seen_maintainer", "ownership_drift"} ELSE {})
-----------------------------------------------------------------------------
(* The earlier runs were the first to meet their packages.                   *)
Init ==
  /\ phase = [r \in Runs |-> IF r \in Earlier THEN "recorded" ELSE "new"]
  /\ \E recorded \in [Earlier -> EarlierChoices] :
       report = [r \in Runs |-> IF r \in Earlier THEN recorded[r] ELSE NoReport]
  /\ pending = [r \in Runs |-> {}]
  /\ looked = [r \in Runs |-> NothingLooked]
  /\ findings = [r \in Runs |-> IF r \in Earlier THEN {"first_seen_package"} ELSE {}]
  /\ log = Earlier

(* The stages before the reputation; a blocking signal skips it.             *)
Audit(r, rep) ==
  /\ phase[r] = "new"
  /\ phase' = [phase EXCEPT ![r] = "checking"]
  /\ report' = [report EXCEPT ![r] = rep]
  /\ pending' = [pending EXCEPT ![r] = IF rep.signal = "block" THEN {} ELSE Targets(rep)]
  /\ findings' = [findings EXCEPT ![r] = IF rep.signal = "none" THEN {} ELSE {"other"}]
  /\ UNCHANGED << looked, log >>

Due(r) == Min(pending[r])
Found(r, codes) ==
  /\ phase[r] = "checking" /\ pending[r] # {}
  /\ pending' = [pending EXCEPT ![r] = @ \ {Due(r)}]
  /\ findings' = [findings EXCEPT ![r] = @ \cup codes]
  /\ UNCHANGED << phase, report, log >>

(* The log is read anew for every package.                                   *)
LookUp(r) ==
  /\ Found(r, Compared(report[r], Due(r), log))
  /\ looked' = [looked EXCEPT ![r][Due(r)] = log]

LookUpFails(r) ==
  /\ Found(r, {"package_history_unavailable"})
  /\ UNCHANGED looked

(* Whatever the verdict and the user's answer, the report is on record       *)
(* before either matters.                                                    *)
Record(r) ==
  /\ phase[r] = "checking" /\ pending[r] = {}
  /\ phase' = [phase EXCEPT ![r] = "recorded"]
  /\ log' = log \cup {r}
  /\ UNCHANGED << report, pending, looked, findings >>

RecordFails(r) ==
  /\ phase[r] = "checking" /\ pending[r] = {}
  /\ phase' = [phase EXCEPT ![r] = "failed"]
  /\ UNCHANGED << report, pending, looked, findings, log >>

RunStep(r) ==
  \/ \E rep \in ReportChoices : Audit(r, rep)
  \/ LookUp(r) \/ LookUpFails(r) \/ Record(r) \/ RecordFails(r)

Finished ==
  /\ \A r \in Runs : phase[r] \in {"recorded", "failed"}
  /\ UNCHANGED vars

Next == (\E r \in Runs : RunStep(r)) \/ Finished

Spec == Init /\ [][Next]_vars
-----------------------------------------------------------------------------
TypeOK ==
  /\ phase \in [Runs -> {"new", "checking", "recorded", "failed"}]
  /\ report \in [Runs -> ReportChoices \cup {NoReport}]
  /\ pending \in [Runs -> SUBSET Packages]
  /\ looked \in [Runs -> [Packages -> SUBSET Runs]]
  /\ findings \in [Runs -> SUBSET Codes]
  /\ log \subseteq Runs

(* On record with nothing to tell the user: guard executes it unasked.       *)
Silent(r) == r \in log /\ findings[r] = {}

(* Neither run was on record when the other looked the package up.           *)
Raced(r, s, p) == r \notin looked[s][p] /\ s \notin looked[r][p]

(* What is on record of a package: its maintainers, the hashes of a version. *)
Kinds == Versions \cup {"owners"}
Recorded(r, p, kind) ==
  IF kind = "owners" THEN OwnersRecorded(report[r], p) ELSE HashesOf(report[r], p, kind)

(* What of this the run learnt of that very package: not the maintainers of  *)
(* another one named before it.                                              *)
Brought(r, p, kind) ==
  IF kind = "owners" /\ 1 \notin Naming(report[r], p) THEN {} ELSE Recorded(r, p, kind)

(* One of two facts is on record from a run that reported a finding, or that *)
(* has it from another package, or the two came together: in one silent run, *)
(* or in two that raced from look-up to record.                              *)
Explained(p, kind, x, y) ==
  \/ \E c \in log, z \in {x, y} :
       /\ z \in Recorded(c, p, kind)
       /\ findings[c] # {} \/ z \notin Brought(c, p, kind)
  \/ \E c, d \in Runs :
       /\ Silent(c) /\ x \in Brought(c, p, kind)
       /\ Silent(d) /\ y \in Brought(d, p, kind)
       /\ c = d \/ Raced(c, d, p)

(* Trust on first use happens once: where two runs that asked nobody brought *)
(* different hashes of one version, or different maintainers of one package, *)
(* the user was told about one of the two, or they came together, or one was *)
(* lent by another package named in the same command; no later run slips in  *)
(* another one.                                                              *)
TrustedOnFirstUseOnce ==
  \A a, b \in Runs : Silent(a) /\ Silent(b) =>
    \A p \in Packages, kind \in Kinds :
      \A x \in Brought(a, p, kind), y \in Brought(b, p, kind) :
        x # y => Explained(p, kind, x, y)
=============================================================================
