------------------------- MODULE LocalHistoryProofs -------------------------
(* Proofs about LocalHistory, for any runs, packages, versions, hashes and   *)
(* maintainers, and any reports that runs may bring.                         *)
EXTENDS LocalHistory, TLAPS

(* A run without a finding has no signal of another stage, and found nothing *)
(* to tell in the histories it has looked up.                                *)
Unsuspicious(r) ==
  /\ report[r] \in ReportChoices /\ report[r].signal = "none"
  /\ \A p \in Targets(report[r]) \ pending[r] : Compared(report[r], p, looked[r][p]) = {}

RunInv ==
  \A r \in Runs :
    /\ r \in log <=> phase[r] = "recorded"
    /\ phase[r] = "recorded" => pending[r] = {}
    /\ \A p \in Packages : looked[r][p] \subseteq log
    /\ phase[r] # "new" /\ findings[r] = {} => Unsuspicious(r)

Inv == TypeOK /\ RunInv /\ TrustedOnFirstUseOnce

LEMMA ReportShape ==
  ASSUME NEW rep \in Reports
  PROVE  /\ rep.specs \in Seq(Specs)
         /\ rep.selected \in Versions \cup {Unversioned}
         /\ rep.maintainers \subseteq Maintainers
         /\ rep.artifacts \subseteq Artifacts
         /\ rep.signal \in Signals
  BY DEF Reports

LEMMA TargetsAreNamed ==
  ASSUME NEW rep \in Reports
  PROVE  Targets(rep) \subseteq Packages
<1>1. \A i \in DOMAIN rep.specs : rep.specs[i] \in Specs
  BY ReportShape
<1>2. \A artifact \in rep.artifacts : artifact.name \in Packages \cup {Unnamed}
  BY ReportShape DEF Artifacts
<1> QED BY <1>1, <1>2 DEF Targets, Specs

(* Whatever a run brings, it is about a package it looks up.                 *)
LEMMA BroughtByTarget ==
  ASSUME NEW r \in Runs, NEW p \in Packages, NEW kind \in Kinds,
         Brought(r, p, kind) # {}
  PROVE  p \in Targets(report[r])
  BY ConstantsAssumption
     DEF Brought, Recorded, OwnersRecorded, HashesOf, Naming, ArtifactsOf, Targets

(* What a run without a finding brings to a history that has something of    *)
(* the kind is on record already.                                            *)
LEMMA OnRecord ==
  ASSUME NEW b \in Runs, NEW p \in Packages, NEW kind \in Kinds,
         NEW a \in looked[b][p], NEW x \in Recorded(a, p, kind),
         NEW y \in Brought(b, p, kind),
         TypeOK, Unsuspicious(b), pending[b] = {}
  PROVE  \E e \in looked[b][p] : y \in Recorded(e, p, kind)
<1> DEFINE rep == report[b]
           seen == looked[b][p]
<1>1. p \in Targets(rep)
  BY BroughtByTarget
<1>2. Compared(rep, p, seen) = {}
  BY <1>1 DEF Unsuspicious
<1>3. ~HashDrift(rep, p, seen) /\ ~OwnerDrift(rep, p, seen)
  BY <1>2 DEF Compared
<1>4. rep \in Reports
  BY ConstantsAssumption DEF Unsuspicious
<1>5. CASE kind = "owners"
  <2>1. OwnersSeen(seen, p) # {}
    BY <1>5 DEF OwnersSeen, Recorded
  <2>2. OwnersOf(rep, p) \subseteq OwnersSeen(seen, p)
    BY <1>3, <2>1 DEF OwnerDrift
  <2>3. PICK owner \in rep.maintainers : y = Redacted[owner] /\ 1 \in Naming(rep, p)
    BY <1>5 DEF Brought, Recorded, OwnersRecorded
  <2>4. owner \in OwnersOf(rep, p)
    BY <2>3 DEF OwnersOf
  <2>5. PICK e \in seen : owner \in OwnersRecorded(report[e], p)
    BY <2>2, <2>4 DEF OwnersSeen
  <2>6. PICK other \in report[e].maintainers : owner = Redacted[other]
    BY <2>5 DEF OwnersRecorded
  <2>7. report[e] \in ReportChoices \cup {NoReport} /\ e \in Runs
    BY DEF TypeOK
  <2>8. other \in Maintainers
    BY <2>6, <2>7, ReportShape, ConstantsAssumption DEF NoReport
  <2>9. Redacted[owner] = owner
    BY <2>6, <2>8, ConstantsAssumption
  <2>10. y \in OwnersRecorded(report[e], p)
    BY <2>3, <2>5, <2>9
  <2> QED BY <2>10, <1>5 DEF Recorded
<1>6. CASE kind # "owners"
  <2>1. kind \in Versions /\ kind # Unversioned
    BY <1>6, ConstantsAssumption DEF Kinds
  <2>2. x \in HashesSeen(seen, p, kind)
    BY <1>6 DEF HashesSeen, Recorded
  <2>3. y \in HashesOf(rep, p, kind)
    BY <1>6 DEF Brought, Recorded
  <2>4. kind \in VersionsOf(rep, p)
    BY <2>1, <2>3 DEF HashesOf, VersionsOf
  <2>5. y \in HashesSeen(seen, p, kind)
    BY <1>3, <2>2, <2>3, <2>4 DEF HashDrift
  <2> QED BY <1>6, <2>5 DEF HashesSeen, Recorded
<1> QED BY <1>5, <1>6

(* A step that leaves the log and what it holds alone.                       *)
LEMMA LogKept ==
  ASSUME TypeOK, TrustedOnFirstUseOnce, log' = log,
         \A r \in log : /\ report'[r] = report[r] /\ findings'[r] = findings[r]
                         /\ looked'[r] = looked[r]
  PROVE  TrustedOnFirstUseOnce'
<1>1. \A r : Silent(r)' <=> Silent(r)
  BY DEF Silent
<1>2. \A r \in log : \A p, kind : Recorded(r, p, kind)' = Recorded(r, p, kind)
  BY DEF Recorded, OwnersRecorded, HashesOf, Naming, ArtifactsOf
<1>3. \A r \in log : \A p, kind : Brought(r, p, kind)' = Brought(r, p, kind)
  BY <1>2 DEF Brought, Naming
<1>4. \A r, s \in log : \A p : Raced(r, s, p)' <=> Raced(r, s, p)
  BY DEF Raced
<1>5. \A p, kind, x, y : Explained(p, kind, x, y) => Explained(p, kind, x, y)'
  BY <1>1, <1>2, <1>3, <1>4 DEF Explained, Silent
<1> QED BY <1>1, <1>3, <1>5 DEF TrustedOnFirstUseOnce, Silent

(* A report goes on record: what it brings without a finding was there when  *)
(* it looked, or nothing was, and what came since raced with it.             *)
LEMMA RecordTrusts ==
  ASSUME Inv, NEW b \in Runs, Record(b)
  PROVE  TrustedOnFirstUseOnce'
<1>1. /\ phase[b] = "checking" /\ pending[b] = {} /\ b \notin log /\ log' = log \cup {b}
      /\ UNCHANGED << report, pending, looked, findings >>
  BY DEF Record, Inv, RunInv
<1>2. \A r, p, kind : Recorded(r, p, kind)' = Recorded(r, p, kind)
  BY <1>1 DEF Recorded, OwnersRecorded, HashesOf, Naming, ArtifactsOf
<1>3. \A r, p, kind : Brought(r, p, kind)' = Brought(r, p, kind)
  BY <1>1, <1>2 DEF Brought, Naming
<1>4. \A r, s, p : Raced(r, s, p)' <=> Raced(r, s, p)
  BY <1>1 DEF Raced
<1>5. \A r : Silent(r)' <=> Silent(r) \/ (r = b /\ findings[b] = {})
  BY <1>1 DEF Silent
<1>6. \A p, kind, x, y : Explained(p, kind, x, y) => Explained(p, kind, x, y)'
  BY <1>1, <1>2, <1>3, <1>4, <1>5 DEF Explained
<1>7. ASSUME NEW a \in log, Silent(a), findings[b] = {},
             NEW p \in Packages, NEW kind \in Kinds,
             NEW x \in Brought(a, p, kind), NEW y \in Brought(b, p, kind), x # y
      PROVE  Explained(p, kind, x, y)'
  <2>1. a \in Runs /\ looked[a][p] \subseteq log /\ looked[b][p] \subseteq log
    BY DEF Inv, TypeOK, RunInv
  <2>2. CASE a \notin looked[b][p]
    <3>1. Raced(a, b, p)
      BY <1>1, <2>1, <2>2 DEF Raced
    <3> QED BY <1>3, <1>4, <1>5, <1>7, <2>1, <3>1 DEF Explained
  <2>3. CASE a \in looked[b][p]
    <3>1. Unsuspicious(b)
      BY <1>1, <1>7 DEF Inv, RunInv
    <3>2. x \in Recorded(a, p, kind)
      BY <1>7 DEF Brought
    <3>3. PICK e \in looked[b][p] : y \in Recorded(e, p, kind)
      BY <1>1, <1>7, <2>3, <3>1, <3>2, OnRecord DEF Inv
    <3>4. e \in log /\ e \in Runs
      BY <2>1, <3>3 DEF Inv, TypeOK
    <3>5. CASE findings[e] = {} /\ y \in Brought(e, p, kind)
      <4>1. Silent(e)
        BY <3>4, <3>5 DEF Silent
      <4>2. Explained(p, kind, x, y)
        BY <1>7, <2>1, <3>4, <3>5, <4>1 DEF Inv, TrustedOnFirstUseOnce
      <4> QED BY <1>6, <4>2
    <3>6. CASE findings[e] # {} \/ y \notin Brought(e, p, kind)
      <4>1. Explained(p, kind, x, y)
        BY <3>3, <3>4, <3>6 DEF Explained
      <4> QED BY <1>6, <4>1
    <3> QED BY <3>5, <3>6
  <2> QED BY <2>2, <2>3
<1>8. SUFFICES ASSUME NEW r \in Runs, NEW s \in Runs, Silent(r)', Silent(s)',
                      NEW p \in Packages, NEW kind \in Kinds,
                      NEW x \in Brought(r, p, kind)', NEW y \in Brought(s, p, kind)', x # y
               PROVE  Explained(p, kind, x, y)'
  BY DEF TrustedOnFirstUseOnce
<1>9. x \in Brought(r, p, kind) /\ y \in Brought(s, p, kind)
  BY <1>3, <1>8
<1>10. CASE Silent(r) /\ Silent(s)
  BY <1>6, <1>8, <1>9, <1>10 DEF Inv, TrustedOnFirstUseOnce
<1>11. CASE Silent(r) /\ s = b /\ findings[b] = {}
  BY <1>7, <1>8, <1>9, <1>11 DEF Silent
<1>12. CASE Silent(s) /\ r = b /\ findings[b] = {}
  <2>1. Explained(p, kind, y, x)'
    BY <1>7, <1>8, <1>9, <1>12 DEF Silent
  <2> QED BY <2>1 DEF Explained, Raced
<1>13. CASE r = b /\ s = b
  BY <1>8, <1>13 DEF Explained
<1> QED BY <1>5, <1>8, <1>10, <1>11, <1>12, <1>13

LEMMA InitInv == Init => Inv
<1> SUFFICES ASSUME Init PROVE Inv
  OBVIOUS
<1>1. TypeOK
  BY ConstantsAssumption DEF Init, TypeOK, NothingLooked, Codes
<1>2. RunInv
  BY ConstantsAssumption DEF Init, RunInv, NothingLooked
<1>3. TrustedOnFirstUseOnce
  BY DEF Init, TrustedOnFirstUseOnce, Silent
<1> QED BY <1>1, <1>2, <1>3 DEF Inv

(* What a run finds when it compares a package is the same after a step that *)
(* leaves its report and those on record alone.                              *)
LEMMA ComparedKept ==
  ASSUME NEW s \in Runs, NEW p \in Packages, NEW rep, NEW runs,
         report'[s] = rep, looked'[s][p] = runs,
         \A r \in runs : report'[r] = report[r]
  PROVE  Compared(report[s], p, looked[s][p])' = Compared(rep, p, runs)
<1>1. /\ PackageSeen(looked[s][p], p)' = PackageSeen(runs, p)
      /\ VersionsSeen(looked[s][p], p)' = VersionsSeen(runs, p)
      /\ OwnersSeen(looked[s][p], p)' = OwnersSeen(runs, p)
      /\ \A v : HashesSeen(looked[s][p], p, v)' = HashesSeen(runs, p, v)
  BY DEF PackageSeen, VersionsSeen, OwnersSeen, HashesSeen,
         Mentions, VersionsOf, VersionNamed, HashesOf, OwnersRecorded, Naming, ArtifactsOf
<1>2. /\ VersionsOf(report[s], p)' = VersionsOf(rep, p)
      /\ OwnersOf(report[s], p)' = OwnersOf(rep, p)
      /\ \A v : HashesOf(report[s], p, v)' = HashesOf(rep, p, v)
  BY DEF VersionsOf, VersionNamed, HashesOf, OwnersOf, Naming, ArtifactsOf
<1>3. HashDrift(report[s], p, looked[s][p])' <=> HashDrift(rep, p, runs)
  BY <1>1, <1>2 DEF HashDrift
<1>4. OwnerDrift(report[s], p, looked[s][p])' <=> OwnerDrift(rep, p, runs)
  BY <1>1, <1>2 DEF OwnerDrift
<1> QED BY <1>1, <1>2, <1>3, <1>4 DEF Compared

LEMMA UnsuspiciousKept ==
  ASSUME RunInv, NEW s \in Runs, Unsuspicious(s),
         report'[s] = report[s], pending'[s] = pending[s], looked'[s] = looked[s],
         \A r \in log : report'[r] = report[r]
  PROVE  Unsuspicious(s)'
<1>1. Targets(report[s])' = Targets(report[s])
  BY DEF Targets
<1>2. Targets(report[s]) \subseteq Packages
  BY TargetsAreNamed, ConstantsAssumption DEF Unsuspicious
<1>3. \A p \in Packages : Compared(report[s], p, looked[s][p])' = Compared(report[s], p, looked[s][p])
  <2> TAKE p \in Packages
  <2>1. \A r \in looked[s][p] : report'[r] = report[r]
    BY DEF RunInv
  <2> QED BY <2>1, ComparedKept
<1> QED BY <1>1, <1>2, <1>3 DEF Unsuspicious

LEMMA AuditInv ==
  ASSUME Inv, NEW r \in Runs, NEW rep \in ReportChoices, Audit(r, rep)
  PROVE  Inv'
<1>1. r \notin log /\ rep \in Reports
  BY ConstantsAssumption DEF Audit, Inv, RunInv
<1>2. TypeOK'
  BY <1>1, TargetsAreNamed DEF Audit, Inv, TypeOK, Codes
<1>3. TrustedOnFirstUseOnce'
  BY <1>1, LogKept DEF Audit, Inv, TypeOK
<1>4. ASSUME findings'[r] = {} PROVE Unsuspicious(r)'
  <2>1. rep.signal = "none" /\ report'[r] = rep /\ pending'[r] = Targets(rep)
    BY <1>1, <1>4, ReportShape DEF Audit, Inv, TypeOK, Signals
  <2>2. Targets(report[r])' = Targets(rep)
    BY <2>1 DEF Targets
  <2> QED BY <2>1, <2>2 DEF Unsuspicious
<1>5. ASSUME NEW s \in Runs, s # r, phase'[s] # "new", findings'[s] = {}
      PROVE  Unsuspicious(s)'
  <2>1. /\ Unsuspicious(s) /\ RunInv /\ \A t \in log : report'[t] = report[t]
        /\ report'[s] = report[s] /\ pending'[s] = pending[s] /\ looked'[s] = looked[s]
    BY <1>1, <1>5 DEF Audit, Inv, TypeOK, RunInv
  <2> QED BY <2>1, UnsuspiciousKept
<1>6. RunInv'
  BY <1>1, <1>4, <1>5 DEF Audit, Inv, TypeOK, RunInv
<1> QED BY <1>2, <1>3, <1>6 DEF Inv

LEMMA FoundInv ==
  ASSUME Inv, NEW r \in Runs, LookUp(r) \/ LookUpFails(r)
  PROVE  Inv'
<1> DEFINE p == Due(r)
<1>1. /\ phase[r] = "checking" /\ r \notin log
      /\ UNCHANGED << phase, report, log >>
      /\ pending' = [pending EXCEPT ![r] = @ \ {p}]
  BY DEF LookUp, LookUpFails, Found, Inv, RunInv
<1>2. Compared(report[r], p, log) \subseteq Codes
  BY DEF Compared, Codes
<1>3. TypeOK'
  <2>1. PICK codes \in SUBSET Codes : findings' = [findings EXCEPT ![r] = @ \cup codes]
    BY <1>2 DEF LookUp, LookUpFails, Found, Codes
  <2>2. findings' \in [Runs -> SUBSET Codes]
    BY <2>1 DEF Inv, TypeOK
  <2>3. looked' \in [Runs -> [Packages -> SUBSET Runs]]
    <3>1. CASE LookUp(r)
      <4>1. [looked[r] EXCEPT ![p] = log] \in [Packages -> SUBSET Runs]
        BY DEF Inv, TypeOK
      <4>2. looked' = [looked EXCEPT ![r] = [looked[r] EXCEPT ![p] = log]]
        BY <3>1 DEF LookUp
      <4> HIDE DEF p
      <4> QED BY <4>1, <4>2 DEF Inv, TypeOK
    <3>2. CASE LookUpFails(r)
      BY <3>2 DEF LookUpFails, Inv, TypeOK
    <3> QED BY <3>1, <3>2
  <2> QED BY <1>1, <2>2, <2>3 DEF Inv, TypeOK
<1>4. \A s \in Runs : s # r => looked'[s] = looked[s] /\ findings'[s] = findings[s]
  BY DEF LookUp, LookUpFails, Found, Inv, TypeOK
<1>5. TrustedOnFirstUseOnce'
  BY <1>1, <1>4, LogKept DEF Inv, TypeOK
<1>6. \A q \in Packages : looked'[r][q] = looked[r][q] \/ (q = p /\ looked'[r][q] = log)
  BY DEF LookUp, LookUpFails, Found, Inv, TypeOK
<1>7. ASSUME findings'[r] = {} PROVE Unsuspicious(r)'
  <2>1. /\ findings[r] = {} /\ Compared(report[r], p, log) = {}
        /\ p \in Packages => looked'[r][p] = log
    <3>1. CASE LookUpFails(r)
      BY <1>7, <3>1 DEF LookUpFails, Found, Inv, TypeOK
    <3>2. CASE LookUp(r)
      <4>1. findings'[r] = findings[r] \cup Compared(report[r], p, log)
        BY <3>2 DEF LookUp, Found, Inv, TypeOK
      <4>2. p \in Packages => looked'[r][p] = log
        BY <3>2 DEF LookUp, Inv, TypeOK
      <4> QED BY <1>7, <4>1, <4>2
    <3> QED BY <3>1, <3>2
  <2>2. Unsuspicious(r)
    BY <1>1, <2>1 DEF Inv, RunInv
  <2>3. Targets(report[r]) \subseteq Packages /\ Targets(report[r])' = Targets(report[r])
    BY <1>1, <2>2, TargetsAreNamed, ConstantsAssumption DEF Unsuspicious, Targets
  <2>4. pending'[r] = pending[r] \ {p}
    BY <1>1 DEF Inv, TypeOK
  <2>5. ASSUME NEW q \in Targets(report[r]) \ pending'[r]
        PROVE  Compared(report[r], q, looked'[r][q]) = {}
    BY <1>6, <2>1, <2>2, <2>3, <2>4, <2>5 DEF Unsuspicious
  <2>6. \A q \in Packages : Compared(report[r], q, looked[r][q])' = Compared(report[r], q, looked'[r][q])
    BY <1>1, ComparedKept
  <2> QED BY <1>1, <2>2, <2>3, <2>5, <2>6 DEF Unsuspicious
<1>8. ASSUME NEW s \in Runs, s # r, phase'[s] # "new", findings'[s] = {}
      PROVE  Unsuspicious(s)'
  <2>1. pending'[s] = pending[s] /\ Unsuspicious(s)
    BY <1>1, <1>4, <1>8 DEF Inv, TypeOK, RunInv
  <2> QED BY <1>1, <1>4, <1>8, <2>1, UnsuspiciousKept DEF Inv
<1>9. \A s \in Runs : /\ s \in log' <=> phase'[s] = "recorded"
                      /\ phase'[s] = "recorded" => pending'[s] = {}
                      /\ \A q \in Packages : looked'[s][q] \subseteq log'
  BY <1>1, <1>4, <1>6 DEF Inv, TypeOK, RunInv
<1>10. RunInv'
  BY <1>7, <1>8, <1>9 DEF RunInv
<1> QED BY <1>3, <1>5, <1>10 DEF Inv

LEMMA RecordInv ==
  ASSUME Inv, NEW r \in Runs, Record(r) \/ RecordFails(r)
  PROVE  Inv'
<1>1. TypeOK'
  BY DEF Record, RecordFails, Inv, TypeOK
<1>2. \A s \in Runs : Unsuspicious(s) => Unsuspicious(s)'
  BY UnsuspiciousKept DEF Record, RecordFails, Inv
<1>3. RunInv'
  BY <1>2 DEF Record, RecordFails, Inv, TypeOK, RunInv
<1>4. TrustedOnFirstUseOnce'
  BY RecordTrusts, LogKept DEF RecordFails, Inv
<1> QED BY <1>1, <1>3, <1>4 DEF Inv

LEMMA NextInv == Inv /\ [Next]_vars => Inv'
<1> SUFFICES ASSUME Inv, [Next]_vars PROVE Inv'
  OBVIOUS
<1>1. ASSUME NEW r \in Runs, RunStep(r) PROVE Inv'
  BY <1>1, AuditInv, FoundInv, RecordInv DEF RunStep
<1>2. CASE UNCHANGED vars
  <2>1. TypeOK'
    BY <1>2 DEF Inv, TypeOK, vars
  <2>2. TrustedOnFirstUseOnce'
    BY <1>2, LogKept DEF Inv, vars
  <2>3. \A s \in Runs : Unsuspicious(s) => Unsuspicious(s)'
    BY <1>2, UnsuspiciousKept DEF Inv, vars
  <2>4. RunInv'
    BY <1>2, <2>3 DEF Inv, vars, RunInv
  <2> QED BY <2>1, <2>2, <2>4 DEF Inv
<1> QED BY <1>1, <1>2 DEF Next, Finished

(* What the runs do to their reports, look-ups and findings fits together at *)
(* every moment, the history they share included.                            *)
THEOREM InvHolds == Spec => []Inv
  BY InitInv, NextInv, PTL DEF Spec

(* Every run looks up packages only, and compares each with runs on record   *)
(* (CheckLocalReputation).                                                   *)
THEOREM TypeCorrect == Spec => []TypeOK
  BY InvHolds, PTL DEF Inv

(* However many runs share the log, a package's hashes and maintainers enter *)
(* it unasked at one time only (CheckLocalReputation, AppendEvent).          *)
THEOREM TrustIsGivenOnce == Spec => []TrustedOnFirstUseOnce
  BY InvHolds, PTL DEF Inv
=============================================================================
