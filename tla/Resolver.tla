------------------------------ MODULE Resolver ------------------------------
(* How a run chooses the version it will audit and install: ResolveVersion   *)
(* and FollowAdvisoryCleanCandidate of resolver.go, for one package.         *)
(*                                                                           *)
(* ResolveVersion asks the registry and picks the newest version outside the *)
(* maturity window (the registry's latest when there is none, the pinned one *)
(* when the command names it).  FollowAdvisoryCleanCandidate then asks the   *)
(* advisory sources about one candidate after another: first the mature      *)
(* versions, newest first, until one is clean; if that fails the too-new     *)
(* ones; if that fails too it reports on the version ResolveVersion had      *)
(* picked.  Every check is a network call of its own, so it is a step of its *)
(* own and its outcome is chosen when it is made; the clock may move between *)
(* any two of them, and each pass reads the clock again.                     *)
(*                                                                           *)
(* Time is counted in half days, so that a version's age need not be a whole *)
(* number of days; an age is negative when the local clock is behind the     *)
(* registry's.  Candidates are listed newest first.                          *)
EXTENDS Integers, Policy

CONSTANTS
  Ages,          \* ages, in half days, a version may have when a run starts
  MaxCandidates, \* bound on the versions of the package
  MaxTicks       \* bound on the half days that pass during a run

ASSUME ConstantsAssumption ==
  /\ Ages \subseteq Int
  /\ MaxCandidates \in Nat \ {0}
  /\ MaxTicks \in Nat

VARIABLES
  registry, \* the candidates, newest first: [age at the start, removed]
  pinned,   \* the command names the version; registry holds only that one
  clock,    \* half days since the run started
  phase,    \* where FollowAdvisoryCleanCandidate is
  next,     \* the next candidate the current pass will look at
  cutoffAt, \* the clock when the current pass computed its cutoff
  checked,  \* advisoryByVersion and findingByVersion: candidate -> outcome
  selected, \* version.Selected, an index in registry
  ageDays   \* version.AgeDays

vars == << registry, pinned, clock, phase, next, cutoffAt, checked, selected, ageDays >>

(* What the advisory sources say of one version: the advisories found, and   *)
(* whether a check failed with no fresh cache to fall back on, which adds a  *)
(* blocking finding.                                                         *)
Outcomes == { [advisories |-> {},           failed |-> FALSE],
              [advisories |-> {"other"},    failed |-> FALSE],
              [advisories |-> {"critical"}, failed |-> FALSE],
              [advisories |-> {},           failed |-> TRUE],
              [advisories |-> {"other"},    failed |-> TRUE] }

Clean(outcome) == outcome.advisories = {} /\ ~outcome.failed

Unchecked == [advisories |-> {}, failed |-> FALSE, none |-> TRUE]

Candidate == [age : Ages, removed : BOOLEAN]
Candidates == DOMAIN registry

Window == 2 * MaturityDays
AgeAt(c, t) == registry[c].age + t
Mature(c, t) == AgeAt(c, t) >= Window
(* int(hours / 24) truncates towards zero, for negative ages too.            *)
DaysOld(halfDays) ==
  IF halfDays >= 0 THEN halfDays \div 2 ELSE -((-halfDays) \div 2)
DaysAt(c, t) == DaysOld(AgeAt(c, t))

Eligible(c) == ~registry[c].removed

NewestMature(t) ==
  { c \in Candidates : /\ Eligible(c) /\ Mature(c, t)
                       /\ \A d \in Candidates : d < c => ~(Eligible(d) /\ Mature(d, t)) }

(* The registry's versions, newest first.                                    *)
Registries ==
  UNION { { r \in [1 .. n -> Candidate] : \A i, j \in 1 .. n : i < j => r[i].age <= r[j].age } :
            n \in 1 .. MaxCandidates }

-----------------------------------------------------------------------------
(* ResolveVersion.  A pinned version becomes the only candidate; one whose   *)
(* publish time the registry does not tell is taken to be published now.     *)
(* `latest` is whatever the registry's latest tag names.                     *)
Init ==
  /\ registry \in Registries
  /\ pinned \in BOOLEAN
  /\ pinned => Candidates = {1}
  /\ clock = 0 /\ cutoffAt = 0
  /\ IF NewestMature(0) # {} THEN selected \in NewestMature(0)
                             ELSE selected \in Candidates
  /\ ageDays = DaysAt(selected, 0)
  /\ checked = [c \in Candidates |-> Unchecked]
  /\ phase = "resolved" /\ next = 1

(* FollowAdvisoryCleanCandidate starts, with a cutoff of its own: the        *)
(* registry's answer took time.                                              *)
BeginFollow ==
  /\ phase = "resolved"
  /\ phase' = "mature" /\ cutoffAt' = clock
  /\ UNCHANGED << registry, pinned, clock, next, checked, selected, ageDays >>

IsChecked(c) == checked[c] # Unchecked

(* Wrong variant: the loop steps over a candidate.                           *)
Advance_SkipsOne == next' = next + 2

Advance == next' = next + 1

(* The sources are asked about one version: RefreshAdvisories and            *)
(* RefreshExternalAdvisories, whose answers are remembered for this run.     *)
Check(c, outcome) == checked' = [checked EXCEPT ![c] = outcome]

PassOver(c) ==
  IF phase = "mature" THEN ~Eligible(c) \/ ~Mature(c, cutoffAt)
                      ELSE ~Eligible(c) \/ Mature(c, cutoffAt)

(* One turn of either loop over a candidate that is removed or on the wrong  *)
(* side of the cutoff.                                                       *)
SkipCandidate ==
  /\ phase \in {"mature", "fresh"}
  /\ next \in Candidates
  /\ PassOver(next)
  /\ Advance
  /\ UNCHANGED << registry, pinned, clock, phase, cutoffAt, checked, selected, ageDays >>

(* Wrong variant: the age stays that of the version picked first.           *)
Choose_KeepsAge(c) ==
  /\ selected' = c
  /\ phase' = "done"
  /\ UNCHANGED << next, cutoffAt, ageDays >>

Choose(c) ==
  /\ selected' = c
  /\ ageDays' = DaysAt(c, clock)
  /\ phase' = "done"
  /\ UNCHANGED << next, cutoffAt >>

StartFresh ==
  /\ phase' = "fresh" /\ next' = 1 /\ cutoffAt' = clock
  /\ UNCHANGED << selected, ageDays >>

(* Wrong variant: the first advisory ends the mature pass.                   *)
CheckMature_StopsAtAdvisory ==
  /\ phase = "mature" /\ next \in Candidates /\ ~PassOver(next)
  /\ \E outcome \in Outcomes :
       /\ Check(next, outcome)
       /\ IF Clean(outcome) THEN Choose(next) ELSE StartFresh
  /\ UNCHANGED << registry, pinned, clock >>

(* SelectNewestMatureCleanCandidate: a clean answer ends the search, a       *)
(* blocking finding ends the mature pass, advisories move it on.             *)
CheckMature ==
  /\ phase = "mature" /\ next \in Candidates /\ ~PassOver(next)
  /\ \E outcome \in Outcomes :
       /\ Check(next, outcome)
       /\ IF outcome.failed THEN StartFresh
          ELSE IF outcome.advisories = {} THEN Choose(next)
          ELSE Advance /\ UNCHANGED << phase, cutoffAt, selected, ageDays >>
  /\ UNCHANGED << registry, pinned, clock >>

MaturePassFails ==
  /\ phase = "mature" /\ next \notin Candidates
  /\ StartFresh
  /\ UNCHANGED << registry, pinned, clock, checked >>

(* newestFreshCleanCandidate: a version answered for in the mature pass is   *)
(* not asked about again; a failed check moves on to the next version.       *)
CheckFresh ==
  /\ phase = "fresh" /\ next \in Candidates /\ ~PassOver(next)
  /\ \E outcome \in IF IsChecked(next) THEN {checked[next]} ELSE Outcomes :
       /\ Check(next, outcome)
       /\ IF Clean(outcome) THEN Choose(next)
          ELSE Advance /\ UNCHANGED << phase, cutoffAt, selected, ageDays >>
  /\ UNCHANGED << registry, pinned, clock >>

(* Wrong variant of the fallback: nobody asks about the version kept.        *)
FreshPassFails_NeverAsks ==
  /\ phase = "fresh" /\ next \notin Candidates
  /\ phase' = "done"
  /\ UNCHANGED << registry, pinned, clock, next, cutoffAt, checked, selected, ageDays >>

(* No candidate was clean: the run keeps ResolveVersion's choice and what is *)
(* known of it, asking first if neither pass did.                            *)
FreshPassFails ==
  /\ phase = "fresh" /\ next \notin Candidates
  /\ \E outcome \in IF IsChecked(selected) THEN {checked[selected]} ELSE Outcomes :
       Check(selected, outcome)
  /\ phase' = "done"
  /\ UNCHANGED << registry, pinned, clock, next, cutoffAt, selected, ageDays >>

Tick ==
  /\ phase # "done" /\ clock < MaxTicks
  /\ clock' = clock + 1
  /\ UNCHANGED << registry, pinned, phase, next, cutoffAt, checked, selected, ageDays >>

Finished == phase = "done" /\ UNCHANGED vars

Next ==
  \/ BeginFollow \/ SkipCandidate \/ CheckMature \/ MaturePassFails
  \/ CheckFresh \/ FreshPassFails \/ Tick \/ Finished

Spec == Init /\ [][Next]_vars
-----------------------------------------------------------------------------
(* What preflight adds to the report, and the verdict these signals alone    *)
(* give under Policy.Evaluate.                                               *)
Reported ==
  [ remoteShell    |-> FALSE, flags |-> {}, bareDownloader |-> FALSE,
    found          |-> TRUE,
    ageDays        |-> ageDays,
    findings       |-> IF checked[selected].failed THEN {"block"} ELSE {},
    advisories     |-> checked[selected].advisories ]

Verdict == Evaluate(Reported)
Done == phase = "done"

TypeOK ==
  /\ registry \in Registries /\ pinned \in BOOLEAN
  /\ clock \in 0 .. MaxTicks /\ cutoffAt \in 0 .. clock
  /\ phase \in {"resolved", "mature", "fresh", "done"}
  /\ next \in Nat /\ next - 1 \in Candidates \cup {0}
  /\ selected \in Candidates
  /\ ageDays \in Int
  /\ checked \in [Candidates -> Outcomes \cup {Unchecked}]

(* A run these signals would allow installs a version that the advisory      *)
(* sources answered for, cleanly and without a failed check, and that is out *)
(* of the maturity window when it is chosen: neither the passes, nor the     *)
(* fallback, nor an age computed before the choice lets another one through. *)
AllowedIsMatureAndClean ==
  Done /\ Verdict = Allow =>
    /\ IsChecked(selected) /\ Clean(checked[selected])
    /\ Mature(selected, clock)

(* What preflight adds to the report is the answer about the version it      *)
(* selected: every path through the passes and the fallback asked for it.    *)
SelectedWasChecked == Done => IsChecked(selected)

(* The search is never cut short: a version selected as clean is passed over *)
(* by no newer mature one, except those with an advisory; and one inside the *)
(* maturity window is selected only when no mature one could be, each having *)
(* an advisory or coming after a check that failed.                          *)
NewestSafeVersionWins ==
  Done /\ Clean(checked[selected]) =>
    \A c \in Candidates : Eligible(c) /\ Mature(c, 0) =>
      /\ c < selected =>
           IsChecked(c) /\ checked[c].advisories # {} /\ ~checked[c].failed
      /\ ~Mature(selected, clock) =>
           \/ IsChecked(c) /\ ~Clean(checked[c])
           \/ \E d \in Candidates : d < c /\ IsChecked(d) /\ checked[d].failed

(* One version is asked about once: the verdict of this run and the passes   *)
(* that led to it never rest on two different answers about one version.     *)
AnswersKept ==
  [][\A c \in Candidates : IsChecked(c) => checked'[c] = checked[c]]_vars

(* What the documentation says of failed refreshes: a run in which a check   *)
(* failed without a fresh cache is blocked.                                  *)
RefreshFailureBlocks ==
  Done /\ (\E c \in Candidates : IsChecked(c) /\ checked[c].failed) =>
    Verdict = Block
=============================================================================
