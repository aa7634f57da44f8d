--------------------------- MODULE ResolverProofs ---------------------------
(* What the choice of a version guarantees for every package: any number of  *)
(* versions of any age, answers in any order, and any delay between them.    *)
EXTENDS Resolver, WellFoundedInduction, TLAPS

LEMMA RegistryShape ==
  ASSUME registry \in Registries
  PROVE  /\ \E n \in Nat \ {0} : Candidates = 1 .. n
         /\ \A c \in Candidates : registry[c].age \in Ages /\ registry[c].age \in Int
<1>1. PICK n \in 1 .. MaxCandidates :
        registry \in [1 .. n -> Candidate]
  BY DEF Registries
<1>2. n \in Nat \ {0} /\ Candidates = 1 .. n
  BY <1>1, ConstantsAssumption DEF Candidates
<1>3. \A c \in 1 .. n : registry[c] \in Candidate
  BY <1>1
<1>4. \A c \in 1 .. n : registry[c].age \in Ages /\ registry[c].age \in Int
  BY <1>3, ConstantsAssumption DEF Candidate
<1> QED
  BY <1>2, <1>4

(* Truncated days keep the order of half days.                               *)
LEMMA DaysOldFacts ==
  ASSUME NEW a \in Int, NEW b \in Int
  PROVE  /\ DaysOld(a) \in Int
         /\ a <= b => DaysOld(a) <= DaysOld(b)
         /\ a >= -1 => DaysOld(a) >= 0
         /\ DaysOld(a) >= MaturityDays => a >= Window
BY DEF DaysOld, Window, MaturityDays

LEMMA OutcomeFacts ==
  /\ Unchecked \notin Outcomes
  /\ \A o \in Outcomes : o.failed \in BOOLEAN
<1>1. \A o \in Outcomes : DOMAIN o = {"advisories", "failed"}
  BY DEF Outcomes
<1>2. DOMAIN Unchecked = {"advisories", "failed", "none"}
  BY DEF Unchecked
<1>3. Unchecked \notin Outcomes
  BY <1>1, <1>2
<1>4. ASSUME NEW o \in Outcomes PROVE o.failed = TRUE \/ o.failed = FALSE
  BY DEF Outcomes
<1> QED
  BY <1>3, <1>4

(* Every run keeps its state within the declared types: the passes never     *)
(* run past the candidates, and what is selected is one of them.             *)
THEOREM TypeCorrect == Spec => []TypeOK
<1>1. Init => TypeOK
  <2> SUFFICES ASSUME Init PROVE TypeOK
    OBVIOUS
  <2>1. registry \in Registries /\ pinned \in BOOLEAN
    BY DEF Init
  <2>2. selected \in Candidates
    BY DEF Init, NewestMature
  <2>3. ageDays \in Int
    <3>1. AgeAt(selected, 0) \in Int
      BY <2>1, <2>2, RegistryShape DEF AgeAt
    <3> QED
      BY <3>1, DaysOldFacts DEF Init, DaysAt
  <2>4. clock \in 0 .. MaxTicks /\ cutoffAt \in 0 .. clock
    BY ConstantsAssumption DEF Init
  <2>5. phase \in {"resolved", "mature", "fresh", "done"} /\ next \in Nat /\ next - 1 \in Candidates \cup {0}
    BY DEF Init
  <2>6. checked \in [Candidates -> Outcomes \cup {Unchecked}]
    BY DEF Init
  <2> QED
    BY <2>1, <2>2, <2>3, <2>4, <2>5, <2>6 DEF TypeOK
<1>2. TypeOK /\ [Next]_vars => TypeOK'
  <2> SUFFICES ASSUME TypeOK, [Next]_vars PROVE TypeOK'
    OBVIOUS
  <2> USE DEF TypeOK
  <2>0. /\ registry' = registry /\ Candidates' = Candidates /\ pinned' = pinned
    BY DEF Next, vars, BeginFollow, SkipCandidate, CheckMature, MaturePassFails,
           CheckFresh, FreshPassFails, Tick, Finished, Candidates
  <2>1. PICK n \in Nat \ {0} : Candidates = 1 .. n
    BY RegistryShape
  <2>2. next \in Candidates => next \in Int /\ next + 1 - 1 \in Candidates
    BY <2>1
  <2>3. \A c \in Candidates : DaysAt(c, clock) \in Int
    <3>1. clock \in Int
      BY ConstantsAssumption
    <3>2. \A c \in Candidates : AgeAt(c, clock) \in Int
      BY <3>1, RegistryShape DEF AgeAt
    <3> QED
      BY <3>2, DaysOldFacts DEF DaysAt
  <2>4. clock \in Nat /\ clock \in 0 .. clock
    BY ConstantsAssumption
  <2>5. ASSUME NEW c \in Candidates, NEW o \in Outcomes, Check(c, o)
        PROVE  checked' \in [Candidates -> Outcomes \cup {Unchecked}]
    BY <2>5 DEF Check
  <2>6. CASE BeginFollow
    BY <2>0, <2>4, <2>6 DEF BeginFollow
  <2>7. CASE SkipCandidate
    BY <2>0, <2>2, <2>7 DEF SkipCandidate, Advance
  <2>8. CASE CheckMature
    <3>1. PICK o \in Outcomes :
            /\ Check(next, o)
            /\ IF o.failed THEN StartFresh
               ELSE IF o.advisories = {} THEN Choose(next)
               ELSE Advance /\ UNCHANGED << phase, cutoffAt, selected, ageDays >>
      BY <2>8 DEF CheckMature
    <3>2. next \in Candidates /\ clock' = clock
      BY <2>8 DEF CheckMature
    <3>3. checked' \in [Candidates -> Outcomes \cup {Unchecked}]
      BY <3>1, <3>2, <2>5
    <3>4. CASE StartFresh
      BY <3>2, <3>3, <3>4, <2>0, <2>4 DEF StartFresh
    <3>5. CASE Choose(next)
      BY <3>2, <3>3, <3>5, <2>0, <2>3 DEF Choose
    <3>6. CASE Advance /\ UNCHANGED << phase, cutoffAt, selected, ageDays >>
      BY <3>2, <3>3, <3>6, <2>0, <2>2 DEF Advance
    <3> QED
      BY <3>1, <3>4, <3>5, <3>6
  <2>9. CASE MaturePassFails
    BY <2>0, <2>4, <2>9 DEF MaturePassFails, StartFresh
  <2>10. CASE CheckFresh
    <3>1. PICK o \in IF IsChecked(next) THEN {checked[next]} ELSE Outcomes :
            /\ Check(next, o)
            /\ IF Clean(o) THEN Choose(next)
               ELSE Advance /\ UNCHANGED << phase, cutoffAt, selected, ageDays >>
      BY <2>10 DEF CheckFresh
    <3>2. next \in Candidates /\ clock' = clock
      BY <2>10 DEF CheckFresh
    <3>3. o \in Outcomes
      BY <3>1, <3>2 DEF IsChecked
    <3>4. checked' \in [Candidates -> Outcomes \cup {Unchecked}]
      BY <3>1, <3>2, <3>3, <2>5
    <3>5. CASE Choose(next)
      BY <3>2, <3>4, <3>5, <2>0, <2>3 DEF Choose
    <3>6. CASE Advance /\ UNCHANGED << phase, cutoffAt, selected, ageDays >>
      BY <3>2, <3>4, <3>6, <2>0, <2>2 DEF Advance
    <3> QED
      BY <3>1, <3>5, <3>6
  <2>11. CASE FreshPassFails
    <3>1. PICK o \in IF IsChecked(selected) THEN {checked[selected]} ELSE Outcomes :
            Check(selected, o)
      BY <2>11 DEF FreshPassFails
    <3>2. o \in Outcomes
      BY <3>1 DEF IsChecked
    <3>3. checked' \in [Candidates -> Outcomes \cup {Unchecked}]
      BY <3>1, <3>2, <2>5
    <3> QED
      BY <2>0, <2>11, <3>3 DEF FreshPassFails
  <2>12. CASE Tick
    BY <2>0, <2>12, ConstantsAssumption DEF Tick
  <2>13. CASE UNCHANGED vars
    BY <2>13, <2>0 DEF vars
  <2> QED
    BY <2>6, <2>7, <2>8, <2>9, <2>10, <2>11, <2>12, <2>13 DEF Next, Finished
<1> QED
  BY <1>1, <1>2, PTL DEF Spec

(* The age a version is judged by is never more than its age now.            *)
AgeIsPast == 0 <= ageDays /\ ageDays <= DaysAt(selected, clock)

(* The mature pass has asked about no candidate it has not reached.          *)
MaturePassAhead ==
  phase \in {"resolved", "mature"} =>
    \A c \in Candidates : c >= next => ~IsChecked(c)

(* A clock at most one day behind the registry's.                            *)
ClockNearlyRight == \A a \in Ages : a >= -1

LEMMA DaysAtFacts ==
  ASSUME TypeOK, NEW c \in Candidates, NEW s \in Nat, NEW t \in Nat, s <= t
  PROVE  /\ DaysAt(c, s) \in Int /\ DaysAt(c, t) \in Int
         /\ DaysAt(c, s) <= DaysAt(c, t)
         /\ ClockNearlyRight => DaysAt(c, s) >= 0
<1>1. registry[c].age \in Int /\ registry[c].age \in Ages
  BY RegistryShape DEF TypeOK
<1>2. AgeAt(c, s) \in Int /\ AgeAt(c, t) \in Int /\ AgeAt(c, s) <= AgeAt(c, t)
  BY <1>1 DEF AgeAt
<1>3. ClockNearlyRight => AgeAt(c, s) >= -1
  BY <1>1 DEF AgeAt, ClockNearlyRight
<1> QED
  BY <1>2, <1>3, DaysOldFacts DEF DaysAt

(* The version a run reports on was asked about, for every order of answers. *)
THEOREM AlwaysChecked == Spec => []SelectedWasChecked
<1>1. Init => SelectedWasChecked
  BY DEF Init, SelectedWasChecked, Done
<1>2. TypeOK /\ TypeOK' /\ SelectedWasChecked /\ [Next]_vars => SelectedWasChecked'
  <2> SUFFICES ASSUME TypeOK, TypeOK', SelectedWasChecked, [Next]_vars, phase' = "done"
               PROVE  IsChecked(selected)'
    BY DEF SelectedWasChecked, Done
  <2>1. ASSUME NEW c \in Candidates, NEW o \in Outcomes \cup {checked[c]},
               Check(c, o), o # Unchecked
        PROVE  checked'[c] # Unchecked
    BY <2>1 DEF Check, TypeOK
  <2>2. CASE CheckMature
    BY <2>2, <2>1, OutcomeFacts DEF CheckMature, StartFresh, Choose, IsChecked
  <2>3. CASE CheckFresh
    <3>1. PICK o \in IF IsChecked(next) THEN {checked[next]} ELSE Outcomes :
            Check(next, o) /\ (Clean(o) \/ phase' = phase) /\ (Clean(o) => Choose(next))
      BY <2>3 DEF CheckFresh
    <3>2. o # Unchecked /\ next \in Candidates /\ phase = "fresh"
      BY <2>3, <3>1, OutcomeFacts DEF CheckFresh, IsChecked
    <3>3. selected' = next
      BY <3>1, <3>2 DEF Choose
    <3> QED
      BY <3>1, <3>2, <3>3, <2>1 DEF IsChecked
  <2>4. CASE FreshPassFails
    <3>1. PICK o \in IF IsChecked(selected) THEN {checked[selected]} ELSE Outcomes :
            Check(selected, o)
      BY <2>4 DEF FreshPassFails
    <3>2. o # Unchecked /\ selected \in Candidates /\ selected' = selected
      BY <2>4, <3>1, OutcomeFacts DEF FreshPassFails, IsChecked, TypeOK
    <3> QED
      BY <3>1, <3>2, <2>1 DEF IsChecked
  <2>5. CASE phase = "done" /\ UNCHANGED vars
    BY <2>5 DEF SelectedWasChecked, Done, IsChecked, vars
  <2>6. CASE phase # "done" /\ phase' = phase
    BY <2>6
  <2> QED
    BY <2>2, <2>3, <2>4, <2>5, <2>6
       DEF Next, vars, BeginFollow, SkipCandidate, MaturePassFails, StartFresh, Tick, Finished
<1> QED
  BY <1>1, <1>2, TypeCorrect, PTL DEF Spec

LEMMA MaturePassAheadInv == Spec => []MaturePassAhead
<1>1. Init => MaturePassAhead
  BY DEF Init, MaturePassAhead, IsChecked
<1>2. TypeOK /\ MaturePassAhead /\ [Next]_vars => MaturePassAhead'
  <2> SUFFICES ASSUME TypeOK, MaturePassAhead, [Next]_vars,
                      phase' \in {"resolved", "mature"},
                      NEW c \in Candidates', c >= next'
               PROVE  ~IsChecked(c)'
    BY DEF MaturePassAhead
  <2>1. c \in Candidates /\ c \in Int /\ next \in Int
    <3>1. registry' = registry
      BY DEF Next, vars, BeginFollow, SkipCandidate, CheckMature, MaturePassFails,
             CheckFresh, FreshPassFails, Tick, Finished
    <3>2. c \in Candidates
      BY <3>1 DEF Candidates
    <3>3. PICK n \in Nat \ {0} : Candidates = 1 .. n
      BY RegistryShape DEF TypeOK
    <3> QED
      BY <3>2, <3>3 DEF TypeOK
  <2>2. CASE CheckMature
    <3>1. PICK o \in Outcomes :
            /\ Check(next, o)
            /\ IF o.failed THEN StartFresh
               ELSE IF o.advisories = {} THEN Choose(next) ELSE Advance
      BY <2>2 DEF CheckMature
    <3>2. next' = next + 1 /\ phase = "mature"
      BY <2>2, <3>1 DEF StartFresh, Choose, Advance, CheckMature
    <3>3. c # next /\ c >= next
      BY <2>1, <3>2
    <3>4. checked'[c] = checked[c]
      BY <2>1, <3>1, <3>3 DEF Check, TypeOK
    <3> QED
      BY <2>1, <3>2, <3>3, <3>4 DEF MaturePassAhead, IsChecked
  <2>3. CASE SkipCandidate
    BY <2>1, <2>3 DEF SkipCandidate, Advance, MaturePassAhead, IsChecked
  <2>4. CASE BeginFollow \/ Tick \/ UNCHANGED vars
    BY <2>1, <2>4 DEF BeginFollow, Tick, vars, MaturePassAhead, IsChecked
  <2>5. CASE MaturePassFails \/ CheckFresh \/ FreshPassFails
    BY <2>5 DEF MaturePassFails, StartFresh, CheckFresh, Choose, FreshPassFails
  <2> QED
    BY <2>2, <2>3, <2>4, <2>5 DEF Next, Finished
<1> QED
  BY <1>1, <1>2, TypeCorrect, PTL DEF Spec

(* No step replaces an answer, and none changes what the registry said.      *)
LEMMA StepKeepsAnswers ==
  ASSUME TypeOK, MaturePassAhead, [Next]_vars,
         NEW c \in Candidates, IsChecked(c)
  PROVE  checked'[c] = checked[c]
<1>1. ASSUME NEW d \in Candidates, NEW o, Check(d, o), d # c \/ o = checked[d]
      PROVE  checked'[c] = checked[c]
  BY <1>1 DEF Check, TypeOK
<1>2. CASE CheckMature
  <2>1. c # next
    BY <1>2, RegistryShape DEF CheckMature, MaturePassAhead, TypeOK
  <2> QED
    BY <1>2, <1>1, <2>1 DEF CheckMature
<1>3. CASE CheckFresh
  BY <1>3, <1>1 DEF CheckFresh
<1>4. CASE FreshPassFails
  BY <1>4, <1>1 DEF FreshPassFails, TypeOK
<1> QED
  BY <1>2, <1>3, <1>4
     DEF Next, vars, BeginFollow, SkipCandidate, MaturePassFails, Tick, Finished

LEMMA StepKeepsRegistry ==
  ASSUME [Next]_vars
  PROVE  registry' = registry
BY DEF Next, vars, BeginFollow, SkipCandidate, CheckMature, MaturePassFails,
       CheckFresh, FreshPassFails, Tick, Finished

(* Answers are never replaced: a version answered for keeps its answer.      *)
THEOREM AnswersAreKept == Spec => AnswersKept
<1>1. TypeOK /\ MaturePassAhead /\ [Next]_vars =>
        [\A c \in Candidates : IsChecked(c) => checked'[c] = checked[c]]_vars
  BY StepKeepsAnswers
<1> QED
  BY <1>1, TypeCorrect, MaturePassAheadInv, PTL DEF Spec, AnswersKept

LEMMA AgeIsPastInv ==
  ASSUME ClockNearlyRight
  PROVE  Spec => []AgeIsPast
<1>1. Init /\ TypeOK => AgeIsPast
  <2> SUFFICES ASSUME Init, TypeOK PROVE AgeIsPast
    OBVIOUS
  <2>1. ageDays = DaysAt(selected, 0) /\ clock = 0 /\ selected \in Candidates
    BY DEF Init, TypeOK
  <2> QED
    BY <2>1, DaysAtFacts DEF AgeIsPast
<1>2. TypeOK /\ AgeIsPast /\ [Next]_vars => AgeIsPast'
  <2> SUFFICES ASSUME TypeOK, AgeIsPast, [Next]_vars PROVE AgeIsPast'
    OBVIOUS
  <2>0. clock \in Nat /\ clock + 1 \in Nat /\ selected \in Candidates /\ ageDays \in Int
    BY ConstantsAssumption DEF TypeOK
  <2>1. registry' = registry
    BY DEF Next, vars, BeginFollow, SkipCandidate, CheckMature, MaturePassFails,
           CheckFresh, FreshPassFails, Tick, Finished
  <2>2. ASSUME NEW c \in Candidates, Choose(c), clock' = clock PROVE AgeIsPast'
    <3>1. DaysAt(c, clock) \in Int /\ DaysAt(c, clock) >= 0
      BY <2>0, DaysAtFacts
    <3>2. DaysAt(selected, clock)' = DaysAt(c, clock)
      BY <2>1, <2>2 DEF Choose, DaysAt, AgeAt
    <3> QED
      BY <3>1, <3>2, <2>2 DEF Choose, AgeIsPast
  <2>3. ASSUME clock' = clock, selected' = selected, ageDays' = ageDays PROVE AgeIsPast'
    BY <2>1, <2>3 DEF AgeIsPast, DaysAt, AgeAt
  <2>4. CASE Tick
    <3>1. DaysAt(selected, clock) <= DaysAt(selected, clock + 1)
      BY <2>0, DaysAtFacts
    <3>2. DaysAt(selected, clock)' = DaysAt(selected, clock + 1)
      BY <2>1, <2>4 DEF Tick, DaysAt, AgeAt
    <3>3. DaysAt(selected, clock) \in Int /\ DaysAt(selected, clock + 1) \in Int
      BY <2>0, DaysAtFacts
    <3> QED
      BY <2>0, <2>4, <3>1, <3>2, <3>3 DEF Tick, AgeIsPast
  <2>5. CASE CheckMature
    <3>1. \/ Choose(next)
          \/ selected' = selected /\ ageDays' = ageDays
      BY <2>5 DEF CheckMature, StartFresh
    <3> QED
      BY <2>5, <3>1, <2>2, <2>3 DEF CheckMature
  <2>6. CASE CheckFresh
    <3>1. \/ Choose(next)
          \/ selected' = selected /\ ageDays' = ageDays
      BY <2>6 DEF CheckFresh
    <3> QED
      BY <2>6, <3>1, <2>2, <2>3 DEF CheckFresh
  <2>7. CASE BeginFollow \/ SkipCandidate \/ MaturePassFails \/ FreshPassFails \/ UNCHANGED vars
    BY <2>7, <2>3 DEF BeginFollow, SkipCandidate, MaturePassFails, StartFresh, FreshPassFails, vars
  <2> QED
    BY <2>4, <2>5, <2>6, <2>7 DEF Next, Finished
<1> QED
  BY <1>1, <1>2, TypeCorrect, PTL DEF Spec

(* With a clock at most a day behind the registry's, a run is allowed on the *)
(* strength of its version only if that version answered cleanly and is out  *)
(* of the maturity window.  The assumption is needed: Policy.Evaluate takes  *)
(* a negative age for a mature one.                                          *)
THEOREM AllowedVersionIsMatureAndClean ==
  ASSUME ClockNearlyRight
  PROVE  Spec => []AllowedIsMatureAndClean
<1>1. TypeOK /\ AgeIsPast /\ SelectedWasChecked => AllowedIsMatureAndClean
  <2> SUFFICES ASSUME TypeOK, AgeIsPast, SelectedWasChecked, Done, Verdict = Allow
               PROVE  /\ IsChecked(selected) /\ Clean(checked[selected])
                      /\ Mature(selected, clock)
    BY DEF AllowedIsMatureAndClean
  <2>1. IsChecked(selected) /\ selected \in Candidates
    BY DEF SelectedWasChecked, TypeOK
  <2>2. checked[selected] \in Outcomes
    BY <2>1 DEF TypeOK, IsChecked
  <2>3. /\ Reported.found /\ Reported.ageDays = ageDays
        /\ Reported.advisories = checked[selected].advisories
        /\ Reported.findings = IF checked[selected].failed THEN {"block"} ELSE {}
    BY DEF Reported
  <2>4. /\ Reported.advisories = {}
        /\ ~InsideMaturityWindow(Reported)
        /\ ~HasBlockingSeverity(Reported.findings)
    BY DEF Verdict, Evaluate, Allow, Prompt, Block
  <2>5. Clean(checked[selected])
    BY <2>2, <2>3, <2>4, OutcomeFacts
       DEF Clean, HasBlockingSeverity, SeverityVerdict
  <2>6. ageDays >= MaturityDays
    BY <2>3, <2>4 DEF InsideMaturityWindow, AgeIsPast, MaturityDays, TypeOK
  <2>7. clock \in Nat /\ ageDays \in Int
    BY ConstantsAssumption DEF TypeOK
  <2>8. DaysAt(selected, clock) \in Int /\ DaysAt(selected, clock) >= MaturityDays
    BY <2>1, <2>6, <2>7, DaysAtFacts DEF AgeIsPast, MaturityDays
  <2>9. AgeAt(selected, clock) \in Int
    BY <2>1, <2>7, RegistryShape DEF AgeAt, TypeOK
  <2>10. Mature(selected, clock)
    BY <2>8, <2>9, DaysOldFacts DEF Mature, DaysAt
  <2> QED
    BY <2>1, <2>5, <2>10
<1> QED
  BY <1>1, TypeCorrect, AlwaysChecked, AgeIsPastInv, PTL

(* Any set of version numbers has a newest one.                              *)
LEMMA LeastNatural ==
  ASSUME NEW T \in SUBSET Nat, T # {}
  PROVE  \E m \in T : \A k \in T : m <= k
<1> DEFINE less == {pair \in Nat \X Nat : pair[1] < pair[2]}
<1>1. IsWellFoundedOn(less, Nat)
  BY NatLessThanWellFounded DEF OpToRel
<1> HIDE DEF less
<1>2. PICK m \in T : \A k \in T : ~ (<<k, m>> \in less)
  BY <1>1, WFMin
<1>3. ASSUME NEW k \in T PROVE m <= k
  <2>1. k \in Nat /\ m \in Nat
    OBVIOUS
  <2>2. ~ (k < m)
    BY <1>2, <2>1 DEF less
  <2> QED
    BY <2>1, <2>2
<1> QED
  BY <1>3

(* What ResolveVersion looks for exists whenever a version is old enough.    *)
LEMMA NewestMatureExists ==
  ASSUME registry \in Registries, NEW t \in Int,
         NEW c \in Candidates, Eligible(c), Mature(c, t)
  PROVE  \E m \in NewestMature(t) : m <= c
<1> DEFINE T == { d \in Candidates : Eligible(d) /\ Mature(d, t) }
<1>1. Candidates \subseteq Nat /\ c \in T
  BY RegistryShape
<1>2. PICK m \in T : \A k \in T : m <= k
  BY <1>1, LeastNatural
<1>3. ASSUME NEW d \in Candidates, d < m PROVE ~(Eligible(d) /\ Mature(d, t))
  BY <1>1, <1>2, <1>3
<1> QED
  BY <1>1, <1>2, <1>3 DEF NewestMature

(* Versions are listed newest first, and they only get older.                *)
LEMMA OlderIsMature ==
  ASSUME registry \in Registries, NEW c \in Candidates, NEW d \in Candidates, c <= d,
         NEW s \in Int, NEW t \in Int, s <= t, Mature(c, s)
  PROVE  Mature(d, t)
<1>1. PICK n \in 1 .. MaxCandidates :
        /\ registry \in [1 .. n -> Candidate]
        /\ \A i, j \in 1 .. n : i < j => registry[i].age <= registry[j].age
  BY DEF Registries
<1>2. Candidates = 1 .. n /\ n \in Nat
  BY <1>1, ConstantsAssumption DEF Candidates
<1>3. registry[c].age \in Int /\ registry[d].age \in Int
  BY RegistryShape
<1>4. registry[c].age <= registry[d].age
  <2>1. c \in Int /\ d \in Int
    BY <1>2
  <2>2. CASE c = d
    BY <1>3, <2>2
  <2>3. CASE c < d
    BY <1>1, <1>2, <2>3
  <2> QED
    BY <2>1, <2>2, <2>3
<1> QED
  BY <1>3, <1>4 DEF Mature, AgeAt, Window, MaturityDays

(* A version the search may pass over: an advisory source spoke against it.  *)
Refused(c) == IsChecked(c) /\ checked[c].advisories # {} /\ ~checked[c].failed

(* A version whose check failed ends the mature pass.                        *)
EndsPass(c) == IsChecked(c) /\ checked[c].failed

OldEnough(c) == Eligible(c) /\ Mature(c, 0)

(* Until the search ends the run keeps ResolveVersion's choice; the mature   *)
(* pass has left only refused versions behind, and what it had not come to   *)
(* when it ended lies behind a check that failed.                            *)
SearchInv ==
  /\ phase = "resolved" => next = 1
  /\ phase # "done" /\ NewestMature(0) # {} => selected \in NewestMature(0)
  /\ phase = "mature" =>
       \A c \in Candidates : c < next /\ OldEnough(c) => Refused(c)
  /\ phase = "fresh" =>
       \A c \in Candidates : OldEnough(c) =>
         Refused(c) \/ \E d \in Candidates : d <= c /\ EndsPass(d)

(* What has been answered for stays answered for, the same way.              *)
LEMMA StepKeepsVerdicts ==
  ASSUME TypeOK, MaturePassAhead, [Next]_vars, NEW c \in Candidates
  PROVE  /\ Refused(c) => Refused(c)'
         /\ EndsPass(c) => EndsPass(c)'
         /\ OldEnough(c)' <=> OldEnough(c)
<1>1. registry' = registry
  BY StepKeepsRegistry
<1>2. IsChecked(c) => checked'[c] = checked[c]
  BY StepKeepsAnswers
<1>3. OldEnough(c)' <=> OldEnough(c)
  BY <1>1 DEF OldEnough, Eligible, Mature, AgeAt
<1> QED
  BY <1>2, <1>3 DEF Refused, EndsPass, IsChecked

LEMMA SearchInvInit == Init => SearchInv
BY DEF Init, SearchInv

LEMMA SearchInvStep ==
  ASSUME TypeOK, MaturePassAhead, SearchInv, [Next]_vars
  PROVE  SearchInv'
<1>0. registry' = registry /\ Candidates' = Candidates
  BY StepKeepsRegistry DEF Candidates
<1>1. NewestMature(0)' = NewestMature(0)
  BY <1>0 DEF NewestMature, Eligible, Mature, AgeAt
<1>2. PICK n \in Nat \ {0} : Candidates = 1 .. n
  BY RegistryShape DEF TypeOK
<1>3. next \in Nat /\ cutoffAt \in Nat /\ clock \in Nat /\ cutoffAt <= clock
  BY ConstantsAssumption DEF TypeOK
<1>4. ASSUME phase' = phase, next' = next, selected' = selected
      PROVE  SearchInv'
  BY <1>0, <1>1, <1>4, StepKeepsVerdicts DEF SearchInv
<1>5. CASE BeginFollow
  BY <1>0, <1>1, <1>2, <1>5 DEF BeginFollow, SearchInv
<1>6. CASE SkipCandidate
  <2>1. /\ phase \in {"mature", "fresh"} /\ phase' = phase /\ selected' = selected
        /\ next' = next + 1 /\ next \in Candidates /\ PassOver(next)
    BY <1>6 DEF SkipCandidate, Advance
  <2>2. ASSUME phase = "mature" PROVE ~OldEnough(next)
    BY <1>3, <2>1, <2>2, OlderIsMature DEF PassOver, OldEnough, TypeOK
  <2>3. ASSUME phase' = "mature", NEW c \in Candidates', c < next', OldEnough(c)'
        PROVE  Refused(c)'
    <3>1. c \in Candidates /\ OldEnough(c) /\ phase = "mature"
      BY <1>0, <2>1, <2>3, StepKeepsVerdicts
    <3>2. c < next
      BY <1>2, <1>3, <2>1, <2>2, <2>3, <3>1
    <3> QED
      BY <3>1, <3>2, StepKeepsVerdicts DEF SearchInv
  <2>4. ASSUME phase' = "fresh", NEW c \in Candidates', OldEnough(c)'
        PROVE  Refused(c)' \/ \E d \in Candidates' : d <= c /\ EndsPass(d)'
    BY <1>0, <2>1, <2>4, StepKeepsVerdicts DEF SearchInv
  <2> QED
    BY <1>1, <2>1, <2>3, <2>4 DEF SearchInv
<1>7. CASE CheckMature
  <2>1. PICK o \in Outcomes :
          /\ Check(next, o)
          /\ IF o.failed THEN StartFresh
             ELSE IF o.advisories = {} THEN Choose(next)
             ELSE Advance /\ UNCHANGED << phase, cutoffAt, selected, ageDays >>
    BY <1>7 DEF CheckMature
  <2>2. phase = "mature" /\ next \in Candidates
    BY <1>7 DEF CheckMature
  <2>3. PICK m \in Candidates : m = next /\ checked'[m] = o /\ o # Unchecked
    BY <2>1, <2>2, OutcomeFacts DEF Check, TypeOK
  <2>4. ASSUME NEW c \in Candidates, c < next, OldEnough(c)' PROVE Refused(c)'
    BY <2>2, <2>4, StepKeepsVerdicts DEF SearchInv
  <2>5. CASE o.failed
    <3>1. phase' = "fresh" /\ selected' = selected
      BY <2>1, <2>5 DEF StartFresh
    <3>2. EndsPass(m)'
      BY <2>3, <2>5 DEF EndsPass, IsChecked
    <3>3. ASSUME NEW c \in Candidates', OldEnough(c)'
          PROVE  Refused(c)' \/ \E d \in Candidates' : d <= c /\ EndsPass(d)'
      <4>1. CASE c < next
        BY <1>0, <2>4, <3>3, <4>1
      <4>2. CASE next <= c
        BY <1>0, <2>3, <3>2, <4>2
      <4> QED
        BY <1>0, <1>2, <1>3, <4>1, <4>2
    <3> QED
      BY <1>1, <2>2, <3>1, <3>3 DEF SearchInv
  <2>6. CASE ~o.failed /\ o.advisories = {}
    BY <2>1, <2>6 DEF Choose, SearchInv
  <2>7. CASE ~o.failed /\ o.advisories # {}
    <3>1. phase' = phase /\ selected' = selected /\ next' = next + 1
      BY <2>1, <2>7 DEF Advance
    <3>2. Refused(m)'
      BY <2>3, <2>7 DEF Refused, IsChecked
    <3>3. ASSUME NEW c \in Candidates', c < next', OldEnough(c)' PROVE Refused(c)'
      <4>1. c \in Candidates /\ (c < next \/ c = m)
        BY <1>0, <1>2, <1>3, <2>3, <3>1, <3>3
      <4> QED
        BY <2>4, <3>2, <3>3, <4>1
    <3> QED
      BY <1>1, <2>2, <3>1, <3>3 DEF SearchInv
  <2> QED
    BY <2>5, <2>6, <2>7
<1>8. CASE MaturePassFails
  <2>1. phase = "mature" /\ phase' = "fresh" /\ selected' = selected /\ next \notin Candidates
    BY <1>8 DEF MaturePassFails, StartFresh
  <2>2. ASSUME NEW c \in Candidates PROVE c < next
    BY <1>2, <1>3, <2>1 DEF TypeOK
  <2>3. ASSUME NEW c \in Candidates', OldEnough(c)' PROVE Refused(c)'
    BY <1>0, <2>1, <2>2, <2>3, StepKeepsVerdicts DEF SearchInv
  <2> QED
    BY <1>1, <2>1, <2>3 DEF SearchInv
<1>9. CASE CheckFresh
  <2>1. phase = "fresh" /\ (phase' = "done" \/ (phase' = phase /\ selected' = selected))
    BY <1>9 DEF CheckFresh, Choose
  <2>2. ASSUME NEW c \in Candidates', OldEnough(c)'
        PROVE  Refused(c)' \/ \E d \in Candidates' : d <= c /\ EndsPass(d)'
    BY <1>0, <2>1, <2>2, StepKeepsVerdicts DEF SearchInv
  <2> QED
    BY <1>1, <2>1, <2>2 DEF SearchInv
<1>10. CASE FreshPassFails
  BY <1>10 DEF FreshPassFails, SearchInv
<1>11. CASE Tick \/ UNCHANGED vars
  BY <1>4, <1>11 DEF Tick, vars
<1> QED
  BY <1>5, <1>6, <1>7, <1>8, <1>9, <1>10, <1>11 DEF Next, Finished

(* The version a run reports as clean is the newest it could have chosen.    *)
THEOREM NewestSafeIsChosen == Spec => []NewestSafeVersionWins
<1>1. Init => NewestSafeVersionWins
  BY DEF Init, NewestSafeVersionWins, Done
<1>2. /\ TypeOK /\ TypeOK' /\ MaturePassAhead /\ SearchInv /\ NewestSafeVersionWins
      /\ [Next]_vars
      => NewestSafeVersionWins'
  <2> SUFFICES ASSUME TypeOK, TypeOK', MaturePassAhead, SearchInv, NewestSafeVersionWins,
                      [Next]_vars, phase' = "done", Clean(checked[selected])',
                      NEW c \in Candidates', Eligible(c)', Mature(c, 0)'
               PROVE  /\ (c < selected)' => Refused(c)'
                      /\ ~Mature(selected, clock)' =>
                           \/ IsChecked(c)' /\ ~Clean(checked[c])'
                           \/ \E d \in Candidates' : d < c /\ EndsPass(d)'
    BY DEF NewestSafeVersionWins, Done, Refused, EndsPass
  <2>0. registry' = registry /\ c \in Candidates /\ Candidates' = Candidates
    BY StepKeepsRegistry DEF Candidates
  <2>1. OldEnough(c)
    BY <2>0, StepKeepsVerdicts DEF OldEnough
  <2>2. PICK n \in Nat \ {0} : Candidates = 1 .. n
    BY RegistryShape DEF TypeOK
  <2>3. /\ next \in Nat /\ cutoffAt \in Nat /\ clock \in Nat /\ cutoffAt <= clock
        /\ registry \in Registries /\ selected \in Candidates
    BY ConstantsAssumption DEF TypeOK
  <2>4. ASSUME clock' = clock PROVE Mature(selected, clock)' <=> Mature(selected', clock)
    BY <2>0, <2>4 DEF Mature, AgeAt
  <2>5. CASE CheckMature
    <3>1. /\ phase = "mature" /\ next \in Candidates /\ Mature(next, cutoffAt)
          /\ clock' = clock /\ selected' = next
      BY <2>5 DEF CheckMature, PassOver, Choose, StartFresh
    <3>2. Mature(next, clock)
      BY <2>3, <3>1, OlderIsMature
    <3>3. c < next => Refused(c)'
      BY <2>0, <2>1, <3>1, StepKeepsVerdicts DEF SearchInv
    <3> QED
      BY <2>4, <3>1, <3>2, <3>3
  <2>6. CASE CheckFresh
    <3>1. phase = "fresh" /\ next \in Candidates /\ ~Mature(next, cutoffAt)
      BY <2>6 DEF CheckFresh, PassOver
    <3>2. selected' = next
      BY <2>6, <3>1 DEF CheckFresh, Choose
    <3>3. ~(c < next)
      BY <2>0, <2>1, <2>2, <2>3, <3>1, OlderIsMature DEF OldEnough
    <3>4. Refused(c)' \/ \E d \in Candidates : d <= c /\ EndsPass(d)'
      BY <2>0, <2>1, <3>1, StepKeepsVerdicts DEF SearchInv
    <3>5. Refused(c)' \/ EndsPass(c)' => IsChecked(c)' /\ ~Clean(checked[c])'
      BY DEF Refused, EndsPass, Clean
    <3>6. ASSUME NEW d \in Candidates, d <= c PROVE d < c \/ d = c
      BY <2>0, <2>2, <3>6
    <3> QED
      BY <2>0, <3>2, <3>3, <3>4, <3>5, <3>6
  <2>7. CASE FreshPassFails
    <3>1. phase = "fresh" /\ clock' = clock /\ selected' = selected
      BY <2>7 DEF FreshPassFails
    <3>2. selected \in NewestMature(0)
      BY <2>0, <2>1, <2>3, <3>1, NewestMatureExists DEF OldEnough, SearchInv
    <3>3. ~(c < selected) /\ Mature(selected, 0)
      BY <2>0, <2>1, <3>2 DEF NewestMature, OldEnough
    <3>4. Mature(selected, clock)
      BY <2>2, <2>3, <3>3, OlderIsMature
    <3> QED
      BY <2>4, <3>1, <3>3, <3>4
  <2>8. CASE UNCHANGED vars
    <3>1. NewestSafeVersionWins' <=> NewestSafeVersionWins
      BY <2>8 DEF vars, NewestSafeVersionWins, Done, Clean, Candidates, Eligible, Mature,
                  AgeAt, IsChecked
    <3> QED
      BY <3>1 DEF NewestSafeVersionWins, Done, Refused, EndsPass
  <2>9. CASE phase' # "done"
    BY <2>9
  <2> QED
    BY <2>5, <2>6, <2>7, <2>8, <2>9
       DEF Next, BeginFollow, SkipCandidate, MaturePassFails, StartFresh, Tick, Finished
<1> QED
  BY <1>1, <1>2, SearchInvInit, SearchInvStep, TypeCorrect, MaturePassAheadInv, PTL DEF Spec

(* A failed refresh that did not end the search is known to be about another *)
(* version than ResolveVersion's choice only when that one is refused.       *)
QuietInv ==
  /\ phase \in {"resolved", "mature"} => \A c \in Candidates : ~EndsPass(c)
  /\ phase = "fresh" /\ clock = 0 /\ (\E c \in Candidates : EndsPass(c)) =>
       \A m \in NewestMature(0) : IsChecked(m) /\ ~Clean(checked[m])

LEMMA QuietInvStep ==
  ASSUME TypeOK, MaturePassAhead, SearchInv, QuietInv, [Next]_vars
  PROVE  QuietInv'
<1>0. registry' = registry /\ Candidates' = Candidates
  BY StepKeepsRegistry DEF Candidates
<1>1. NewestMature(0)' = NewestMature(0) /\ NewestMature(0) \subseteq Candidates
  BY <1>0 DEF NewestMature, Eligible, Mature, AgeAt
<1>2. PICK n \in Nat \ {0} : Candidates = 1 .. n
  BY RegistryShape DEF TypeOK
<1>3. next \in Nat /\ cutoffAt \in Nat /\ clock \in Nat /\ cutoffAt <= clock
  BY ConstantsAssumption DEF TypeOK
<1>4. ASSUME NEW m \in NewestMature(0), IsChecked(m), ~Clean(checked[m])
      PROVE  IsChecked(m)' /\ ~Clean(checked[m])'
  <2>1. checked'[m] = checked[m]
    BY <1>1, <1>4, StepKeepsAnswers
  <2> QED
    BY <1>4, <2>1 DEF IsChecked, Clean
<1>5. CASE checked' = checked /\ clock' = clock /\ phase' = phase
  BY <1>0, <1>1, <1>5 DEF QuietInv, EndsPass, IsChecked, Clean
<1>6. CASE BeginFollow \/ MaturePassFails
  BY <1>0, <1>6 DEF BeginFollow, MaturePassFails, StartFresh, QuietInv, EndsPass, IsChecked
<1>7. CASE CheckMature
  <2>1. PICK o \in Outcomes :
          /\ Check(next, o)
          /\ IF o.failed THEN StartFresh
             ELSE IF o.advisories = {} THEN Choose(next)
             ELSE Advance /\ UNCHANGED << phase, cutoffAt, selected, ageDays >>
    BY <1>7 DEF CheckMature
  <2>2. /\ phase = "mature" /\ next \in Candidates /\ clock' = clock
        /\ Eligible(next) /\ Mature(next, cutoffAt)
    BY <1>7 DEF CheckMature, PassOver
  <2>3. /\ checked'[next] = o
        /\ \A c \in Candidates \ {next} : checked'[c] = checked[c]
    BY <2>1, <2>2 DEF Check, TypeOK
  <2>4. CASE o.failed
    <3>1. phase' = "fresh"
      BY <2>1, <2>4 DEF StartFresh
    <3>2. ASSUME clock = 0, NEW m \in NewestMature(0)
          PROVE  IsChecked(m)' /\ ~Clean(checked[m])'
      <4>1. OldEnough(next)
        BY <1>3, <2>2, <3>2 DEF OldEnough
      <4>2. m \in Candidates /\ OldEnough(m) /\ ~(next < m)
        BY <2>2, <3>2, <4>1 DEF NewestMature, OldEnough
      <4>3. CASE m = next
        BY <2>3, <2>4, <4>3, OutcomeFacts DEF IsChecked, Clean
      <4>4. CASE m < next
        <5>1. Refused(m)
          BY <2>2, <4>2, <4>4 DEF SearchInv
        <5> QED
          BY <1>4, <3>2, <5>1 DEF Refused, Clean
      <4> QED
        BY <1>2, <2>2, <4>2, <4>3, <4>4
    <3> QED
      BY <1>1, <2>2, <3>1, <3>2 DEF QuietInv
  <2>5. CASE ~o.failed
    <3>1. phase' \in {"mature", "done"}
      BY <2>1, <2>2, <2>5 DEF Choose
    <3>2. ASSUME NEW c \in Candidates PROVE ~EndsPass(c)'
      BY <2>2, <2>3, <2>5 DEF QuietInv, EndsPass, IsChecked
    <3> QED
      BY <1>0, <3>1, <3>2 DEF QuietInv
  <2> QED
    BY <2>4, <2>5
<1>8. CASE CheckFresh
  <2>1. phase = "fresh" /\ clock' = clock
    BY <1>8 DEF CheckFresh
  <2>2. phase' \in {"fresh", "done"}
    BY <1>8, <2>1 DEF CheckFresh, Choose
  <2>3. ASSUME clock = 0, NEW m \in NewestMature(0),
               NEW c \in Candidates, EndsPass(c)'
        PROVE  IsChecked(m)' /\ ~Clean(checked[m])'
    <3>1. CASE \E d \in Candidates : EndsPass(d)
      BY <1>4, <2>1, <2>3, <3>1 DEF QuietInv
    <3>2. CASE \A d \in Candidates : ~EndsPass(d)
      <4>1. m \in Candidates /\ OldEnough(m)
        BY <2>3 DEF NewestMature, OldEnough
      <4>2. Refused(m)
        BY <2>1, <3>2, <4>1 DEF SearchInv
      <4> QED
        BY <1>4, <2>3, <4>2 DEF Refused, Clean
    <3> QED
      BY <3>1, <3>2
  <2> QED
    BY <1>0, <1>1, <2>1, <2>2, <2>3 DEF QuietInv
<1>9. CASE FreshPassFails
  BY <1>9 DEF FreshPassFails, QuietInv
<1>10. CASE Tick
  <2>1. clock' # 0 /\ phase' = phase /\ checked' = checked
    BY <1>3, <1>10 DEF Tick
  <2> QED
    BY <1>0, <2>1 DEF QuietInv, EndsPass, IsChecked
<1> QED
  BY <1>5, <1>6, <1>7, <1>8, <1>9, <1>10 DEF Next, Finished, SkipCandidate, vars

(* What holds of a failed check instead of RefreshFailureBlocks: it is at    *)
(* least prompted for, while no half day passes and unless only a removed    *)
(* version was left to select.                                               *)
FailedRefreshIsNoticed ==
  Done /\ clock = 0 /\ Eligible(selected) /\ (\E c \in Candidates : EndsPass(c)) =>
    Verdict # Allow

(* No run lets a version through in silence after a check failed: the fresh  *)
(* pass that follows selects one inside the window, and the fallback keeps   *)
(* one that was refused or whose own check failed.                           *)
THEOREM FailedRefreshesAreNoticed ==
  ASSUME ClockNearlyRight
  PROVE  Spec => []FailedRefreshIsNoticed
<1>1. Init => FailedRefreshIsNoticed /\ QuietInv
  BY DEF Init, FailedRefreshIsNoticed, QuietInv, Done, EndsPass, IsChecked
<1>2. /\ TypeOK /\ TypeOK' /\ MaturePassAhead /\ SearchInv /\ QuietInv
      /\ AllowedIsMatureAndClean' /\ FailedRefreshIsNoticed /\ [Next]_vars
      => FailedRefreshIsNoticed'
  <2> SUFFICES ASSUME TypeOK, TypeOK', MaturePassAhead, SearchInv, QuietInv,
                      FailedRefreshIsNoticed, [Next]_vars,
                      phase' = "done", clock' = 0, Eligible(selected)',
                      NEW c \in Candidates', EndsPass(c)',
                      Verdict' = Allow, IsChecked(selected)', Clean(checked[selected])',
                      Mature(selected, clock)'
               PROVE  FALSE
    BY DEF FailedRefreshIsNoticed, AllowedIsMatureAndClean, Done
  <2>0. /\ registry' = registry /\ c \in Candidates /\ Candidates' = Candidates
        /\ registry \in Registries /\ selected \in Candidates
        /\ cutoffAt \in Nat /\ clock \in Nat /\ cutoffAt <= clock
    BY StepKeepsRegistry, ConstantsAssumption DEF Candidates, TypeOK
  <2>1. Eligible(selected') /\ Mature(selected', 0)
    BY <2>0 DEF Eligible, Mature, AgeAt
  <2>2. CASE CheckMature
    <3>1. PICK o \in Outcomes :
            Check(next, o) /\ IF o.failed THEN StartFresh
                              ELSE IF o.advisories = {} THEN Choose(next)
                              ELSE phase' = phase
      BY <2>2 DEF CheckMature
    <3>2. phase = "mature" /\ ~o.failed
      BY <2>2, <3>1 DEF CheckMature, StartFresh
    <3>3. (c = next /\ checked'[c] = o) \/ checked'[c] = checked[c]
      BY <2>0, <3>1 DEF Check, TypeOK
    <3> QED
      BY <2>0, <3>2, <3>3 DEF QuietInv, EndsPass, IsChecked
  <2>3. CASE CheckFresh
    <3>1. /\ phase = "fresh" /\ clock' = clock /\ next \in Candidates
          /\ ~Mature(next, cutoffAt) /\ cutoffAt = 0
      BY <2>0, <2>3 DEF CheckFresh, PassOver
    <3>2. selected' = next
      BY <2>3, <3>1 DEF CheckFresh, Choose
    <3> QED
      BY <2>1, <3>1, <3>2
  <2>4. CASE FreshPassFails
    <3>1. PICK o : Check(selected, o)
      BY <2>4 DEF FreshPassFails
    <3>2. phase = "fresh" /\ clock = 0 /\ selected' = selected
      BY <2>4 DEF FreshPassFails
    <3>3. selected \in NewestMature(0)
      BY <2>0, <2>1, <3>2, NewestMatureExists DEF SearchInv
    <3>4. c # selected
      BY <3>2 DEF EndsPass, Clean
    <3>5. EndsPass(c)
      BY <2>0, <3>1, <3>4 DEF Check, EndsPass, IsChecked, TypeOK
    <3>6. IsChecked(selected) /\ ~Clean(checked[selected])
      BY <2>0, <3>2, <3>3, <3>5 DEF QuietInv
    <3>7. checked'[selected] = checked[selected]
      BY <2>0, <3>6, StepKeepsAnswers
    <3> QED
      BY <3>2, <3>6, <3>7 DEF Clean
  <2>5. CASE UNCHANGED vars
    <3>1. /\ Eligible(selected) /\ EndsPass(c) /\ phase = "done" /\ clock = 0
      BY <2>5 DEF vars, Eligible, EndsPass, IsChecked
    <3>2. Verdict' = Verdict
      BY <2>5 DEF vars, Verdict, Reported
    <3> QED
      BY <2>0, <3>1, <3>2 DEF FailedRefreshIsNoticed, Done
  <2>6. CASE phase' # "done"
    BY <2>6
  <2> QED
    BY <2>2, <2>3, <2>4, <2>5, <2>6
       DEF Next, BeginFollow, SkipCandidate, MaturePassFails, StartFresh, Tick, Finished
<1> QED
  BY <1>1, <1>2, SearchInvInit, SearchInvStep, QuietInvStep, TypeCorrect, MaturePassAheadInv,
     AllowedVersionIsMatureAndClean, PTL DEF Spec

=============================================================================
