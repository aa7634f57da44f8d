------------------------------- MODULE Policy -------------------------------
(* The verdict rules of policy.go, as operators: what one signal is worth,   *)
(* what a whole report is worth (Evaluate), and how an LLM review may change *)
(* a verdict already reached (ApplyLLMReview).                               *)
(*                                                                           *)
(* Evaluate reads lists of findings, advisories and risk flags but its       *)
(* verdict depends only on which kinds occur in them, so a report's signals  *)
(* are sets of kinds.  Reasons are wording and are left out.                 *)
EXTENDS Integers

Allow  == "allow"
Prompt == "prompt"
Block  == "block"
Verdicts == {Allow, Prompt, Block}

(* Findings and risk flags carry a severity string; anything that is not     *)
(* "block" or "prompt" ("info") does not count.                              *)
Severities == {"info", "prompt", "block"}
(* An advisory blocks when its type is malware or its severity critical;     *)
(* every other one, of unknown severity too, prompts.                        *)
AdvisoryKinds == {"malware", "critical", "other"}

MaturityDays == 7

SeverityVerdict(severity) ==
  IF severity = "block" THEN Block
  ELSE IF severity = "prompt" THEN Prompt
  ELSE Allow

AdvisoryVerdict(kind) ==
  IF kind \in {"malware", "critical"} THEN Block ELSE Prompt

HasBlockingSeverity(severities) ==
  \E s \in severities : SeverityVerdict(s) = Block

HasBlockingAdvisory(advisories) ==
  \E a \in advisories : AdvisoryVerdict(a) = Block

HasPromptingSeverity(severities) ==
  \E s \in severities : SeverityVerdict(s) = Prompt

(* What Evaluate looks at: the analysis (remoteShell, flags, bareDownloader: *)
(* curl or wget without a URL), the version (found, ageDays) and what the    *)
(* checks reported.                                                          *)
Signals ==
  [ remoteShell    : BOOLEAN,
    flags          : SUBSET Severities,
    bareDownloader : BOOLEAN,
    found          : BOOLEAN,
    ageDays        : Int,
    findings       : SUBSET Severities,
    advisories     : SUBSET AdvisoryKinds ]

InsideMaturityWindow(s) ==
  s.found /\ s.ageDays >= 0 /\ s.ageDays < MaturityDays

(* Policy.Evaluate: the tests in the order of the code, each block an early  *)
(* return; what is left prompts when any signal does.                        *)
Evaluate(s) ==
  IF s.remoteShell THEN Block
  ELSE IF HasBlockingSeverity(s.findings) THEN Block
  ELSE IF HasBlockingAdvisory(s.advisories) THEN Block
  ELSE IF HasBlockingSeverity(s.flags) THEN Block
  ELSE IF \/ HasPromptingSeverity(s.findings)
          \/ s.advisories # {}
          \/ InsideMaturityWindow(s)
          \/ HasPromptingSeverity(s.flags)
          \/ s.bareDownloader
  THEN Prompt
  ELSE Allow

ApplyLLMReview(verdict, review) ==
  IF verdict = Block THEN Block
  ELSE LET first == IF verdict = Allow /\ review \in {Prompt, Block}
                    THEN review ELSE verdict
       IN  IF first = Prompt /\ review = Block THEN Block ELSE first

Rank(verdict) == IF verdict = Block THEN 2 ELSE IF verdict = Prompt THEN 1 ELSE 0

(* One report's signals contain another's: nothing disappeared and the       *)
(* command and the version are the same.                                     *)
Extends(s, t) ==
  /\ t.remoteShell = s.remoteShell
  /\ t.flags = s.flags
  /\ t.bareDownloader = s.bareDownloader
  /\ t.found = s.found
  /\ t.ageDays = s.ageDays
  /\ s.findings \subseteq t.findings
  /\ s.advisories \subseteq t.advisories
=============================================================================
