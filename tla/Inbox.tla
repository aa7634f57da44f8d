------------------------------- MODULE Inbox -------------------------------
(***************************************************************************)
(* The review inbox (inbox.go, inbox_llm.go, llm_cache.go): processes that *)
(* ask a local model to review a recorded run, approve its artifacts, or   *)
(* mark it, over the shared event log, the approvals file and the cache of *)
(* reviews.                                                                *)
(*                                                                         *)
(* Reading the log and appending to it are single steps, as EventLog shows *)
(* of events whose writes are not cut; adding and revoking an approval are *)
(* single steps, as ApprovalStore shows; the file of a cached review is    *)
(* replaced by a rename.  A run has one identifier and one report, so an   *)
(* event of a run is one about its evidence.  A call that fails, or whose  *)
(* process dies, leaves behind what it has done so far.                    *)
(***************************************************************************)
EXTENDS Sequences, FiniteSets, Policy

CONSTANTS
  Procs,      \* processes that run `lsec inbox` at the same time
  Runs,       \* recorded runs
  Models,     \* models a review may ask
  Packages,   \* exact ecosystem, name, version and hash of an artifact
  Reports,    \* the reports a run may have
  Limits,     \* how many runs a list may be asked for
  None,       \* no run, no model: an approval added by hand, an idle process
  MaxEvents   \* bound on the length of the log

\* What the inbox looks at in a report: the artifacts that have an ecosystem, a
\* name, a version and a well-formed hash; `exact`: there are no others.
Report == [verdict : Verdicts, artifacts : SUBSET Packages, exact : BOOLEAN]

ASSUME InboxAssumption ==
  /\ None \notin Runs /\ None \notin Models
  /\ Reports \subseteq Report
  /\ Limits \subseteq Nat \ {0}
  /\ MaxEvents \in Nat

VARIABLES
  report,     \* the report of each run, in the log or still to be recorded
  log,        \* the events about runs, in the order of the lines
  approvals,  \* approvals.json: exact package, and the run named as the reason
  cache,      \* the cached review of each run and model, or "none"
  pc,         \* where each process is
  job,        \* what each process works on
  answers,    \* history: the reviews the models gave
  raced       \* history: the reviews two processes were asking for at once

vars == <<report, log, approvals, cache, pc, job, answers, raced>>

Key == Runs \X Models
Event ==
  [kind : {"report", "inbox_deny", "inbox_view_later"}, run : Runs] \cup
  [kind : {"llm_review"}, run : Runs, model : Models,
   review : Verdicts, effective : Verdicts]
Approval == [pkg : Packages, reason : Runs \cup {None}]

Job == [run : Runs \cup {None}, model : Models \cup {None},
        answer : Verdicts \cup {"none"}, todo : SUBSET Packages, before : 0 .. MaxEvents]
NoJob == [run |-> None, model |-> None, answer |-> "none", todo |-> {}, before |-> 0]

ReviewJob(r, m) ==
  [run |-> r, model |-> m, answer |-> "none", todo |-> {}, before |-> 0]
ApproveJob(r) ==
  [run |-> r, model |-> None, answer |-> "none", todo |-> {}, before |-> Len(log)]

TypeOK ==
  /\ report \in [Runs -> Reports]
  /\ log \in Seq(Event) /\ Len(log) <= MaxEvents
  /\ approvals \subseteq Approval
  /\ cache \in [Key -> Verdicts \cup {"none"}]
  /\ pc \in [Procs -> {"idle", "cache", "ask", "store", "append", "check", "add"}]
  /\ job \in [Procs -> Job]
  /\ answers \subseteq [key : Key, verdict : Verdicts]
  /\ raced \subseteq Key

Init ==
  /\ report \in [Runs -> Reports]
  /\ log = <<>>
  /\ approvals = {}
  /\ cache = [k \in Key |-> "none"]
  /\ pc = [p \in Procs |-> "idle"]
  /\ job = [p \in Procs |-> NoJob]
  /\ answers = {}
  /\ raced = {}
-----------------------------------------------------------------------------
(***************************************************************************)
(* What is read from the log.                                              *)
(***************************************************************************)
\* LoadRunReport finds the run.
Recorded(r) == \E i \in DOMAIN log : log[i].kind = "report" /\ log[i].run = r

ReviewsOf(r, n) == {i \in 1 .. n : log[i].kind = "llm_review" /\ log[i].run = r}

Blocks(e) == e.review = Block \/ e.effective = Block

\* A variant of a definition (named after it, with a suffix) is a bug the
\* properties below must notice.
ReviewBlocks_First(r, n) ==
  \E i \in ReviewsOf(r, n) : Blocks(log[i]) /\ \A j \in ReviewsOf(r, n) : i <= j

\* latestLLMReviewBlocksApproval, when the log had n events.
ReviewBlocks(r, n) ==
  \E i \in ReviewsOf(r, n) : Blocks(log[i]) /\ \A j \in ReviewsOf(r, n) : j <= i

IsMarker(e) == e.kind \in {"inbox_deny", "inbox_view_later"}

\* The last marker of a run counts (loadInboxRuns).
Denied(r) ==
  \E i \in DOMAIN log :
    /\ log[i].kind = "inbox_deny" /\ log[i].run = r
    /\ \A j \in DOMAIN log : IsMarker(log[j]) /\ log[j].run = r => j <= i

Approved(pkg) == \E a \in approvals : a.pkg = pkg

\* A run that awaits a decision: prompted for, not denied, with an exact
\* artifact that has no approval.
Pending(r) ==
  /\ Recorded(r) /\ ~Denied(r)
  /\ report[r].verdict = Prompt
  /\ \E pkg \in report[r].artifacts : ~Approved(pkg)

\* The list starts with the report recorded last.
Newer(q, r) ==
  \E i, j \in DOMAIN log : /\ log[i].kind = "report" /\ log[i].run = q
                          /\ log[j].kind = "report" /\ log[j].run = r
                          /\ j < i

\* Wrong variant: the limit is one on the runs looked at.
Listed_OfNewest(r, limit) ==
  Pending(r) /\ Cardinality({q \in Runs : Newer(q, r)}) < limit

\* The runs `lsec inbox <limit>` prints: the newest that await a decision.
Listed(r, limit) ==
  Pending(r) /\ Cardinality({q \in Runs : Pending(q) /\ Newer(q, r)}) < limit
-----------------------------------------------------------------------------
HasRoom == Len(log) < MaxEvents

\* A preflight, guard or evidence command records its report.
Record(r) ==
  /\ ~Recorded(r) /\ HasRoom
  /\ log' = Append(log, [kind |-> "report", run |-> r])
  /\ UNCHANGED <<report, approvals, cache, pc, job, answers, raced>>

\* runInboxMark: the report must be there; a later marker replaces an earlier.
Mark(r) ==
  /\ Recorded(r) /\ HasRoom
  /\ \E kind \in {"inbox_deny", "inbox_view_later"} :
       log' = Append(log, [kind |-> kind, run |-> r])
  /\ UNCHANGED <<report, approvals, cache, pc, job, answers, raced>>

Added(pkg, reason) == {a \in approvals : a.pkg # pkg} \cup {[pkg |-> pkg, reason |-> reason]}

\* `lsec approvals add` and `lsec approvals revoke`.
AddByHand(pkg) ==
  /\ approvals' = Added(pkg, None)
  /\ UNCHANGED <<report, log, cache, pc, job, answers, raced>>

Revoke(pkg) ==
  /\ approvals' = {a \in approvals : a.pkg # pkg}
  /\ UNCHANGED <<report, log, cache, pc, job, answers, raced>>

Leave(p) ==
  /\ pc' = [pc EXCEPT ![p] = "idle"]
  /\ job' = [job EXCEPT ![p] = NoJob]

\* Any step of a call returns an error, or its process dies.  A model that
\* does not answer in time or in the form asked for is one such error.
Fail(p) ==
  /\ pc[p] # "idle"
  /\ Leave(p)
  /\ UNCHANGED <<report, log, approvals, cache, answers, raced>>
-----------------------------------------------------------------------------
(***************************************************************************)
(* lsec inbox review-llm                                                   *)
(***************************************************************************)
KeyOf(p) == <<job[p].run, job[p].model>>

\* LoadRunReport: a run that is not in the log is an error.
BeginReview(p) ==
  /\ pc[p] = "idle"
  /\ \E r \in Runs, m \in Models :
       /\ Recorded(r)
       /\ job' = [job EXCEPT ![p] = ReviewJob(r, m)]
  /\ pc' = [pc EXCEPT ![p] = "cache"]
  /\ UNCHANGED <<report, log, approvals, cache, answers, raced>>

\* Wrong variant: the key of the cache leaves the evidence out.
CacheHit_AnyRun(p) ==
  /\ pc[p] = "cache"
  /\ \E r \in Runs :
       /\ cache[<<r, job[p].model>>] # "none"
       /\ job' = [job EXCEPT ![p].answer = cache[<<r, job[p].model>>]]
  /\ pc' = [pc EXCEPT ![p] = "append"]
  /\ UNCHANGED <<report, log, approvals, cache, answers, raced>>

CacheHit(p) ==
  /\ pc[p] = "cache" /\ cache[KeyOf(p)] # "none"
  /\ job' = [job EXCEPT ![p].answer = cache[KeyOf(p)]]
  /\ pc' = [pc EXCEPT ![p] = "append"]
  /\ UNCHANGED <<report, log, approvals, cache, answers, raced>>

CacheMiss(p) ==
  /\ pc[p] = "cache" /\ cache[KeyOf(p)] = "none"
  /\ pc' = [pc EXCEPT ![p] = "ask"]
  /\ raced' = raced \cup {k \in {KeyOf(p)} :
                            \E q \in Procs : pc[q] \in {"ask", "store"} /\ KeyOf(q) = k}
  /\ UNCHANGED <<report, log, approvals, cache, job, answers>>

\* Wrong variant: the verdict of the model's output is not validated.
Answer_Unvalidated(p) ==
  /\ pc[p] = "ask"
  /\ \E verdict \in Verdicts \cup {"deny"} :
       /\ job' = [job EXCEPT ![p].answer = verdict]
       /\ answers' = answers \cup {[key |-> KeyOf(p), verdict |-> verdict]}
  /\ pc' = [pc EXCEPT ![p] = "store"]
  /\ UNCHANGED <<report, log, approvals, cache, raced>>

\* ReviewWithOllama: the model gives any verdict ValidateLLMReview accepts.
Answer(p) ==
  /\ pc[p] = "ask"
  /\ \E verdict \in Verdicts :
       /\ job' = [job EXCEPT ![p].answer = verdict]
       /\ answers' = answers \cup {[key |-> KeyOf(p), verdict |-> verdict]}
  /\ pc' = [pc EXCEPT ![p] = "store"]
  /\ UNCHANGED <<report, log, approvals, cache, raced>>

\* Wrong variant: the error of cache.Store is ignored, as that of the mirror.
StoreReview_BestEffort(p) ==
  /\ pc[p] = "store"
  /\ cache' \in {cache, [cache EXCEPT ![KeyOf(p)] = job[p].answer]}
  /\ pc' = [pc EXCEPT ![p] = "append"]
  /\ UNCHANGED <<report, log, approvals, job, answers, raced>>

\* cache.Store: a temporary file renamed over the entry, whatever it holds now.
StoreReview(p) ==
  /\ pc[p] = "store"
  /\ cache' = [cache EXCEPT ![KeyOf(p)] = job[p].answer]
  /\ pc' = [pc EXCEPT ![p] = "append"]
  /\ UNCHANGED <<report, log, approvals, job, answers, raced>>

ReviewEvent(p) ==
  [kind |-> "llm_review", run |-> job[p].run, model |-> job[p].model,
   review |-> job[p].answer,
   effective |-> ApplyLLMReview(report[job[p].run].verdict, job[p].answer)]

AppendReview(p) ==
  /\ pc[p] = "append" /\ HasRoom
  /\ log' = Append(log, ReviewEvent(p))
  /\ Leave(p)
  /\ UNCHANGED <<report, approvals, cache, answers, raced>>
-----------------------------------------------------------------------------
(***************************************************************************)
(* lsec inbox approve-once                                                 *)
(***************************************************************************)
\* Wrong variant: the verdict of the report is not looked at.
BeginApprove_AnyVerdict(p) ==
  /\ pc[p] = "idle"
  /\ \E r \in Runs :
       /\ Recorded(r)
       /\ job' = [job EXCEPT ![p] = ApproveJob(r)]
  /\ pc' = [pc EXCEPT ![p] = "check"]
  /\ UNCHANGED <<report, log, approvals, cache, answers, raced>>

\* LoadRunReport: a run that is not in the log, or blocked, is an error.
BeginApprove(p) ==
  /\ pc[p] = "idle"
  /\ \E r \in Runs :
       /\ Recorded(r) /\ report[r].verdict # Block
       /\ job' = [job EXCEPT ![p] = ApproveJob(r)]
  /\ pc' = [pc EXCEPT ![p] = "check"]
  /\ UNCHANGED <<report, log, approvals, cache, answers, raced>>

\* Wrong variant: the first review of the run is taken for the latest.
Approvable_FirstReview(p) ==
  LET rep == report[job[p].run] IN
  ~ReviewBlocks_First(job[p].run, Len(log)) /\ rep.artifacts # {} /\ rep.exact

Approvable(p) ==
  LET rep == report[job[p].run] IN
  ~ReviewBlocks(job[p].run, Len(log)) /\ rep.artifacts # {} /\ rep.exact

CheckReviews(p) ==
  /\ pc[p] = "check"
  /\ IF Approvable(p)
     THEN /\ job' = [job EXCEPT ![p].todo = report[job[p].run].artifacts]
          /\ pc' = [pc EXCEPT ![p] = "add"]
     ELSE Leave(p)
  /\ UNCHANGED <<report, log, approvals, cache, answers, raced>>

\* One AddApproval after another, in any order the report lists them.
AddNext(p) ==
  /\ pc[p] = "add"
  /\ \E pkg \in job[p].todo :
       /\ approvals' = Added(pkg, job[p].run)
       /\ IF job[p].todo = {pkg} THEN Leave(p)
          ELSE /\ job' = [job EXCEPT ![p].todo = @ \ {pkg}]
               /\ UNCHANGED pc
  /\ UNCHANGED <<report, log, cache, answers, raced>>
-----------------------------------------------------------------------------
Next ==
  \/ \E r \in Runs : Record(r) \/ Mark(r)
  \/ \E pkg \in Packages : AddByHand(pkg) \/ Revoke(pkg)
  \/ \E p \in Procs :
       \/ BeginReview(p) \/ CacheHit(p) \/ CacheMiss(p) \/ Answer(p)
       \/ StoreReview(p) \/ AppendReview(p)
       \/ BeginApprove(p) \/ CheckReviews(p) \/ AddNext(p) \/ Fail(p)

Spec == Init /\ [][Next]_vars
-----------------------------------------------------------------------------
(***************************************************************************)
(* Properties.                                                             *)
(***************************************************************************)
\* Whatever reviews say and however calls are cut short, an approval that
\* names a run is for an artifact of that run, and the run was not blocked.
ApprovalsHaveTheirRun ==
  \A a \in approvals : a.reason # None =>
    /\ Recorded(a.reason) /\ report[a.reason].verdict # Block
    /\ report[a.reason].exact /\ a.pkg \in report[a.reason].artifacts

\* approve-once adds approvals only if, at some moment since it began, the
\* latest review did not block: a block that stood all along is not missed.
StandingBlockRefuses ==
  \A p \in Procs : pc[p] = "add" =>
    \E n \in job[p].before .. Len(log) : ~ReviewBlocks(job[p].run, n)

\* A recorded review is one the model it names gave for the evidence it names,
\* also when it comes from the cache, and it never softens the report.
ReviewsAreAnswers ==
  \A i \in DOMAIN log : log[i].kind = "llm_review" =>
    /\ [key |-> <<log[i].run, log[i].model>>, verdict |-> log[i].review] \in answers
    /\ Rank(log[i].effective) >= Rank(report[log[i].run].verdict)

\* Unless two processes were asking at once, one model's reviews of one run
\* never disagree, whatever failed or died: the answer is in the cache before
\* any event of it is in the log.
ReviewsAgreeUnlessRaced ==
  \A i \in DOMAIN log :
    log[i].kind = "llm_review" /\ <<log[i].run, log[i].model>> \notin raced =>
      log[i].review = cache[<<log[i].run, log[i].model>>]

\* What calls for a decision about a run, and what settles it: its own events,
\* and approvals of its own artifacts.
LastEvent(kinds, r) ==
  log' # log /\ LET last == log'[Len(log')] IN last.kind \in kinds /\ last.run = r

Raised(r) ==
  \/ LastEvent({"report", "inbox_view_later"}, r)
  \/ \E pkg \in report[r].artifacts : Approved(pkg) /\ ~Approved(pkg)'

Settled(r) ==
  \/ LastEvent({"inbox_deny"}, r)
  \/ \E pkg \in report[r].artifacts : ~Approved(pkg) /\ Approved(pkg)'

FollowsDecisions ==
  \A r \in Runs, limit \in Limits :
    /\ Listed(r, limit) /\ ~Listed(r, limit)' =>
         Settled(r) \/ \E q \in Runs : Newer(q, r)' /\ Pending(q)' /\ Raised(q)
    /\ ~Listed(r, limit) /\ Listed(r, limit)' =>
         Raised(r) \/ \E q \in Runs : Newer(q, r) /\ Pending(q) /\ Settled(q)

\* However long the list asked for, a run leaves it only when it is settled
\* itself or a newer run that is raised takes its place, and comes onto it only
\* when it is raised itself or a newer run makes place by being settled: no
\* review, nor a settled run, nor an older one hides it or brings it back.
ListFollowsDecisions == [][FollowsDecisions]_vars

=============================================================================
