---------------------------- MODULE InboxProofs ----------------------------
(* Theorems about Inbox, for any processes, runs, models and artifacts.      *)
EXTENDS Inbox, FiniteSetTheorems, SequenceTheorems, TLAPS

Reviewing(p) == pc[p] \in {"cache", "ask", "store", "append"}
Asking(p)    == pc[p] \in {"ask", "store"}
Approving(p) == pc[p] \in {"check", "add"}

\* What a process works on while it is in a call.
JobInv ==
  /\ \A p \in Procs : Reviewing(p) => job[p].run \in Runs /\ job[p].model \in Models
  /\ \A p \in Procs : Approving(p) =>
       /\ job[p].run \in Runs /\ Recorded(job[p].run)
       /\ report[job[p].run].verdict # Block
  /\ \A p \in Procs : pc[p] = "add" =>
       report[job[p].run].exact /\ job[p].todo \subseteq report[job[p].run].artifacts

\* Nothing is passed on, cached or recorded that no model said.
AnswerInv ==
  /\ \A p \in Procs : pc[p] \in {"store", "append"} =>
       /\ job[p].answer \in Verdicts
       /\ [key |-> KeyOf(p), verdict |-> job[p].answer] \in answers
  /\ \A k \in Key : cache[k] # "none" => [key |-> k, verdict |-> cache[k]] \in answers

\* An unraced entry of the cache is what every review of it says, and while a
\* process asks for it the entry is empty and nobody else asks.
AgreeInv ==
  /\ \A p \in Procs : pc[p] = "append" /\ KeyOf(p) \notin raced => job[p].answer = cache[KeyOf(p)]
  /\ \A p \in Procs : Asking(p) /\ KeyOf(p) \notin raced => cache[KeyOf(p)] = "none"
  /\ \A p, q \in Procs : Asking(p) /\ Asking(q) /\ KeyOf(p) = KeyOf(q) /\ KeyOf(p) \notin raced
       => p = q

\* The approval of a run began at a length the log has reached.
BeforeInv == \A p \in Procs : Approving(p) => job[p].before \in 0 .. Len(log)

LEMMA KeyType ==
  ASSUME JobInv, NEW p \in Procs, Reviewing(p)
  PROVE  KeyOf(p) \in Key
BY DEF JobInv, KeyOf, Key

\* The log only grows, by one event at a time.
Grows == log' = log \/ \E e : log' = Append(log, e)

LEMMA LogGrows ==
  ASSUME [Next]_vars
  PROVE  Grows /\ report' = report
<1>1. ASSUME NEW r \in Runs, Record(r) \/ Mark(r) PROVE \E e : log' = Append(log, e)
  BY <1>1 DEF Record, Mark
<1>2. ASSUME NEW p \in Procs, AppendReview(p) PROVE \E e : log' = Append(log, e)
  BY <1>2 DEF AppendReview
<1> QED
  BY <1>1, <1>2
     DEF Grows, Next, vars, Record, Mark, AddByHand, Revoke, BeginReview, CacheHit, CacheMiss,
         Answer, StoreReview, AppendReview, BeginApprove, CheckReviews, AddNext, Fail

LEMMA AppendKeeps ==
  ASSUME NEW S, NEW s \in Seq(S), NEW e
  PROVE  /\ Len(s) \in Nat /\ DOMAIN s = 1 .. Len(s)
         /\ Len(Append(s, e)) = Len(s) + 1 /\ DOMAIN Append(s, e) = 1 .. (Len(s) + 1)
         /\ \A i \in 1 .. Len(s) : Append(s, e)[i] = s[i]
         /\ Append(s, e)[Len(s) + 1] = e
<1>1. s \in Seq(S \cup {e}) /\ e \in S \cup {e}
  OBVIOUS
<1> QED
  BY <1>1, AppendProperties

\* What is in the log stays where it is.
LEMMA LogKeeps ==
  ASSUME TypeOK, Grows
  PROVE  /\ Len(log) \in Nat /\ DOMAIN log = 1 .. Len(log)
         /\ Len(log') \in Nat /\ DOMAIN log' = 1 .. Len(log') /\ Len(log) <= Len(log')
         /\ \A i \in 1 .. Len(log) : log'[i] = log[i]
<1>1. log \in Seq(Event)
  BY DEF TypeOK
<1>2. Len(log) \in Nat /\ DOMAIN log = 1 .. Len(log)
  BY <1>1
<1>3. CASE log' = log
  BY <1>2, <1>3
<1>4. ASSUME NEW e, log' = Append(log, e)
      PROVE  /\ Len(log') = Len(log) + 1 /\ DOMAIN log' = 1 .. Len(log')
             /\ \A i \in 1 .. Len(log) : log'[i] = log[i]
  BY <1>1, <1>4, AppendKeeps
<1> QED
  BY <1>2, <1>3, <1>4 DEF Grows

\* What was read from the log stays true of the part that was read.
LEMMA PrefixStays ==
  ASSUME TypeOK, Grows
  PROVE  /\ \A r \in Runs : Recorded(r) => Recorded(r)'
         /\ \A r \in Runs : \A n \in 0 .. Len(log) : ReviewBlocks(r, n)' <=> ReviewBlocks(r, n)
<1> DEFINE m == Len(log)
<1>1. /\ m \in Nat /\ DOMAIN log = 1 .. m
      /\ Len(log') \in Nat /\ DOMAIN log' = 1 .. Len(log') /\ m <= Len(log')
      /\ \A i \in 1 .. m : log'[i] = log[i]
  BY LogKeeps
<1> HIDE DEF m
<1>2. \A r \in Runs : Recorded(r) => Recorded(r)'
  BY <1>1 DEF Recorded
<1>3. \A r \in Runs : \A n \in 0 .. m : ReviewBlocks(r, n)' <=> ReviewBlocks(r, n)
  <2> SUFFICES ASSUME NEW r \in Runs, NEW n \in 0 .. m
               PROVE  ReviewBlocks(r, n)' <=> ReviewBlocks(r, n)
    OBVIOUS
  <2>1. \A i \in 1 .. n : log'[i] = log[i]
    BY <1>1
  <2>2. ReviewsOf(r, n)' = ReviewsOf(r, n)
    BY <2>1 DEF ReviewsOf
  <2>3. \A i \in ReviewsOf(r, n) : Blocks(log[i])' <=> Blocks(log[i])
    BY <2>1 DEF ReviewsOf, Blocks
  <2> QED
    BY <2>2, <2>3 DEF ReviewBlocks
<1> QED
  BY <1>2, <1>3 DEF m

IInv == TypeOK /\ JobInv /\ AnswerInv /\ BeforeInv

\* A review never softens the verdict of the report (see PreflightProofs).
LEMMA EffectiveType ==
  ASSUME NEW verdict \in Verdicts, NEW review \in Verdicts
  PROVE  /\ ApplyLLMReview(verdict, review) \in Verdicts
         /\ Rank(ApplyLLMReview(verdict, review)) >= Rank(verdict)
BY DEF ApplyLLMReview, Rank, Verdicts, Allow, Prompt, Block

LEMMA InitIInv == Init => IInv
<1> SUFFICES ASSUME Init PROVE IInv
  OBVIOUS
<1> USE InboxAssumption DEF Init
<1>1. TypeOK
  <2>1. log \in Seq(Event) /\ Len(log) <= MaxEvents
    BY EmptySeq
  <2>2. job \in [Procs -> Job]
    BY DEF NoJob, Job
  <2> QED
    BY <2>1, <2>2 DEF TypeOK
<1>2. JobInv /\ BeforeInv
  BY DEF JobInv, BeforeInv, Reviewing, Approving
<1>3. AnswerInv
  BY DEF AnswerInv
<1> QED
  BY <1>1, <1>2, <1>3 DEF IInv

LEMMA NextType == IInv /\ [Next]_vars => TypeOK'
<1> SUFFICES ASSUME IInv, [Next]_vars PROVE TypeOK'
  OBVIOUS
<1> USE InboxAssumption DEF TypeOK
<1>0. TypeOK /\ JobInv /\ AnswerInv /\ NoJob \in Job
  BY DEF IInv, NoJob, Job
<1>l. ASSUME NEW e \in Event, HasRoom, log' = Append(log, e)
      PROVE  log' \in Seq(Event) /\ Len(log') <= MaxEvents
  <2>1. Len(log) \in Nat /\ Len(log') = Len(log) + 1 /\ log' \in Seq(Event)
    BY <1>0, <1>l, AppendProperties
  <2> QED
    BY <1>l, <2>1 DEF HasRoom
<1>1. ASSUME NEW r \in Runs, Record(r) PROVE TypeOK'
  BY <1>0, <1>1, <1>l DEF Record, Event
<1>2. ASSUME NEW r \in Runs, Mark(r) PROVE TypeOK'
  BY <1>0, <1>2, <1>l DEF Mark, Event
<1>3. ASSUME NEW pkg \in Packages, AddByHand(pkg) \/ Revoke(pkg) PROVE TypeOK'
  BY <1>0, <1>3 DEF AddByHand, Revoke, Added, Approval
<1>4. ASSUME NEW p \in Procs, BeginReview(p) PROVE TypeOK'
  <2>1. PICK r \in Runs, m \in Models : job' = [job EXCEPT ![p] = ReviewJob(r, m)]
    BY <1>4 DEF BeginReview
  <2>2. ReviewJob(r, m) \in Job
    BY DEF ReviewJob, Job
  <2> QED
    BY <1>0, <1>4, <2>1, <2>2 DEF BeginReview
<1>5. ASSUME NEW p \in Procs, CacheHit(p) PROVE TypeOK'
  <2>1. KeyOf(p) \in Key
    BY <1>0, <1>5, KeyType DEF CacheHit, Reviewing
  <2>2. [job[p] EXCEPT !.answer = cache[KeyOf(p)]] \in Job
    BY <1>0, <1>5, <2>1 DEF CacheHit, Job
  <2>3. job' = [job EXCEPT ![p] = [job[p] EXCEPT !.answer = cache[KeyOf(p)]]]
    BY <1>0, <1>5 DEF CacheHit
  <2> QED
    BY <1>0, <1>5, <2>2, <2>3 DEF CacheHit
<1>6. ASSUME NEW p \in Procs, CacheMiss(p) PROVE TypeOK'
  <2>1. KeyOf(p) \in Key
    BY <1>0, <1>6, KeyType DEF CacheMiss, Reviewing
  <2> QED
    BY <1>0, <1>6, <2>1 DEF CacheMiss
<1>7. ASSUME NEW p \in Procs, Answer(p) PROVE TypeOK'
  <2>1. KeyOf(p) \in Key
    BY <1>0, <1>7, KeyType DEF Answer, Reviewing
  <2>2. PICK verdict \in Verdicts :
          /\ job' = [job EXCEPT ![p].answer = verdict]
          /\ answers' = answers \cup {[key |-> KeyOf(p), verdict |-> verdict]}
    BY <1>7 DEF Answer
  <2>3. [job[p] EXCEPT !.answer = verdict] \in Job
    BY <1>0 DEF Job
  <2>4. job' = [job EXCEPT ![p] = [job[p] EXCEPT !.answer = verdict]]
    BY <1>0, <2>2
  <2> QED
    BY <1>0, <1>7, <2>1, <2>2, <2>3, <2>4 DEF Answer
<1>8. ASSUME NEW p \in Procs, StoreReview(p) PROVE TypeOK'
  <2>1. job[p].answer \in Verdicts
    BY <1>0, <1>8 DEF StoreReview, AnswerInv
  <2> QED
    BY <1>0, <1>8, <2>1 DEF StoreReview
<1>9. ASSUME NEW p \in Procs, AppendReview(p) PROVE TypeOK'
  <2>1. job[p].answer \in Verdicts /\ job[p].run \in Runs /\ job[p].model \in Models
    BY <1>0, <1>9 DEF AppendReview, AnswerInv, JobInv, Reviewing
  <2>2. report[job[p].run].verdict \in Verdicts
    BY <1>0, <2>1 DEF Report
  <2>3. ReviewEvent(p) \in Event
    BY <2>1, <2>2, EffectiveType DEF ReviewEvent, Event
  <2> QED
    BY <1>0, <1>9, <1>l, <2>3 DEF AppendReview, Leave
<1>10. ASSUME NEW p \in Procs, BeginApprove(p) PROVE TypeOK'
  <2>1. PICK r \in Runs : job' = [job EXCEPT ![p] = ApproveJob(r)]
    BY <1>10 DEF BeginApprove
  <2>2. Len(log) \in 0 .. MaxEvents
    BY <1>0
  <2>3. ApproveJob(r) \in Job
    BY <2>2 DEF ApproveJob, Job
  <2> QED
    BY <1>0, <1>10, <2>1, <2>3 DEF BeginApprove
<1>11. ASSUME NEW p \in Procs, CheckReviews(p) PROVE TypeOK'
  <2>1. job[p].run \in Runs
    BY <1>0, <1>11 DEF CheckReviews, JobInv, Approving
  <2>2. report[job[p].run].artifacts \in SUBSET Packages
    BY <1>0, <2>1 DEF Report
  <2>3. [job[p] EXCEPT !.todo = report[job[p].run].artifacts] \in Job
    BY <1>0, <2>2 DEF Job
  <2>4. CASE Approvable(p)
    <3>1. job' = [job EXCEPT ![p] = [job[p] EXCEPT !.todo = report[job[p].run].artifacts]]
      BY <1>0, <1>11, <2>4 DEF CheckReviews
    <3> QED
      BY <1>0, <1>11, <2>3, <2>4, <3>1 DEF CheckReviews
  <2>5. CASE ~Approvable(p)
    BY <1>0, <1>11, <2>5 DEF CheckReviews, Leave
  <2> QED
    BY <2>4, <2>5
<1>12. ASSUME NEW p \in Procs, AddNext(p) PROVE TypeOK'
  <2>1. PICK pkg \in job[p].todo :
          /\ approvals' = Added(pkg, job[p].run)
          /\ IF job[p].todo = {pkg} THEN Leave(p)
             ELSE job' = [job EXCEPT ![p].todo = @ \ {pkg}] /\ UNCHANGED pc
    BY <1>12 DEF AddNext
  <2>2. job[p].run \in Runs /\ pkg \in Packages
    BY <1>0, <1>12, <2>1 DEF AddNext, JobInv, Approving, Job
  <2>3. approvals' \subseteq Approval
    BY <1>0, <2>1, <2>2 DEF Added, Approval
  <2>4. [job[p] EXCEPT !.todo = job[p].todo \ {pkg}] \in Job
    BY <1>0 DEF Job
  <2>5. job' \in [Procs -> Job] /\ pc' \in [Procs -> {"idle", "cache", "ask", "store", "append", "check", "add"}]
    <3>1. CASE job[p].todo = {pkg}
      BY <1>0, <2>1, <3>1 DEF Leave
    <3>2. CASE job[p].todo # {pkg}
      <4>1. job' = [job EXCEPT ![p] = [job[p] EXCEPT !.todo = job[p].todo \ {pkg}]] /\ pc' = pc
        BY <1>0, <2>1, <3>2
      <4> QED
        BY <1>0, <2>4, <4>1
    <3> QED
      BY <3>1, <3>2
  <2> QED
    BY <1>0, <1>12, <2>3, <2>5 DEF AddNext
<1>13. ASSUME NEW p \in Procs, Fail(p) PROVE TypeOK'
  BY <1>0, <1>13 DEF Fail, Leave
<1>14. ASSUME UNCHANGED vars PROVE TypeOK'
  BY <1>0, <1>14 DEF vars
<1> QED
  BY <1>1, <1>2, <1>3, <1>4, <1>5, <1>6, <1>7, <1>8, <1>9, <1>10, <1>11, <1>12, <1>13, <1>14
     DEF Next

\* A step of a process leaves the jobs of the others alone; the log only
\* grows, so what a process knows of its run stays true.
Untouched(p) == pc'[p] = pc[p] /\ job'[p] = job[p]

LEMMA JobNext ==
  ASSUME IInv, TypeOK', [Next]_vars
  PROVE  JobInv' /\ BeforeInv'
<1>0. /\ TypeOK /\ JobInv /\ BeforeInv /\ Grows /\ report' = report
      /\ \A r \in Runs : Recorded(r) => Recorded(r)'
      /\ Len(log) \in Nat /\ Len(log') \in Nat /\ Len(log) <= Len(log')
  BY LogGrows, LogKeeps, PrefixStays DEF IInv
<1> DEFINE Fine(p) ==
      /\ Reviewing(p) => job[p].run \in Runs /\ job[p].model \in Models
      /\ Approving(p) =>
           /\ job[p].run \in Runs /\ Recorded(job[p].run)
           /\ report[job[p].run].verdict # Block
           /\ job[p].before \in 0 .. Len(log)
      /\ pc[p] = "add" =>
           report[job[p].run].exact /\ job[p].todo \subseteq report[job[p].run].artifacts
<1>1. \A p \in Procs : Fine(p)
  BY <1>0 DEF JobInv, BeforeInv
<1>2. ASSUME NEW p \in Procs, Untouched(p) PROVE Fine(p)'
  <2>1. Fine(p)
    BY <1>1
  <2>2. Reviewing(p)' <=> Reviewing(p)
    BY <1>2 DEF Untouched, Reviewing
  <2>3. Approving(p)' <=> Approving(p)
    BY <1>2 DEF Untouched, Approving
  <2>4. ASSUME Approving(p) PROVE Recorded(job[p].run)'
    <3>1. PICK r \in Runs : r = job[p].run /\ Recorded(r)
      BY <2>1, <2>4
    <3>2. Recorded(r)' /\ job'[p].run = r
      BY <1>0, <1>2, <3>1 DEF Untouched
    <3> QED
      BY <3>2 DEF Recorded
  <2>5. Approving(p) => job[p].before \in 0 .. Len(log')
    BY <1>0, <2>1
  <2> QED
    BY <1>0, <1>2, <2>1, <2>2, <2>3, <2>4, <2>5 DEF Untouched
<1>3. ASSUME NEW p \in Procs, pc'[p] = "idle" PROVE Fine(p)'
  BY <1>3 DEF Reviewing, Approving
<1>4. ASSUME \A p \in Procs : Fine(p)' PROVE JobInv' /\ BeforeInv'
  BY <1>4 DEF JobInv, BeforeInv
<1> HIDE DEF Fine
<1>6. ASSUME UNCHANGED <<pc, job>> PROVE \A p \in Procs : Fine(p)'
  BY <1>2, <1>6 DEF Untouched
<1>7. ASSUME NEW p \in Procs, BeginReview(p) PROVE \A q \in Procs : Fine(q)'
  <2>1. PICK r \in Runs, m \in Models : job' = [job EXCEPT ![p] = ReviewJob(r, m)]
    BY <1>7 DEF BeginReview
  <2>2. \A q \in Procs \ {p} : Untouched(q)
    BY <1>7, <2>1 DEF BeginReview, Untouched
  <2>3. pc'[p] = "cache" /\ job'[p].run = r /\ job'[p].model = m
    BY <1>0, <1>7, <2>1 DEF BeginReview, ReviewJob, TypeOK
  <2>4. Fine(p)'
    BY <2>3 DEF Fine, Reviewing, Approving
  <2> QED
    BY <1>2, <2>2, <2>4
<1>8. ASSUME NEW p \in Procs, CacheHit(p) \/ CacheMiss(p) \/ Answer(p) \/ StoreReview(p)
      PROVE  \A q \in Procs : Fine(q)'
  <2>1. \A q \in Procs \ {p} : Untouched(q)
    BY <1>0, <1>8 DEF CacheHit, CacheMiss, Answer, StoreReview, Untouched, TypeOK
  <2>2. Reviewing(p) /\ pc'[p] \in {"ask", "store", "append"}
    BY <1>0, <1>8 DEF CacheHit, CacheMiss, Answer, StoreReview, TypeOK, Reviewing
  <2>3. job'[p].run = job[p].run /\ job'[p].model = job[p].model
    BY <1>0, <1>8 DEF CacheHit, CacheMiss, Answer, StoreReview, TypeOK, Job
  <2>4. Fine(p)'
    BY <1>1, <2>2, <2>3 DEF Fine, Reviewing, Approving
  <2> QED
    BY <1>2, <2>1, <2>4
<1>9. ASSUME NEW p \in Procs, BeginApprove(p) PROVE \A q \in Procs : Fine(q)'
  <2>1. PICK r \in Runs : /\ Recorded(r) /\ report[r].verdict # Block
                          /\ job' = [job EXCEPT ![p] = ApproveJob(r)]
    BY <1>9 DEF BeginApprove
  <2>2. \A q \in Procs \ {p} : Untouched(q)
    BY <1>9, <2>1 DEF BeginApprove, Untouched
  <2>3. pc'[p] = "check" /\ job'[p].run = r /\ job'[p].before = Len(log)
    BY <1>0, <1>9, <2>1 DEF BeginApprove, ApproveJob, TypeOK
  <2>4. Recorded(r)' /\ Len(log) \in 0 .. Len(log')
    BY <1>0, <2>1
  <2>5. Recorded(job[p].run)'
    BY <2>3, <2>4 DEF Recorded
  <2>6. Fine(p)'
    BY <1>0, <2>1, <2>3, <2>4, <2>5 DEF Fine, Reviewing, Approving
  <2> QED
    BY <1>2, <2>2, <2>6
<1>10. ASSUME NEW p \in Procs, CheckReviews(p) PROVE \A q \in Procs : Fine(q)'
  <2>1. \A q \in Procs \ {p} : Untouched(q)
    BY <1>0, <1>10 DEF CheckReviews, Leave, Untouched, TypeOK
  <2>2. CASE Approvable(p)
    <3>1. pc[p] = "check" /\ pc'[p] = "add" /\ log' = log /\ report[job[p].run].exact
      BY <1>0, <1>10, <2>2 DEF CheckReviews, Approvable, TypeOK
    <3>2. job'[p].run = job[p].run /\ job'[p].todo = report[job[p].run].artifacts
          /\ job'[p].before = job[p].before
      BY <1>0, <1>10, <2>2 DEF CheckReviews, TypeOK, Job
    <3>3. Recorded(job[p].run) => Recorded(job[p].run)'
      BY <3>1, <3>2 DEF Recorded
    <3>4. Fine(p)'
      BY <1>0, <1>1, <3>1, <3>2, <3>3 DEF Fine, Reviewing, Approving
    <3> QED
      BY <1>2, <2>1, <3>4
  <2>3. CASE ~Approvable(p)
    <3>1. pc'[p] = "idle"
      BY <1>0, <1>10, <2>3 DEF CheckReviews, Leave, TypeOK
    <3> QED
      BY <1>2, <1>3, <2>1, <3>1
  <2> QED
    BY <2>2, <2>3
<1>11. ASSUME NEW p \in Procs, AddNext(p) PROVE \A q \in Procs : Fine(q)'
  <2>1. PICK pkg \in job[p].todo :
          IF job[p].todo = {pkg} THEN Leave(p)
          ELSE job' = [job EXCEPT ![p].todo = @ \ {pkg}] /\ UNCHANGED pc
    BY <1>11 DEF AddNext
  <2>2. \A q \in Procs \ {p} : Untouched(q)
    BY <1>0, <2>1 DEF Leave, Untouched, TypeOK
  <2>3. CASE job[p].todo = {pkg}
    <3>1. pc'[p] = "idle"
      BY <1>0, <2>1, <2>3 DEF Leave, TypeOK
    <3> QED
      BY <1>2, <1>3, <2>2, <3>1
  <2>4. CASE job[p].todo # {pkg}
    <3>1. pc[p] = "add" /\ pc'[p] = "add" /\ log' = log
      BY <1>11, <2>1, <2>4 DEF AddNext
    <3>2. job'[p].run = job[p].run /\ job'[p].todo = job[p].todo \ {pkg}
          /\ job'[p].before = job[p].before
      BY <1>0, <2>1, <2>4 DEF TypeOK, Job
    <3>3. Recorded(job[p].run) => Recorded(job[p].run)'
      BY <3>1, <3>2 DEF Recorded
    <3>4. Fine(p)'
      BY <1>0, <1>1, <3>1, <3>2, <3>3 DEF Fine, Reviewing, Approving
    <3> QED
      BY <1>2, <2>2, <3>4
  <2> QED
    BY <2>3, <2>4
<1>12. ASSUME NEW p \in Procs, AppendReview(p) \/ Fail(p) PROVE \A q \in Procs : Fine(q)'
  <2>1. pc'[p] = "idle" /\ \A q \in Procs \ {p} : Untouched(q)
    BY <1>0, <1>12 DEF AppendReview, Fail, Leave, Untouched, TypeOK
  <2> QED
    BY <1>2, <1>3, <2>1
<1> QED
  BY <1>4, <1>6, <1>7, <1>8, <1>9, <1>10, <1>11, <1>12
     DEF Next, vars, Record, Mark, AddByHand, Revoke

LEMMA AnswerNext ==
  ASSUME IInv, TypeOK', [Next]_vars
  PROVE  AnswerInv'
<1>0. TypeOK /\ JobInv /\ AnswerInv
  BY DEF IInv
<1> DEFINE Given(p) == pc[p] \in {"store", "append"} =>
                         /\ job[p].answer \in Verdicts
                         /\ [key |-> KeyOf(p), verdict |-> job[p].answer] \in answers
           Cached == \A k \in Key : cache[k] # "none" => [key |-> k, verdict |-> cache[k]] \in answers
<1>1. (\A p \in Procs : Given(p)) /\ Cached
  BY <1>0 DEF AnswerInv
<1>2. ASSUME NEW p \in Procs, Untouched(p), answers \subseteq answers' PROVE Given(p)'
  BY <1>1, <1>2 DEF Untouched, KeyOf
<1>3. ASSUME NEW p \in Procs, pc'[p] \notin {"store", "append"} PROVE Given(p)'
  BY <1>3
<1>4. ASSUME cache' = cache, answers \subseteq answers' PROVE Cached'
  BY <1>1, <1>4
<1>5. ASSUME \A p \in Procs : Given(p)', Cached' PROVE AnswerInv'
  BY <1>5 DEF AnswerInv
<1> HIDE DEF Given, Cached
<1>6. ASSUME UNCHANGED <<pc, job, cache, answers>> PROVE AnswerInv'
  BY <1>2, <1>4, <1>5, <1>6 DEF Untouched
<1>7. ASSUME NEW p \in Procs,
             BeginReview(p) \/ CacheMiss(p) \/ BeginApprove(p) \/ CheckReviews(p) \/ AddNext(p)
               \/ AppendReview(p) \/ Fail(p)
      PROVE  AnswerInv'
  <2>1. cache' = cache /\ answers' = answers /\ pc'[p] \in {"cache", "ask", "check", "add", "idle"}
    BY <1>0, <1>7 DEF TypeOK, BeginReview, CacheMiss, BeginApprove, CheckReviews, AddNext, AppendReview, Fail, Leave
  <2>2. \A q \in Procs \ {p} : Untouched(q)
    BY <1>0, <1>7 DEF TypeOK, BeginReview, CacheMiss, BeginApprove, CheckReviews, AddNext, AppendReview, Fail, Leave, Untouched
  <2> QED
    BY <1>2, <1>3, <1>4, <1>5, <2>1, <2>2
<1>8. ASSUME NEW p \in Procs, CacheHit(p) PROVE AnswerInv'
  <2>1. KeyOf(p) \in Key
    BY <1>0, <1>8, KeyType DEF CacheHit, Reviewing
  <2>2. cache' = cache /\ answers' = answers /\ \A q \in Procs \ {p} : Untouched(q)
    BY <1>0, <1>8 DEF TypeOK, CacheHit, Untouched
  <2>3. job'[p].answer = cache[KeyOf(p)] /\ KeyOf(p)' = KeyOf(p)
    BY <1>0, <1>8 DEF TypeOK, Job, CacheHit, KeyOf
  <2>4. cache[KeyOf(p)] \in Verdicts
    BY <1>0, <1>8, <2>1 DEF TypeOK, CacheHit
  <2>5. [key |-> KeyOf(p), verdict |-> cache[KeyOf(p)]] \in answers
    BY <1>1, <1>8, <2>1 DEF CacheHit, Cached
  <2>6. Given(p)'
    BY <2>2, <2>3, <2>4, <2>5 DEF Given
  <2> QED
    BY <1>2, <1>4, <1>5, <2>2, <2>6
<1>9. ASSUME NEW p \in Procs, Answer(p) PROVE AnswerInv'
  <2>1. PICK verdict \in Verdicts :
          /\ job' = [job EXCEPT ![p].answer = verdict]
          /\ answers' = answers \cup {[key |-> KeyOf(p), verdict |-> verdict]}
    BY <1>9 DEF Answer
  <2>2. cache' = cache /\ answers \subseteq answers' /\ \A q \in Procs \ {p} : Untouched(q)
    BY <1>0, <1>9, <2>1 DEF TypeOK, Answer, Untouched
  <2>3. job'[p].answer = verdict /\ KeyOf(p)' = KeyOf(p)
    BY <1>0, <2>1 DEF TypeOK, Job, KeyOf
  <2>4. Given(p)'
    BY <2>1, <2>3 DEF Given
  <2> QED
    BY <1>2, <1>4, <1>5, <2>2, <2>4
<1>10. ASSUME NEW p \in Procs, StoreReview(p) PROVE AnswerInv'
  <2>1. answers' = answers /\ job' = job /\ \A q \in Procs \ {p} : Untouched(q)
    BY <1>0, <1>10 DEF TypeOK, StoreReview, Untouched
  <2>2. /\ job[p].answer \in Verdicts
        /\ [key |-> KeyOf(p), verdict |-> job[p].answer] \in answers
    BY <1>1, <1>10 DEF StoreReview, Given
  <2>3. Given(p)'
    BY <2>1, <2>2 DEF Given, KeyOf
  <2>4. Cached'
    BY <1>0, <1>1, <1>10, <2>1, <2>2 DEF StoreReview, Cached, TypeOK
  <2> QED
    BY <1>2, <1>5, <2>1, <2>3, <2>4
<1> QED
  BY <1>6, <1>7, <1>8, <1>9, <1>10 DEF Next, vars, Record, Mark, AddByHand, Revoke

LEMMA NextIInv == IInv /\ [Next]_vars => IInv'
BY NextType, JobNext, AnswerNext DEF IInv

\* The type invariant of the inbox, for any number of processes and runs.
THEOREM TypeCorrect == Spec => []TypeOK
<1>1. IInv => TypeOK
  BY DEF IInv
<1> QED
  BY <1>1, InitIInv, NextIInv, PTL DEF Spec

\* A review in the log was there before or is the one being appended.
LEMMA NewReview ==
  ASSUME TypeOK, [Next]_vars, NEW i \in DOMAIN log', log'[i].kind = "llm_review"
  PROVE  \/ i \in DOMAIN log /\ log'[i] = log[i]
         \/ \E p \in Procs : AppendReview(p) /\ log'[i] = ReviewEvent(p)
<1>1. log \in Seq(Event) /\ DOMAIN log = 1 .. Len(log) /\ Len(log) \in Nat
  BY DEF TypeOK
<1>2. ASSUME NEW e, log' = Append(log, e)
      PROVE  (i \in DOMAIN log /\ log'[i] = log[i]) \/ log'[i] = e
  BY <1>1, <1>2, AppendKeeps
<1>3. CASE log' = log
  BY <1>3
<1>4. ASSUME NEW r \in Runs, Record(r) PROVE i \in DOMAIN log /\ log'[i] = log[i]
  <2>1. log' = Append(log, [kind |-> "report", run |-> r])
    BY <1>4 DEF Record
  <2> QED
    BY <1>2, <2>1
<1>5. ASSUME NEW r \in Runs, Mark(r) PROVE i \in DOMAIN log /\ log'[i] = log[i]
  <2>1. PICK kind \in {"inbox_deny", "inbox_view_later"} : log' = Append(log, [kind |-> kind, run |-> r])
    BY <1>5 DEF Mark
  <2> QED
    BY <1>2, <2>1
<1>6. ASSUME NEW p \in Procs, AppendReview(p)
      PROVE  (i \in DOMAIN log /\ log'[i] = log[i]) \/ log'[i] = ReviewEvent(p)
  BY <1>2, <1>6 DEF AppendReview
<1> QED
  BY <1>3, <1>4, <1>5, <1>6
     DEF Next, vars, AddByHand, Revoke, BeginReview, CacheHit, CacheMiss, Answer, StoreReview,
         BeginApprove, CheckReviews, AddNext, Fail

LEMMA OnlyGrows ==
  ASSUME [Next]_vars
  PROVE  answers \subseteq answers' /\ raced \subseteq raced'
BY DEF Next, vars, Record, Mark, AddByHand, Revoke, BeginReview, CacheHit, CacheMiss, Answer,
       StoreReview, AppendReview, BeginApprove, CheckReviews, AddNext, Fail

\* Every recorded review was given by its model for its run, and its effective
\* verdict is not below that of the report (runInboxReviewLLM).
THEOREM ReviewsAreGiven == Spec => []ReviewsAreAnswers
<1>1. Init => ReviewsAreAnswers
  BY DEF Init, ReviewsAreAnswers
<1>2. IInv /\ ReviewsAreAnswers /\ [Next]_vars => ReviewsAreAnswers'
  <2> SUFFICES ASSUME IInv, ReviewsAreAnswers, [Next]_vars,
                      NEW i \in DOMAIN log', log'[i].kind = "llm_review"
               PROVE  /\ [key |-> <<log'[i].run, log'[i].model>>, verdict |-> log'[i].review] \in answers'
                      /\ Rank(log'[i].effective) >= Rank(report'[log'[i].run].verdict)
    BY DEF ReviewsAreAnswers
  <2>1. TypeOK /\ report' = report /\ answers \subseteq answers'
    BY LogGrows, OnlyGrows DEF IInv
  <2>2. CASE i \in DOMAIN log /\ log'[i] = log[i]
    BY <2>1, <2>2 DEF ReviewsAreAnswers
  <2>3. ASSUME NEW p \in Procs, AppendReview(p), log'[i] = ReviewEvent(p)
        PROVE  /\ [key |-> <<log'[i].run, log'[i].model>>, verdict |-> log'[i].review] \in answers'
               /\ Rank(log'[i].effective) >= Rank(report'[log'[i].run].verdict)
    <3>1. /\ job[p].answer \in Verdicts /\ job[p].run \in Runs
          /\ [key |-> KeyOf(p), verdict |-> job[p].answer] \in answers
      BY <2>3 DEF IInv, JobInv, AnswerInv, AppendReview, Reviewing
    <3>2. report[job[p].run].verdict \in Verdicts
      BY <2>1, <3>1, InboxAssumption DEF TypeOK, Report
    <3>3. /\ log'[i].run = job[p].run /\ log'[i].model = job[p].model /\ log'[i].review = job[p].answer
          /\ log'[i].effective = ApplyLLMReview(report[job[p].run].verdict, job[p].answer)
      BY <2>3 DEF ReviewEvent
    <3>4. Rank(log'[i].effective) >= Rank(report[job[p].run].verdict)
      BY <3>1, <3>2, <3>3, EffectiveType
    <3> QED
      BY <2>1, <3>1, <3>3, <3>4 DEF KeyOf
  <2> QED
    BY <2>1, <2>2, <2>3, NewReview
<1> QED
  BY <1>1, <1>2, InitIInv, NextIInv, PTL DEF Spec

\* An approval that names a run is for an exact artifact of that run, whose
\* report did not block (runInboxApproveOnce), whatever fails half way.
THEOREM ApprovalsComeFromTheirRun == Spec => []ApprovalsHaveTheirRun
<1>1. Init => ApprovalsHaveTheirRun
  BY DEF Init, ApprovalsHaveTheirRun
<1>2. IInv /\ ApprovalsHaveTheirRun /\ [Next]_vars => ApprovalsHaveTheirRun'
  <2> SUFFICES ASSUME IInv, ApprovalsHaveTheirRun, [Next]_vars,
                      NEW a \in approvals', a.reason # None
               PROVE  /\ Recorded(a.reason)' /\ report'[a.reason].verdict # Block
                      /\ report'[a.reason].exact /\ a.pkg \in report'[a.reason].artifacts
    BY DEF ApprovalsHaveTheirRun
  <2>1. /\ TypeOK /\ report' = report /\ \A r \in Runs : Recorded(r) => Recorded(r)'
    BY LogGrows, PrefixStays DEF IInv
  <2>2. CASE a \in approvals
    <3>1. a.reason \in Runs
      BY <2>1, <2>2 DEF TypeOK, Approval
    <3>2. PICK r \in Runs : r = a.reason
      BY <3>1
    <3>3. Recorded(r) /\ Recorded(r)'
      BY <2>1, <2>2, <3>2 DEF ApprovalsHaveTheirRun
    <3> QED
      BY <2>1, <2>2, <3>2, <3>3 DEF ApprovalsHaveTheirRun
  <2>3. CASE a \notin approvals
    <3>a. ASSUME NEW pkg \in Packages, AddByHand(pkg) \/ Revoke(pkg)
          PROVE  FALSE
      BY <2>3, <3>a DEF AddByHand, Revoke, Added
    <3>b. approvals' # approvals
      BY <2>3
    <3>c. ASSUME NEW r \in Runs, Record(r) \/ Mark(r)
          PROVE  FALSE
      BY <3>b, <3>c DEF Record, Mark
    <3>d. ASSUME NEW p \in Procs,
                 \/ BeginReview(p) \/ CacheHit(p) \/ CacheMiss(p) \/ Answer(p)
                 \/ StoreReview(p) \/ AppendReview(p)
                 \/ BeginApprove(p) \/ CheckReviews(p) \/ Fail(p)
          PROVE  FALSE
      BY <3>b, <3>d DEF BeginReview, CacheHit, CacheMiss, Answer, StoreReview, AppendReview,
                        BeginApprove, CheckReviews, Fail
    <3>1. PICK p \in Procs : AddNext(p)
      BY <3>a, <3>b, <3>c, <3>d DEF Next, vars
    <3>2. PICK pkg \in job[p].todo : approvals' = Added(pkg, job[p].run)
      BY <3>1 DEF AddNext
    <3>3. a.pkg = pkg /\ a.reason = job[p].run
      BY <2>3, <3>2 DEF Added
    <3>4. /\ job[p].run \in Runs /\ Recorded(job[p].run) /\ report[job[p].run].verdict # Block
          /\ report[job[p].run].exact /\ job[p].todo \subseteq report[job[p].run].artifacts
      BY <3>1 DEF IInv, JobInv, AddNext, Approving
    <3>5. PICK r \in Runs : r = job[p].run
      BY <3>4
    <3>6. Recorded(r)'
      BY <2>1, <3>4, <3>5
    <3> QED
      BY <2>1, <3>2, <3>3, <3>4, <3>5, <3>6
  <2> QED
    BY <2>2, <2>3
<1> QED
  BY <1>1, <1>2, InitIInv, NextIInv, PTL DEF Spec

\* approve-once never misses a block that stood ever since it began
\* (latestLLMReviewBlocksApproval): reviews are only appended.
THEOREM StandingBlock == Spec => []StandingBlockRefuses
<1>1. Init => StandingBlockRefuses
  BY DEF Init, StandingBlockRefuses
<1>2. IInv /\ IInv' /\ StandingBlockRefuses /\ [Next]_vars => StandingBlockRefuses'
  <2> SUFFICES ASSUME IInv, IInv', StandingBlockRefuses, [Next]_vars, NEW p \in Procs, pc'[p] = "add"
               PROVE  \E n \in job'[p].before .. Len(log') : ~ReviewBlocks(job[p].run, n)'
    BY DEF StandingBlockRefuses
  <2>0. /\ TypeOK /\ JobInv /\ BeforeInv
        /\ Len(log) \in Nat /\ Len(log') \in Nat /\ Len(log) <= Len(log')
        /\ \A r \in Runs : \A n \in 0 .. Len(log) : ReviewBlocks(r, n)' <=> ReviewBlocks(r, n)
    BY LogGrows, LogKeeps, PrefixStays DEF IInv
  <2>1. pc[p] = "check" => CheckReviews(p) /\ Approvable(p)
    BY <2>0 DEF Next, vars, TypeOK, Record, Mark, AddByHand, Revoke, BeginReview, CacheHit, CacheMiss,
                Answer, StoreReview, AppendReview, BeginApprove, CheckReviews, AddNext, Fail, Leave
  <2>2. pc[p] \in {"check", "add"} /\ job'[p].run = job[p].run /\ job'[p].before = job[p].before
    <3>1. ASSUME NEW q \in Procs,
                 \/ BeginReview(q) \/ CacheHit(q) \/ CacheMiss(q) \/ Answer(q) \/ StoreReview(q)
                 \/ AppendReview(q) \/ BeginApprove(q) \/ Fail(q)
          PROVE  Untouched(p)
      BY <2>0, <3>1 DEF TypeOK, Untouched, BeginReview, CacheHit, CacheMiss, Answer, StoreReview,
                        AppendReview, BeginApprove, Fail, Leave
    <3>2. ASSUME NEW q \in Procs, CheckReviews(q) PROVE <2>2
      <4>1. CASE Approvable(q)
        <5>1. CASE p = q
          BY <2>0, <3>2, <4>1, <5>1 DEF CheckReviews, TypeOK, Job
        <5>2. CASE p # q
          <6>1. Untouched(p)
            BY <2>0, <3>2, <4>1, <5>2 DEF CheckReviews, TypeOK, Untouched
          <6> QED
            BY <6>1 DEF Untouched
        <5> QED
          BY <5>1, <5>2
      <4>2. CASE ~Approvable(q)
        BY <2>0, <3>2, <4>2 DEF CheckReviews, Leave, TypeOK
      <4> QED
        BY <4>1, <4>2
    <3>3. ASSUME NEW q \in Procs, AddNext(q) PROVE <2>2
      BY <2>0, <3>3 DEF AddNext, Leave, TypeOK, Job
    <3>4. ASSUME UNCHANGED <<pc, job>> PROVE Untouched(p)
      BY <3>4 DEF Untouched
    <3>5. ASSUME Untouched(p) PROVE <2>2
      BY <3>5 DEF Untouched
    <3> QED
      BY <3>1, <3>2, <3>3, <3>4, <3>5 DEF Next, vars, Record, Mark, AddByHand, Revoke
  <2>3. PICK r \in Runs : r = job[p].run
    BY <2>0, <2>2 DEF JobInv, Approving
  <2>4. job[p].before \in 0 .. Len(log)
    BY <2>0, <2>2 DEF BeforeInv, Approving
  <2>5. PICK n \in job[p].before .. Len(log) : ~ReviewBlocks(r, n)
    <3>1. CASE pc[p] = "check"
      BY <2>0, <2>1, <2>3, <2>4, <3>1 DEF Approvable
    <3>2. CASE pc[p] = "add"
      BY <2>3, <3>2 DEF StandingBlockRefuses
    <3> QED
      BY <2>2, <3>1, <3>2
  <2>6. n \in 0 .. Len(log) /\ n \in job'[p].before .. Len(log')
    BY <2>0, <2>2, <2>4, <2>5
  <2>7. ~ReviewBlocks(r, n)'
    BY <2>0, <2>5, <2>6
  <2>8. ReviewBlocks(job[p].run, n)' <=> ReviewBlocks(r, n)'
    BY <2>2, <2>3 DEF ReviewBlocks, ReviewsOf
  <2> QED
    BY <2>6, <2>7, <2>8
<1> QED
  BY <1>1, <1>2, InitIInv, NextIInv, PTL DEF Spec

LEMMA AgreeNext ==
  ASSUME IInv, TypeOK', [Next]_vars, AgreeInv
  PROVE  AgreeInv'
<1>0. TypeOK /\ JobInv /\ AnswerInv /\ raced \subseteq raced'
  BY OnlyGrows DEF IInv
<1> DEFINE Says(p)     == pc[p] = "append" /\ KeyOf(p) \notin raced => job[p].answer = cache[KeyOf(p)]
           Empty(p)    == Asking(p) /\ KeyOf(p) \notin raced => cache[KeyOf(p)] = "none"
           Alone(p, q) == Asking(p) /\ Asking(q) /\ KeyOf(p) = KeyOf(q) /\ KeyOf(p) \notin raced => p = q
           Agreed(p)   == Says(p) /\ Empty(p) /\ \A q \in Procs : Alone(p, q)
<1>1. \A p, q \in Procs : Says(p) /\ Empty(p) /\ Alone(p, q)
  BY DEF AgreeInv
<1>2. ASSUME NEW p \in Procs, Untouched(p), cache' = cache PROVE Says(p)' /\ Empty(p)'
  BY <1>0, <1>1, <1>2 DEF Untouched, KeyOf, Asking
<1>3. ASSUME NEW p \in Procs, NEW q \in Procs, Untouched(p), Untouched(q) PROVE Alone(p, q)'
  BY <1>0, <1>1, <1>3 DEF Untouched, KeyOf, Asking
<1>4. ASSUME NEW p \in Procs, pc'[p] \notin {"append", "ask", "store"}, NEW q \in Procs
      PROVE  Says(p)' /\ Empty(p)' /\ Alone(p, q)' /\ Alone(q, p)'
  BY <1>4 DEF Asking
<1>5. ASSUME NEW p \in Procs PROVE Alone(p, p)'
  OBVIOUS
<1>6. ASSUME \A p, q \in Procs : Says(p)' /\ Empty(p)' /\ Alone(p, q)' PROVE AgreeInv'
  BY <1>6 DEF AgreeInv
<1>7. CASE UNCHANGED <<pc, job, cache>>
  <2>1. \A p \in Procs : Untouched(p)
    BY <1>7 DEF Untouched
  <2> HIDE DEF Says, Empty, Alone
  <2> QED
    BY <1>2, <1>3, <1>6, <1>7, <2>1
<1>8. ASSUME NEW p \in Procs,
             BeginReview(p) \/ BeginApprove(p) \/ CheckReviews(p) \/ AddNext(p) \/ AppendReview(p)
               \/ CacheHit(p) \/ Fail(p)
      PROVE  AgreeInv'
  <2>1. cache' = cache /\ pc'[p] \in {"cache", "check", "add", "append", "idle"}
    BY <1>0, <1>8 DEF TypeOK, BeginReview, BeginApprove, CheckReviews, AddNext, AppendReview, CacheHit, Fail, Leave
  <2>2. \A q \in Procs \ {p} : Untouched(q)
    BY <1>0, <1>8 DEF TypeOK, BeginReview, BeginApprove, CheckReviews, AddNext, AppendReview, CacheHit,
                      Fail, Leave, Untouched
  <2>3. \A q \in Procs : Alone(p, q)' /\ Alone(q, p)'
    BY <2>1 DEF Asking
  <2>4. Empty(p)'
    BY <2>1 DEF Asking
  <2>5. Says(p)'
    <3>1. CASE CacheHit(p)
      BY <1>0, <3>1 DEF CacheHit, TypeOK, Job, KeyOf
    <3>2. CASE ~CacheHit(p)
      BY <1>0, <1>8, <3>2 DEF TypeOK, BeginReview, BeginApprove, CheckReviews, AddNext, AppendReview, Fail, Leave
    <3> QED
      BY <3>1, <3>2
  <2> HIDE DEF Says, Empty, Alone
  <2> QED
    BY <1>2, <1>3, <1>6, <2>1, <2>2, <2>3, <2>4, <2>5
<1>9. ASSUME NEW p \in Procs, CacheMiss(p) PROVE AgreeInv'
  <2>1. cache' = cache /\ pc'[p] = "ask" /\ KeyOf(p)' = KeyOf(p) /\ ~Asking(p)
    BY <1>0, <1>9 DEF TypeOK, CacheMiss, KeyOf, Asking
  <2>2. \A q \in Procs \ {p} : Untouched(q)
    BY <1>0, <1>9 DEF TypeOK, CacheMiss, Untouched
  <2>3. Says(p)' /\ Empty(p)'
    BY <1>9, <2>1 DEF CacheMiss
  <2>4. ASSUME NEW q \in Procs \ {p} PROVE Alone(p, q)' /\ Alone(q, p)'
    <3>1. Asking(q)' <=> Asking(q)
      BY <2>2 DEF Untouched, Asking
    <3>2. KeyOf(q)' = KeyOf(q)
      BY <2>2 DEF Untouched, KeyOf
    <3>3. Asking(q) /\ KeyOf(q) = KeyOf(p) => KeyOf(p) \in raced'
      BY <1>9 DEF CacheMiss, Asking
    <3> QED
      BY <2>1, <3>1, <3>2, <3>3
  <2> HIDE DEF Says, Empty, Alone
  <2> QED
    BY <1>2, <1>3, <1>5, <1>6, <2>1, <2>2, <2>3, <2>4
<1>10. ASSUME NEW p \in Procs, Answer(p) PROVE AgreeInv'
  <2>1. cache' = cache /\ pc'[p] = "store" /\ Asking(p) /\ raced' = raced
    BY <1>0, <1>10 DEF TypeOK, Answer, Asking
  <2>2. KeyOf(p)' = KeyOf(p)
    BY <1>0, <1>10 DEF TypeOK, Job, Answer, KeyOf
  <2>3. \A q \in Procs \ {p} : Untouched(q)
    BY <1>0, <1>10 DEF TypeOK, Answer, Untouched
  <2>4. Says(p)' /\ Empty(p)'
    BY <1>1, <2>1, <2>2
  <2>5. ASSUME NEW q \in Procs \ {p} PROVE Alone(p, q)' /\ Alone(q, p)'
    <3>1. (Asking(q)' <=> Asking(q)) /\ KeyOf(q)' = KeyOf(q)
      BY <2>3 DEF Untouched, Asking, KeyOf
    <3> QED
      BY <1>1, <2>1, <2>2, <3>1
  <2> HIDE DEF Says, Empty, Alone
  <2> QED
    BY <1>2, <1>3, <1>5, <1>6, <2>1, <2>3, <2>4, <2>5
<1>11. ASSUME NEW p \in Procs, StoreReview(p) PROVE AgreeInv'
  <2>1. /\ KeyOf(p) \in Key /\ Asking(p) /\ KeyOf(p)' = KeyOf(p) /\ raced' = raced
        /\ pc'[p] = "append" /\ job' = job /\ cache' = [cache EXCEPT ![KeyOf(p)] = job[p].answer]
    BY <1>0, <1>11, KeyType DEF TypeOK, StoreReview, Reviewing, Asking, KeyOf
  <2>2. \A q \in Procs \ {p} : Untouched(q)
    BY <1>0, <1>11 DEF TypeOK, StoreReview, Untouched
  <2>3. cache'[KeyOf(p)] = job[p].answer /\ \A k \in Key : k # KeyOf(p) => cache'[k] = cache[k]
    BY <1>0, <2>1 DEF TypeOK
  <2>4. Says(p)' /\ Empty(p)' /\ \A q \in Procs : Alone(p, q)' /\ Alone(q, p)'
    BY <2>1, <2>3 DEF Asking
  <2>5. ASSUME NEW q \in Procs \ {p} PROVE Says(q)' /\ Empty(q)'
    <3>1. KeyOf(q)' = KeyOf(q) /\ pc'[q] = pc[q] /\ (Asking(q)' <=> Asking(q))
      BY <2>2 DEF Untouched, KeyOf, Asking
    <3>2. CASE KeyOf(q) # KeyOf(p)
      <4>1. pc[q] = "append" \/ Asking(q) => KeyOf(q) \in Key
        BY <1>0, KeyType DEF Reviewing, Asking
      <4> QED
        BY <1>1, <2>1, <2>3, <3>1, <3>2, <4>1
    <3>3. CASE KeyOf(q) = KeyOf(p) /\ KeyOf(p) \notin raced
      <4>1. cache[KeyOf(p)] = "none" /\ ~Asking(q)
        BY <1>1, <2>1, <3>3
      <4>2. pc[q] # "append"
        BY <1>0, <1>1, <3>3, <4>1 DEF AnswerInv, Verdicts, Allow, Prompt, Block
      <4> QED
        BY <3>1, <4>1, <4>2
    <3> QED
      BY <2>1, <3>1, <3>2, <3>3
  <2> HIDE DEF Says, Empty, Alone
  <2> QED
    BY <1>3, <1>6, <2>2, <2>4, <2>5
<1> QED
  BY <1>7, <1>8, <1>9, <1>10, <1>11 DEF Next, vars, Record, Mark, AddByHand, Revoke

\* Without a race, one model's reviews of one run agree (llmReviewCache.Store
\* before AppendEvent), whatever fails in between.
THEOREM ReviewsAgree == Spec => []ReviewsAgreeUnlessRaced
<1>1. Init => AgreeInv /\ ReviewsAgreeUnlessRaced
  BY DEF Init, AgreeInv, ReviewsAgreeUnlessRaced, Asking
<1>2. IInv /\ IInv' /\ AgreeInv /\ ReviewsAgreeUnlessRaced /\ [Next]_vars
        => AgreeInv' /\ ReviewsAgreeUnlessRaced'
  <2> SUFFICES ASSUME IInv, IInv', AgreeInv, ReviewsAgreeUnlessRaced, [Next]_vars
               PROVE  AgreeInv' /\ ReviewsAgreeUnlessRaced'
    OBVIOUS
  <2>1. AgreeInv' /\ TypeOK /\ TypeOK' /\ raced \subseteq raced' /\ JobInv /\ AnswerInv
    BY AgreeNext, OnlyGrows DEF IInv
  <2>2. ASSUME NEW k \in Key, k \notin raced, cache[k] # "none" PROVE cache'[k] = cache[k]
    <3>1. ASSUME NEW p \in Procs, StoreReview(p) PROVE cache'[k] = cache[k]
      <4>1. KeyOf(p) # k
        BY <2>2, <3>1 DEF AgreeInv, StoreReview, Asking
      <4> QED
        BY <2>1, <3>1, <4>1 DEF StoreReview, TypeOK
    <3> QED
      BY <3>1 DEF Next, vars, Record, Mark, AddByHand, Revoke, BeginReview, CacheHit, CacheMiss,
                  Answer, AppendReview, BeginApprove, CheckReviews, AddNext, Fail
  <2>3. ASSUME NEW i \in DOMAIN log', log'[i].kind = "llm_review",
               <<log'[i].run, log'[i].model>> \notin raced'
        PROVE  log'[i].review = cache'[<<log'[i].run, log'[i].model>>]
    <3> DEFINE k == <<log'[i].run, log'[i].model>>
    <3>1. log' \in Seq(Event)
      BY <2>1 DEF TypeOK
    <3>2. k \in Key /\ log'[i].review \in Verdicts
      BY <2>3, <3>1 DEF Event, Key
    <3>3. CASE i \in DOMAIN log /\ log'[i] = log[i]
      <4>1. log'[i].review = cache[k]
        BY <2>1, <2>3, <3>3 DEF ReviewsAgreeUnlessRaced
      <4> QED
        BY <2>1, <2>2, <2>3, <3>2, <4>1 DEF Verdicts, Allow, Prompt, Block
    <3>4. ASSUME NEW p \in Procs, AppendReview(p), log'[i] = ReviewEvent(p)
          PROVE  log'[i].review = cache'[k]
      <4>1. k = KeyOf(p) /\ log'[i].review = job[p].answer /\ cache' = cache /\ pc[p] = "append"
        BY <3>4 DEF ReviewEvent, KeyOf, AppendReview
      <4> QED
        BY <2>1, <2>3, <4>1 DEF AgreeInv
    <3> QED
      BY <2>1, <2>3, <3>3, <3>4, NewReview
  <2> QED
    BY <2>1, <2>3 DEF ReviewsAgreeUnlessRaced
<1> QED
  BY <1>1, <1>2, InitIInv, NextIInv, PTL DEF Spec

\* What one more event does to what is read from the log: a report records its
\* run, a marker of a run decides for that run, and nothing else does either.
LEMMA EventDecides ==
  ASSUME TypeOK, NEW e, log' = Append(log, e), NEW r \in Runs
  PROVE  /\ log'[Len(log')] = e
         /\ Recorded(r)' <=> Recorded(r) \/ (e.kind = "report" /\ e.run = r)
         /\ IsMarker(e) /\ e.run = r => (Denied(r)' <=> e.kind = "inbox_deny")
         /\ ~(IsMarker(e) /\ e.run = r) => (Denied(r)' <=> Denied(r))
<1> DEFINE m == Len(log)
<1>1. /\ m \in Nat /\ DOMAIN log = 1 .. m
      /\ Len(log') = m + 1 /\ DOMAIN log' = 1 .. (m + 1)
      /\ \A i \in 1 .. m : log'[i] = log[i]
      /\ log'[m + 1] = e
  BY AppendKeeps DEF TypeOK
<1> HIDE DEF m
<1>2. Recorded(r)' <=> Recorded(r) \/ (e.kind = "report" /\ e.run = r)
  BY <1>1 DEF Recorded
<1>3. Denied(r)' <=> \E i \in 1 .. (m + 1) :
                      /\ log'[i].kind = "inbox_deny" /\ log'[i].run = r
                      /\ \A j \in 1 .. (m + 1) : IsMarker(log'[j]) /\ log'[j].run = r => j <= i
  BY <1>1 DEF Denied, IsMarker
<1>4. ASSUME IsMarker(e), e.run = r PROVE Denied(r)' <=> e.kind = "inbox_deny"
  <2>1. ASSUME NEW i \in 1 .. (m + 1),
               \A j \in 1 .. (m + 1) : IsMarker(log'[j]) /\ log'[j].run = r => j <= i
        PROVE  i = m + 1
    BY <1>1, <1>4, <2>1
  <2>2. \A j \in 1 .. (m + 1) : j <= m + 1
    BY <1>1
  <2> QED
    BY <1>1, <1>3, <1>4, <2>1, <2>2
<1>5. ASSUME ~(IsMarker(e) /\ e.run = r) PROVE Denied(r)' <=> Denied(r)
  <2>1. Denied(r) <=> \E i \in 1 .. m :
                        /\ log[i].kind = "inbox_deny" /\ log[i].run = r
                        /\ \A j \in 1 .. m : IsMarker(log[j]) /\ log[j].run = r => j <= i
    BY <1>1 DEF Denied
  <2>2. ~(IsMarker(log'[m + 1]) /\ log'[m + 1].run = r)
    BY <1>1, <1>5
  <2>3. \A i \in 1 .. (m + 1) : i \in 1 .. m \/ i = m + 1
    BY <1>1
  <2>4. \A i \in 1 .. m : i \in 1 .. (m + 1)
    BY <1>1
  <2> QED
    BY <1>1, <1>3, <2>1, <2>2, <2>3, <2>4 DEF IsMarker
<1> QED
  BY <1>1, <1>2, <1>4, <1>5

\* A log names finitely many runs.
LEMMA RunsOfLog ==
  ASSUME NEW s \in Seq(Event), NEW S,
         \A q \in S : \E i \in DOMAIN s : s[i].run = q
  PROVE  IsFiniteSet(S)
<1> DEFINE T == {s[i].run : i \in 1 .. Len(s)}
           f == [i \in 1 .. Len(s) |-> s[i].run]
<1>1. Len(s) \in Nat /\ DOMAIN s = 1 .. Len(s)
  OBVIOUS
<1>2. IsFiniteSet(1 .. Len(s))
  BY <1>1, FS_Interval
<1>3. f \in Surjection(1 .. Len(s), T)
  BY DEF Surjection
<1> HIDE DEF f, T
<1>4. IsFiniteSet(T)
  BY <1>2, <1>3, FS_Surjection
<1>5. S \in SUBSET T
  BY <1>1 DEF T
<1> QED
  BY <1>4, <1>5, FS_Subset

\* A run comes to await a decision, or ceases to, by a word about that run
\* alone: its own report, its own markers or approvals of its own artifacts.
LEMMA PendingFollows ==
  ASSUME TypeOK, [Next]_vars, NEW r \in Runs
  PROVE  /\ Pending(r) /\ ~Pending(r)' => Settled(r)
         /\ ~Pending(r) /\ Pending(r)' => Raised(r)
<1>1. Grows /\ report' = report
  BY LogGrows
<1>2. ASSUME ~Settled(r), Pending(r), Recorded(r)', ~Denied(r)' PROVE Pending(r)'
  BY <1>1, <1>2 DEF Pending, Settled
<1>3. ASSUME ~Raised(r), Pending(r)', Recorded(r), ~Denied(r) PROVE Pending(r)
  BY <1>1, <1>3 DEF Pending, Raised
<1>4. (Pending(r) => Recorded(r) /\ ~Denied(r)) /\ (Pending(r)' => Recorded(r)' /\ ~Denied(r)')
  BY DEF Pending
<1>5. CASE log' = log
  <2>1. (Recorded(r)' <=> Recorded(r)) /\ (Denied(r)' <=> Denied(r))
    BY <1>5 DEF Recorded, Denied
  <2> QED
    BY <1>2, <1>3, <1>4, <2>1
<1>6. ASSUME NEW e, log' = Append(log, e), log' # log
      PROVE  /\ Pending(r) /\ ~Pending(r)' => Settled(r)
             /\ ~Pending(r) /\ Pending(r)' => Raised(r)
  <2>1. /\ log'[Len(log')] = e
        /\ Recorded(r)' <=> Recorded(r) \/ (e.kind = "report" /\ e.run = r)
        /\ IsMarker(e) /\ e.run = r => (Denied(r)' <=> e.kind = "inbox_deny")
        /\ ~(IsMarker(e) /\ e.run = r) => (Denied(r)' <=> Denied(r))
    BY <1>6, EventDecides
  <2>2. \A kinds : LastEvent(kinds, r) <=> e.kind \in kinds /\ e.run = r
    BY <1>6, <2>1 DEF LastEvent
  <2>3. /\ e.kind = "inbox_deny" /\ e.run = r => Settled(r)
        /\ e.kind \in {"report", "inbox_view_later"} /\ e.run = r => Raised(r)
    BY <2>2 DEF Settled, Raised
  <2>4. IsMarker(e) <=> e.kind \in {"inbox_deny", "inbox_view_later"}
    BY DEF IsMarker
  <2> QED
    BY <1>2, <1>3, <1>4, <2>1, <2>3, <2>4
<1> QED
  BY <1>1, <1>5, <1>6 DEF Grows

\* The order of the list is the order of the reports, and only the report of a
\* run puts it before another.
LEMMA NewerFollows ==
  ASSUME TypeOK, [Next]_vars, NEW q \in Runs, NEW r \in Runs
  PROVE  /\ Newer(q, r) => Newer(q, r)'
         /\ ~Newer(q, r) /\ Newer(q, r)' => Raised(q)
<1>1. Grows
  BY LogGrows
<1>2. /\ Len(log) \in Nat /\ DOMAIN log = 1 .. Len(log)
      /\ Len(log') \in Nat /\ DOMAIN log' = 1 .. Len(log') /\ Len(log) <= Len(log')
      /\ \A i \in 1 .. Len(log) : log'[i] = log[i]
  BY <1>1, LogKeeps
<1>3. Newer(q, r) => Newer(q, r)'
  BY <1>2 DEF Newer
<1>4. ASSUME ~Newer(q, r), Newer(q, r)' PROVE Raised(q)
  <2>1. PICK i, j \in DOMAIN log' : /\ log'[i].kind = "report" /\ log'[i].run = q
                                   /\ log'[j].kind = "report" /\ log'[j].run = r
                                   /\ j < i
    BY <1>4 DEF Newer
  <2>2. log' # log /\ \E e : log' = Append(log, e)
    BY <1>1, <1>4 DEF Grows, Newer
  <2>3. Len(log') = Len(log) + 1
    BY <2>2, AppendKeeps DEF TypeOK
  <2>4. i = Len(log')
    <3>1. ASSUME i \in 1 .. Len(log) PROVE FALSE
      <4>1. j \in 1 .. Len(log)
        BY <1>2, <2>1, <3>1
      <4> QED
        BY <1>2, <1>4, <2>1, <3>1, <4>1 DEF Newer
    <3> QED
      BY <1>2, <2>1, <2>3, <3>1
  <2> QED
    BY <2>1, <2>2, <2>4 DEF Raised, LastEvent
<1> QED
  BY <1>3, <1>4

\* The list of `lsec inbox` (runInboxList), whatever its limit, follows the
\* decisions: a run is put off it by its own settlement or by a newer run that
\* is raised, and put on it by being raised or by the settlement of a newer
\* one.  The runs before another are finitely many, so that if they reach the
\* limit, or no longer do, one of them came or went.
THEOREM ListIsFaithful == Spec => ListFollowsDecisions
<1>1. IInv /\ [Next]_vars => [FollowsDecisions]_vars
  <2> SUFFICES ASSUME IInv, [Next]_vars, NEW r \in Runs, NEW limit \in Limits
               PROVE  /\ Listed(r, limit) /\ ~Listed(r, limit)' =>
                           \/ Settled(r)
                           \/ \E q \in Runs : Newer(q, r)' /\ Pending(q)' /\ Raised(q)
                      /\ ~Listed(r, limit) /\ Listed(r, limit)' =>
                           \/ Raised(r)
                           \/ \E q \in Runs : Newer(q, r) /\ Pending(q) /\ Settled(q)
    BY DEF FollowsDecisions
  <2> DEFINE A == {q \in Runs : Pending(q) /\ Newer(q, r)}
             B == {q \in Runs : Pending(q)' /\ Newer(q, r)'}
  <2>1. TypeOK /\ TypeOK'
    BY NextType DEF IInv
  <2>2. IsFiniteSet(A) /\ IsFiniteSet(B)
    <3>1. \A q \in A : \E i \in DOMAIN log : log[i].run = q
      BY DEF Newer
    <3>2. \A q \in B : \E i \in DOMAIN log' : log'[i].run = q
      BY DEF Newer
    <3> HIDE DEF A, B
    <3>3. log \in Seq(Event) /\ log' \in Seq(Event)
      BY <2>1 DEF TypeOK
    <3> QED
      BY <3>1, <3>2, <3>3, RunsOfLog
  <2>3. /\ Listed(r, limit) <=> Pending(r) /\ Cardinality(A) < limit
        /\ Listed(r, limit)' <=> Pending(r)' /\ Cardinality(B) < limit
    BY DEF Listed
  <2>4. \A q \in Runs : /\ Pending(q) /\ ~Pending(q)' => Settled(q)
                        /\ ~Pending(q) /\ Pending(q)' => Raised(q)
    BY <2>1, PendingFollows
  <2>5. \A q \in Runs : /\ Newer(q, r) => Newer(q, r)'
                        /\ ~Newer(q, r) /\ Newer(q, r)' => Raised(q)
    BY <2>1, NewerFollows
  <2>6. B \ A # {} => \E q \in Runs : Newer(q, r)' /\ Pending(q)' /\ Raised(q)
    BY <2>4, <2>5
  <2>7. A \ B # {} => \E q \in Runs : Newer(q, r) /\ Pending(q) /\ Settled(q)
    BY <2>4, <2>5
  <2> HIDE DEF A, B
  <2>8. limit \in Nat
    BY InboxAssumption
  <2>9. /\ B \in SUBSET A => Cardinality(B) <= Cardinality(A)
        /\ A \in SUBSET B => Cardinality(A) <= Cardinality(B)
    BY <2>2, FS_Subset
  <2>10. Cardinality(A) \in Nat /\ Cardinality(B) \in Nat
    BY <2>2, FS_CardinalityType
  <2>11. ASSUME Cardinality(A) < limit, ~(Cardinality(B) < limit) PROVE B \ A # {}
    BY <2>8, <2>9, <2>10, <2>11
  <2>12. ASSUME ~(Cardinality(A) < limit), Cardinality(B) < limit PROVE A \ B # {}
    BY <2>8, <2>9, <2>10, <2>12
  <2> QED
    BY <2>3, <2>4, <2>6, <2>7, <2>11, <2>12
<1> QED
  BY <1>1, InitIInv, NextIInv, PTL DEF Spec, ListFollowsDecisions
=============================================================================
