------------------------------- MODULE Notify -------------------------------
(***************************************************************************)
(* Notifications (notify.go): processes that plan a notification about a   *)
(* recorded run, post it to a Discord webhook or declare it sent, over the *)
(* shared event log.                                                       *)
(*                                                                         *)
(* The identifier of a notification is a hash of its run and the digest of *)
(* the evidence, so it is that pair here.  `log` has the events in lines   *)
(* of their own.  A write that is cut may leave part of its event, `torn`, *)
(* or all of it but the newline, `loose`, which a reader still takes for   *)
(* an event; either way the next write is glued to it, and nothing of that *)
(* line is readable any more (EventLog).  A call that fails, or whose      *)
(* process dies, leaves behind what it has done.                           *)
(***************************************************************************)
EXTENDS Integers, Sequences, FiniteSets

CONSTANTS
  Procs,      \* processes that run `lsec notify` at the same time
  Runs,       \* recorded runs
  Digests,    \* digests of the evidence of a run: one per report of it
  None,       \* no run, no digest
  MaxEvents,  \* bound on the length of the log
  MaxTries    \* bound on the requests answered and the notifications marked

ASSUME NotifyAssumption ==
  /\ None \notin Runs /\ None \notin Digests
  /\ MaxEvents \in Nat /\ MaxTries \in Nat

VARIABLES
  log,        \* the events in lines of their own, in their order
  torn,       \* the log ends in a line nobody can read
  loose,      \* the event the log ends in, when its newline is missing
  written,    \* notifications whose payload was printed or written to --out
  delivered,  \* how often each notification reached the channel
  marked,     \* notifications mark-sent was called for
  pc,         \* where each process is
  job,        \* the notification each process works on
  tries,      \* how many requests were taken or redirected, or marks begun
  planned,    \* history: notifications a reader found planned or could have
  diverted,   \* history: notifications whose request was redirected
  unrecorded  \* history: delivered by a call that did not get it into the log

fileVars == <<log, torn, loose>>
vars ==
  <<fileVars, written, delivered, marked, pc, job, tries, planned, diverted, unrecorded>>

Ids == [run : Runs, digest : Digests]
Event == [kind : {"report", "notification_planned", "notification_sent"}, id : Ids]
NoJob == [run |-> None, digest |-> None]

TypeOK ==
  /\ log \in Seq(Event)
  /\ torn \in BOOLEAN
  /\ loose \subseteq Event /\ Cardinality(loose) <= 1
  /\ written \subseteq Ids
  /\ delivered \in [Ids -> Nat]
  /\ tries \in 0 .. MaxTries
  /\ marked \subseteq Ids
  /\ pc \in [Procs -> {"idle", "write", "plan", "post", "arrived", "sent", "turned", "mark"}]
  /\ job \in [Procs -> Ids \cup {NoJob}]
  /\ planned \subseteq Ids /\ diverted \subseteq Ids
  /\ unrecorded \subseteq Ids

Init ==
  /\ log = <<>> /\ torn = FALSE /\ loose = {}
  /\ written = {} /\ marked = {}
  /\ delivered = [id \in Ids |-> 0] /\ tries = 0
  /\ pc = [p \in Procs |-> "idle"]
  /\ job = [p \in Procs |-> NoJob]
  /\ planned = {} /\ diverted = {} /\ unrecorded = {}
-----------------------------------------------------------------------------
(***************************************************************************)
(* What is read from the log.                                              *)
(***************************************************************************)
E(kind, id) == [kind |-> kind, id |-> id]

\* In a line of its own, which nothing written later takes away.
Kept(kind, id) == \E i \in DOMAIN log : log[i] = E(kind, id)

Has(kind, id) == Kept(kind, id) \/ E(kind, id) \in loose

\* LoadPlannedNotification finds the notification.
Planned(id) == Has("notification_planned", id)

\* One event that says it was sent is enough, wherever it is.
Sent(id) == Has("notification_sent", id)

\* LoadRunReport: the newest report of the run.
NewestReport(id) ==
  \/ E("report", id) \in loose
  \/ /\ \A e \in loose : ~(e.kind = "report" /\ e.id.run = id.run)
     /\ \E i \in DOMAIN log :
          /\ log[i] = E("report", id)
          /\ \A j \in DOMAIN log : log[j].kind = "report" /\ log[j].id.run = id.run => j <= i
-----------------------------------------------------------------------------
(***************************************************************************)
(* What is written to the log.                                             *)
(***************************************************************************)
\* Every call appends at most one event.
HasRoom == Len(log) + Cardinality({p \in Procs : pc[p] # "idle"}) < MaxEvents

Clean == ~torn /\ loose = {}

\* What the log ends in is lost, and the event that is glued to it.
Append1(e) ==
  /\ log' = IF Clean THEN Append(log, e) ELSE log
  /\ torn' = FALSE /\ loose' = {}

\* The write of an event is cut, the disk being full or the process dead: it
\* leaves part of a line, or all of the event without its newline.
Cut(e) ==
  /\ \/ torn' = TRUE /\ loose' = {}
     \/ Clean /\ torn' = FALSE /\ loose' = {e}
  /\ UNCHANGED log

\* A reader now finds the notification planned.
NowPlanned == planned' = planned \cup {id \in Ids : Planned(id)'}

Leave(p) ==
  /\ pc' = [pc EXCEPT ![p] = "idle"]
  /\ job' = [job EXCEPT ![p] = NoJob]

Enter(p, id, where) ==
  /\ pc' = [pc EXCEPT ![p] = where]
  /\ job' = [job EXCEPT ![p] = id]

\* The notification of p, if p has delivered it and not recorded it yet.
Owed(p) == {id \in Ids : id = job[p] /\ pc[p] \in {"arrived", "sent"}}

\* A preflight, guard or evidence command records a report of a run.
Record(id) ==
  /\ HasRoom
  /\ Append1(E("report", id)) \/ Cut(E("report", id))
  /\ UNCHANGED <<written, delivered, marked, pc, job, tries, planned, diverted, unrecorded>>

\* Any step returns an error, or the process dies: no webhook is set, its URL
\* is refused, a file cannot be written, the log cannot be opened.
Fail(p) ==
  /\ pc[p] # "idle"
  /\ unrecorded' = unrecorded \cup Owed(p)
  /\ Leave(p)
  /\ UNCHANGED <<fileVars, written, delivered, marked, tries, planned, diverted>>

\* The event a process is about to append.
EventOf(p) ==
  E(IF pc[p] = "plan" THEN "notification_planned" ELSE "notification_sent", job[p])

CutAppend(p) ==
  /\ pc[p] \in {"plan", "sent", "turned", "mark"}
  /\ Cut(EventOf(p)) /\ NowPlanned
  /\ unrecorded' = unrecorded \cup Owed(p)
  /\ Leave(p)
  /\ UNCHANGED <<written, delivered, marked, tries, diverted>>
-----------------------------------------------------------------------------
(***************************************************************************)
(* lsec notify plan                                                        *)
(***************************************************************************)
\* Wrong variant: a run that is not in the log is planned for all the same.
BeginPlan_NoReport(p) ==
  /\ pc[p] = "idle" /\ HasRoom
  /\ \E id \in Ids \cup [run : Runs, digest : {None}] :
       \/ id \in Ids /\ NewestReport(id) /\ Enter(p, id, "write")
       \/ id \notin Ids /\ Enter(p, id, "write")
  /\ UNCHANGED <<fileVars, written, delivered, marked, tries, planned, diverted, unrecorded>>

\* PlanNotification: the identifier follows from the newest report.
BeginPlan(p) ==
  /\ pc[p] = "idle" /\ HasRoom
  /\ \E id \in Ids : NewestReport(id) /\ Enter(p, id, "write")
  /\ UNCHANGED <<fileVars, written, delivered, marked, tries, planned, diverted, unrecorded>>

\* writeRemoteSandboxJSON: to --out or to the terminal, before the event.
WritePlan(p) ==
  /\ pc[p] = "write"
  /\ written' = written \cup {job[p]}
  /\ pc' = [pc EXCEPT ![p] = "plan"]
  /\ UNCHANGED <<fileVars, delivered, marked, job, tries, planned, diverted, unrecorded>>

\* Planning a run again appends a further event of the same identifier.
AppendPlanned(p) ==
  /\ pc[p] = "plan"
  /\ Append1(EventOf(p)) /\ NowPlanned
  /\ Leave(p)
  /\ UNCHANGED <<written, delivered, marked, tries, diverted, unrecorded>>
-----------------------------------------------------------------------------
(***************************************************************************)
(* lsec notify send-discord: the request is answered or not before the     *)
(* timeout of the client.                                                  *)
(***************************************************************************)
\* Whether the notification was sent before is not asked.
BeginSend(p) ==
  /\ pc[p] = "idle" /\ HasRoom
  /\ \E id \in Ids : Planned(id) /\ Enter(p, id, "post")
  /\ UNCHANGED <<fileVars, written, delivered, marked, tries, planned, diverted, unrecorded>>

\* The channel accepts the message.
Arrive(p) ==
  /\ pc[p] = "post" /\ tries < MaxTries /\ tries' = tries + 1
  /\ delivered' = [delivered EXCEPT ![job[p]] = @ + 1]
  /\ pc' = [pc EXCEPT ![p] = "arrived"]
  /\ UNCHANGED <<fileVars, written, marked, job, planned, diverted, unrecorded>>

\* Wrong variant: every answer counts, also a status of 300 and more.
Answer_AnyStatus(p) ==
  /\ pc[p] \in {"post", "arrived"}
  /\ pc' = [pc EXCEPT ![p] = "sent"]
  /\ UNCHANGED <<fileVars, written, delivered, marked, job, tries, planned, diverted, unrecorded>>

\* A status below 300.  Any other answer is a failure without a delivery.
Answer(p) ==
  /\ pc[p] = "arrived"
  /\ pc' = [pc EXCEPT ![p] = "sent"]
  /\ UNCHANGED <<fileVars, written, delivered, marked, job, tries, planned, diverted, unrecorded>>

\* Wrong variant: the timeout covers the connection and not the answer.
Timeout_OfConnection(p) ==
  /\ pc[p] = "post"
  /\ Leave(p)
  /\ UNCHANGED <<fileVars, written, delivered, marked, tries, planned, diverted, unrecorded>>

\* The webhook answers a redirect that the client follows as a GET, without the
\* message, and the answer to that is a status below 300.  (A redirect that
\* keeps the method takes the message to where it leads: Arrive.)
Redirected(p) ==
  /\ pc[p] = "post" /\ tries < MaxTries /\ tries' = tries + 1
  /\ pc' = [pc EXCEPT ![p] = "turned"]
  /\ diverted' = diverted \cup {job[p]}
  /\ UNCHANGED <<fileVars, written, delivered, marked, job, planned, unrecorded>>

\* discordWebhookTimeout: the call fails, whether or not the message arrived.
Timeout(p) ==
  /\ pc[p] \in {"post", "arrived"}
  /\ unrecorded' = unrecorded \cup Owed(p)
  /\ Leave(p)
  /\ UNCHANGED <<fileVars, written, delivered, marked, tries, planned, diverted>>

\* Wrong variant: the event names the newest report of the run.
AppendSent_Newest(p) ==
  /\ pc[p] \in {"sent", "turned", "mark"}
  /\ \E id \in Ids : /\ id.run = job[p].run /\ NewestReport(id)
                     /\ Append1(E("notification_sent", id))
  /\ unrecorded' = unrecorded \cup (IF Clean THEN {} ELSE Owed(p))
  /\ Leave(p)
  /\ UNCHANGED <<written, delivered, marked, tries, planned, diverted>>

AppendSent(p) ==
  /\ pc[p] \in {"sent", "turned", "mark"}
  /\ Append1(EventOf(p))
  /\ unrecorded' = unrecorded \cup (IF Clean THEN {} ELSE Owed(p))
  /\ Leave(p)
  /\ UNCHANGED <<written, delivered, marked, tries, planned, diverted>>
-----------------------------------------------------------------------------
(***************************************************************************)
(* lsec notify mark-sent                                                   *)
(***************************************************************************)
BeginMark(p) ==
  /\ pc[p] = "idle" /\ HasRoom /\ tries < MaxTries /\ tries' = tries + 1
  /\ \E id \in Ids : /\ Planned(id) /\ Enter(p, id, "mark")
                     /\ marked' = marked \cup {id}
  /\ UNCHANGED <<fileVars, written, delivered, planned, diverted, unrecorded>>
-----------------------------------------------------------------------------
\* The steps a process takes by itself once its call has begun.
Step(p) == WritePlan(p) \/ AppendPlanned(p) \/ Timeout(p) \/ AppendSent(p)

Next ==
  \/ \E id \in Ids : Record(id)
  \/ \E p \in Procs :
       \/ BeginPlan(p) \/ BeginSend(p) \/ BeginMark(p) \/ Step(p)
       \/ Arrive(p) \/ Answer(p) \/ Redirected(p) \/ Fail(p) \/ CutAppend(p)

Spec == Init /\ [][Next]_vars

\* A process that is in a call is scheduled, and its timer runs out; nothing is
\* assumed of the network, of the webhook or of the user.
FairSpec == Spec /\ \A p \in Procs : WF_vars(Step(p))
-----------------------------------------------------------------------------
(***************************************************************************)
(* Properties.                                                             *)
(***************************************************************************)
\* A delivery is in the log as sent, for good, or about to be, unless a call
\* that made one failed, died or lost its event: only then is a posted
\* notification still, or again, to be sent, and only then does sending what is
\* listed post it twice.
RecordedUnlessFailed ==
  \A id \in Ids : delivered[id] > 0 =>
    \/ Kept("notification_sent", id) \/ id \in unrecorded
    \/ \E p \in Procs : id \in Owed(p)

\* Where a notification is for a reader, and where it is whatever is written
\* next.  LoadUnsentNotifications lists the pending ones, one line each, the
\* newest first and no more than it was asked for.
State(id) ==
  IF Sent(id) THEN "settled" ELSE IF Planned(id) THEN "pending" ELSE "none"
Sure(id) ==
  IF Kept("notification_sent", id) THEN "settled"
  ELSE IF Kept("notification_planned", id) THEN "pending" ELSE "none"

Promise == INSTANCE Outbox WITH state <- [id \in Ids |-> State(id)],
                                sure <- [id \in Ids |-> Sure(id)]

\* notify is an at-least-once outbox: what is pending had been handed out, what
\* is posted or declared sent had been planned, and nothing is settled without
\* a delivery, the user's word or a redirected answer.  A notification goes
\* back only to where it is for sure, when the event that moved it was cut
\* short and is lost; until then no other moves.
ImplementsOutbox == Promise!OutboxSpec

\* Every call ends, also when the webhook never answers.
EveryCallEnds == \A p \in Procs : []<>(pc[p] = "idle")
=============================================================================
