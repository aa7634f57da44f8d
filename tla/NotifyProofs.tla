---------------------------- MODULE NotifyProofs ----------------------------
(***************************************************************************)
(* Proofs about Notify, for any processes, runs and digests, any length of *)
(* the log and any number of requests.                                     *)
(***************************************************************************)
EXTENDS Notify, FiniteSetTheorems, TLAPS

(***************************************************************************)
(* The inductive invariant.                                                *)
(***************************************************************************)
\* Where a process is in a call, what it works on and what it knows of it.
InCall    == {"write", "plan", "post", "arrived", "sent", "turned", "mark"}
OfPlanned == {"post", "arrived", "sent", "turned", "mark"}

CallInv ==
  \A p \in Procs :
    /\ pc[p] \in InCall => job[p] \in Ids
    /\ pc[p] = "plan" => job[p] \in written
    /\ pc[p] \in OfPlanned => job[p] \in planned
    /\ pc[p] \in {"arrived", "sent"} => delivered[job[p]] > 0
    /\ pc[p] = "mark" => job[p] \in marked
    /\ pc[p] = "turned" => job[p] \in diverted

\* What a reader finds planned or sent had been found planned, though the event
\* that said so may be gone, and what was found planned had been handed out.
LogInv ==
  /\ \A id \in Ids : Planned(id) \/ Sent(id) => id \in planned
  /\ planned \subseteq written

NotifyInv == TypeOK /\ CallInv /\ LogInv /\ RecordedUnlessFailed
-----------------------------------------------------------------------------
(***************************************************************************)
(* What is read and what is kept.                                          *)
(***************************************************************************)
Kinds == {"report", "notification_planned", "notification_sent"}

LEMMA EventType ==
  ASSUME NEW kind \in Kinds, NEW id \in Ids
  PROVE  E(kind, id) \in Event
BY DEF E, Event, Kinds

\* What an append does to the lines of the log.
LEMMA AppendKeeps ==
  ASSUME TypeOK, NEW kind \in Kinds, NEW n \in Ids, Append1(E(kind, n))
  PROVE  /\ log' \in Seq(Event) /\ torn' = FALSE /\ loose' = {}
         /\ \A k, id : Kept(k, id)' <=> (Kept(k, id) \/ (Clean /\ k = kind /\ id = n))
<1> DEFINE e == E(kind, n)
<1>1. e \in Event
  BY EventType
<1>2. CASE ~Clean
  BY <1>2 DEF Append1, TypeOK, Kept
<1>3. CASE Clean
  <2>1. log' = Append(log, e) /\ log \in Seq(Event)
    BY <1>3 DEF Append1, TypeOK
  <2>2. /\ log' \in Seq(Event) /\ Len(log') = Len(log) + 1
        /\ log'[Len(log) + 1] = e /\ \A j \in 1 .. Len(log) : log'[j] = log[j]
    BY <1>1, <2>1
  <2>3. DOMAIN log = 1 .. Len(log) /\ DOMAIN log' = 1 .. (Len(log) + 1) /\ Len(log) \in Nat
    BY <2>1, <2>2
  <2>4. ASSUME NEW k, NEW id
        PROVE  Kept(k, id)' <=> (Kept(k, id) \/ (k = kind /\ id = n))
    <3>1. Kept(k, id) => Kept(k, id)'
      BY <2>2, <2>3 DEF Kept
    <3>2. k = kind /\ id = n => Kept(k, id)'
      BY <2>2, <2>3 DEF Kept
    <3>3. ASSUME Kept(k, id)' PROVE Kept(k, id) \/ (k = kind /\ id = n)
      <4>1. PICK j \in 1 .. (Len(log) + 1) : log'[j] = E(k, id)
        BY <3>3, <2>3 DEF Kept
      <4>2. CASE j = Len(log) + 1
        BY <4>1, <4>2, <2>2 DEF E
      <4>3. CASE j \in 1 .. Len(log)
        BY <4>1, <4>3, <2>2, <2>3 DEF Kept
      <4> QED
        BY <4>2, <4>3, <2>3
    <3> QED
      BY <3>1, <3>2, <3>3
  <2> QED
    BY <1>3, <2>2, <2>4 DEF Append1
<1> QED
  BY <1>2, <1>3

\* A cut write takes no line away and adds none.
LEMMA CutKeeps ==
  ASSUME NEW kind \in Kinds, NEW n \in Ids, Cut(E(kind, n))
  PROVE  /\ log' = log /\ torn' \in BOOLEAN
         /\ loose' = {} \/ (Clean /\ loose' = {E(kind, n)})
         /\ \A k, id : Kept(k, id)' <=> Kept(k, id)
BY DEF Cut, Kept

LEMMA OneLoose ==
  ASSUME NEW e \in Event, loose' = {} \/ loose' = {e}
  PROVE  loose' \subseteq Event /\ Cardinality(loose') <= 1
<1>1. Cardinality({}) = 0 /\ Cardinality({e}) = 1
  BY FS_EmptySet, FS_Singleton
<1> QED
  BY <1>1

\* Where every notification is for a reader, and where it is for sure.
States == [id \in Ids |-> State(id)]
Sures  == [id \in Ids |-> Sure(id)]

\* Where the event of that kind takes the notification.
Moved(kind, n) ==
  CASE kind = "notification_sent" -> [States EXCEPT ![n] = "settled"]
    [] kind = "notification_planned" /\ State(n) = "none" -> [States EXCEPT ![n] = "pending"]
    [] OTHER -> States

\* A write, cut or not, moves the notification of its event, for good or not,
\* or it takes back the move that was not for good; and nothing else.
LEMMA WriteMoves ==
  ASSUME TypeOK, NEW kind \in Kinds, NEW n \in Ids,
         Append1(E(kind, n)) \/ Cut(E(kind, n))
  PROVE  \/ /\ States' = Sures /\ Sures' = Sures
            /\ \A id \in Ids : (Planned(id)' => Planned(id)) /\ (Sent(id)' => Sent(id))
         \/ /\ States = Sures /\ States' = Moved(kind, n)
            /\ Sures' = States' \/ Sures' = Sures
            /\ \A id \in Ids :
                 /\ Planned(id)' <=> (Planned(id) \/ (kind = "notification_planned" /\ id = n))
                 /\ Sent(id)' <=> (Sent(id) \/ (kind = "notification_sent" /\ id = n))
<1> USE DEF Planned, Sent, Has, State, Sure, States, Sures
<1>k. /\ \A k, id : E(k, id) = E(kind, n) <=> (k = kind /\ id = n)
      /\ kind \in {"report", "notification_planned", "notification_sent"}
  BY DEF E, Kinds
<1>m. ASSUME loose = {},
             \A id \in Ids :
               /\ Planned(id)' <=> (Planned(id) \/ (kind = "notification_planned" /\ id = n))
               /\ Sent(id)' <=> (Sent(id) \/ (kind = "notification_sent" /\ id = n))
      PROVE  States = Sures /\ States' = Moved(kind, n)
  <2>1. States = Sures
    BY <1>m
  <2>2. CASE kind = "notification_sent"
    <3>1. \A id \in Ids : State(id)' = IF id = n THEN "settled" ELSE State(id)
      BY <1>m, <2>2
    <3>2. States' = [States EXCEPT ![n] = "settled"]
      BY <3>1
    <3> QED
      BY <2>1, <2>2, <3>2 DEF Moved
  <2>3. CASE kind = "notification_planned" /\ State(n) = "none"
    <3>0. ~Sent(n) /\ kind # "notification_sent"
      BY <2>3
    <3>1. \A id \in Ids : State(id)' = IF id = n THEN "pending" ELSE State(id)
      BY <1>m, <2>3, <3>0
    <3>2. States' = [States EXCEPT ![n] = "pending"]
      BY <3>1
    <3>3. Moved(kind, n) = [States EXCEPT ![n] = "pending"]
      BY <2>3, <3>0 DEF Moved
    <3> QED
      BY <2>1, <3>2, <3>3
  <2>4. CASE kind # "notification_sent" /\ ~(kind = "notification_planned" /\ State(n) = "none")
    <3>1. \A id \in Ids : State(id)' = State(id)
      BY <1>m, <2>4
    <3>2. Moved(kind, n) = States
      BY <2>4 DEF Moved
    <3> QED
      BY <2>1, <3>1, <3>2
  <2> QED
    BY <2>2, <2>3, <2>4
<1>1. CASE Append1(E(kind, n)) /\ Clean
  <2>1. /\ loose = {} /\ loose' = {}
        /\ \A k, id : Kept(k, id)' <=> (Kept(k, id) \/ (k = kind /\ id = n))
    BY <1>1, AppendKeeps DEF Clean
  <2>2. \A id \in Ids :
          /\ Planned(id)' <=> (Planned(id) \/ (kind = "notification_planned" /\ id = n))
          /\ Sent(id)' <=> (Sent(id) \/ (kind = "notification_sent" /\ id = n))
    BY <2>1
  <2>3. Sures' = States'
    BY <2>1
  <2> QED
    BY <2>1, <2>2, <2>3, <1>m
<1>2. CASE Append1(E(kind, n)) /\ ~Clean
  <2>1. loose' = {} /\ \A k, id : Kept(k, id)' <=> Kept(k, id)
    BY <1>2, AppendKeeps
  <2>2. \A id \in Ids : (Planned(id)' => Planned(id)) /\ (Sent(id)' => Sent(id))
    BY <2>1
  <2>3. States' = Sures /\ Sures' = Sures
    BY <2>1
  <2> QED
    BY <2>2, <2>3
<1>3. CASE Cut(E(kind, n)) /\ loose' = {}
  <2>1. \A k, id : Kept(k, id)' <=> Kept(k, id)
    BY <1>3, CutKeeps
  <2>2. \A id \in Ids : (Planned(id)' => Planned(id)) /\ (Sent(id)' => Sent(id))
    BY <1>3, <2>1
  <2>3. States' = Sures /\ Sures' = Sures
    BY <1>3, <2>1
  <2> QED
    BY <2>2, <2>3
<1>4. CASE Cut(E(kind, n)) /\ loose' # {}
  <2>1. /\ loose = {} /\ loose' = {E(kind, n)}
        /\ \A k, id : Kept(k, id)' <=> Kept(k, id)
    BY <1>4, CutKeeps DEF Clean
  <2>2. \A id \in Ids :
          /\ Planned(id)' <=> (Planned(id) \/ (kind = "notification_planned" /\ id = n))
          /\ Sent(id)' <=> (Sent(id) \/ (kind = "notification_sent" /\ id = n))
    BY <2>1, <1>k
  <2>3. Sures' = Sures
    BY <2>1
  <2> QED
    BY <2>1, <2>2, <2>3, <1>m
<1> QED
  BY <1>1, <1>2, <1>3, <1>4

\* A reader that keeps the file keeps what it reads.
LEMMA SameReads ==
  ASSUME UNCHANGED fileVars
  PROVE  /\ \A k, id : (Kept(k, id)' <=> Kept(k, id)) /\ (Has(k, id)' <=> Has(k, id))
         /\ \A id : (Planned(id)' <=> Planned(id)) /\ (Sent(id)' <=> Sent(id))
         /\ States' = States /\ Sures' = Sures
<1>1. \A k, id : (Kept(k, id)' <=> Kept(k, id)) /\ (Has(k, id)' <=> Has(k, id))
  BY DEF Kept, Has, fileVars
<1>2. \A id : (Planned(id)' <=> Planned(id)) /\ (Sent(id)' <=> Sent(id))
  BY <1>1 DEF Planned, Sent
<1>3. States' = States /\ Sures' = Sures
  BY <1>1, <1>2 DEF States, Sures, State, Sure
<1> QED
  BY <1>1, <1>2, <1>3
-----------------------------------------------------------------------------
(***************************************************************************)
(* The invariant is inductive.                                             *)
(***************************************************************************)
LEMMA InitInv == Init => NotifyInv
<1> SUFFICES ASSUME Init PROVE NotifyInv
  OBVIOUS
<1>1. TypeOK
  <2>1. log \in Seq(Event) /\ loose \subseteq Event /\ Cardinality(loose) <= 1
    BY FS_EmptySet DEF Init
  <2>2. delivered \in [Ids -> Nat] /\ tries \in 0 .. MaxTries
    BY NotifyAssumption DEF Init
  <2> QED
    BY <2>1, <2>2 DEF Init, TypeOK
<1>2. \A k, id : ~Has(k, id)
  BY DEF Init, Has, Kept
<1>3. CallInv /\ LogInv /\ RecordedUnlessFailed
  BY <1>2 DEF Init, CallInv, LogInv, RecordedUnlessFailed, Planned, Sent, InCall, OfPlanned
<1> QED
  BY <1>1, <1>3 DEF NotifyInv

\* The event a call writes is one of its notification.
LEMMA EventIs ==
  ASSUME CallInv, NEW p \in Procs, pc[p] \in {"plan", "sent", "turned", "mark"}
  PROVE  /\ job[p] \in Ids
         /\ pc[p] = "plan" => EventOf(p) = E("notification_planned", job[p])
         /\ pc[p] # "plan" => EventOf(p) = E("notification_sent", job[p])
         /\ EventOf(p) \in Event
<1>1. job[p] \in Ids
  BY DEF CallInv, InCall
<1> QED
  BY <1>1, EventType DEF EventOf, Kinds

\* A write leaves a log of the right type.
LEMMA WriteType ==
  ASSUME TypeOK, NEW kind \in Kinds, NEW n \in Ids,
         Append1(E(kind, n)) \/ Cut(E(kind, n))
  PROVE  /\ log' \in Seq(Event) /\ torn' \in BOOLEAN
         /\ loose' \subseteq Event /\ Cardinality(loose') <= 1
<1>1. CASE Append1(E(kind, n))
  BY <1>1, AppendKeeps, OneLoose, EventType
<1>2. CASE Cut(E(kind, n))
  <2>1. log' = log /\ torn' \in BOOLEAN /\ (loose' = {} \/ loose' = {E(kind, n)})
    BY <1>2, CutKeeps
  <2>2. loose' \subseteq Event /\ Cardinality(loose') <= 1
    BY <2>1, OneLoose, EventType
  <2> QED
    BY <2>1, <2>2 DEF TypeOK
<1> QED
  BY <1>1, <1>2

\* The type invariant.
LEMMA StepType == NotifyInv /\ [Next]_vars => TypeOK'
<1> SUFFICES ASSUME NotifyInv, [Next]_vars PROVE TypeOK'
  OBVIOUS
<1> DEFINE FileType == /\ log' \in Seq(Event) /\ torn' \in BOOLEAN
                       /\ loose' \subseteq Event /\ Cardinality(loose') <= 1
           Places == {"idle", "write", "plan", "post", "arrived", "sent", "turned", "mark"}
<1>s. UNCHANGED fileVars => FileType
  BY DEF NotifyInv, TypeOK, fileVars
<1>w. ASSUME NEW kind \in Kinds, NEW n \in Ids, Append1(E(kind, n)) \/ Cut(E(kind, n))
      PROVE  FileType
  BY <1>w, WriteType DEF NotifyInv
<1>p. /\ written \subseteq Ids /\ marked \subseteq Ids /\ planned \subseteq Ids
      /\ diverted \subseteq Ids /\ unrecorded \subseteq Ids
      /\ delivered \in [Ids -> Nat] /\ tries \in 0 .. MaxTries
      /\ pc \in [Procs -> Places] /\ job \in [Procs -> Ids \cup {NoJob}]
  BY DEF NotifyInv, TypeOK
<1>j. \A p \in Procs : pc[p] \in InCall => job[p] \in Ids
  BY DEF NotifyInv, CallInv
<1>o. \A p \in Procs : Owed(p) \subseteq Ids
  BY DEF Owed
<1>t. /\ FileType
      /\ written' \subseteq Ids /\ marked' \subseteq Ids /\ planned' \subseteq Ids
      /\ diverted' \subseteq Ids /\ unrecorded' \subseteq Ids
      /\ delivered' \in [Ids -> Nat] /\ tries' \in 0 .. MaxTries
      /\ pc' \in [Procs -> Places] /\ job' \in [Procs -> Ids \cup {NoJob}]
      => TypeOK'
  BY DEF TypeOK
<1> HIDE DEF FileType
<1> USE <1>p
<1>1. ASSUME NEW id \in Ids, Record(id) PROVE TypeOK'
  <2>1. FileType
    BY <1>1, <1>w DEF Record, Kinds
  <2> QED
    BY <1>1, <2>1, <1>t DEF Record
<1>2. ASSUME NEW p \in Procs, BeginPlan(p) \/ BeginSend(p) PROVE TypeOK'
  BY <1>2, <1>s, <1>t DEF BeginPlan, BeginSend, Enter
<1>3. ASSUME NEW p \in Procs, BeginMark(p) PROVE TypeOK'
  <2>1. tries' \in 0 .. MaxTries
    BY <1>3, NotifyAssumption DEF BeginMark
  <2> QED
    BY <1>3, <2>1, <1>s, <1>t DEF BeginMark, Enter
<1>4. ASSUME NEW p \in Procs, WritePlan(p) PROVE TypeOK'
  BY <1>4, <1>s, <1>t, <1>j DEF WritePlan, InCall
<1>5. ASSUME NEW p \in Procs, AppendPlanned(p) PROVE TypeOK'
  <2>1. FileType
    BY <1>5, <1>w, EventIs DEF AppendPlanned, Kinds, NotifyInv
  <2> QED
    BY <1>5, <2>1, <1>t DEF AppendPlanned, Leave, NowPlanned
<1>6. ASSUME NEW p \in Procs, AppendSent(p) PROVE TypeOK'
  <2>1. FileType
    BY <1>6, <1>w, EventIs DEF AppendSent, Kinds, NotifyInv
  <2> QED
    BY <1>6, <2>1, <1>t, <1>o DEF AppendSent, Leave
<1>7. ASSUME NEW p \in Procs, CutAppend(p) PROVE TypeOK'
  <2>1. FileType
    BY <1>7, <1>w, EventIs DEF CutAppend, Kinds, NotifyInv
  <2> QED
    BY <1>7, <2>1, <1>t, <1>o DEF CutAppend, Leave, NowPlanned
<1>8. ASSUME NEW p \in Procs, Arrive(p) PROVE TypeOK'
  <2>1. job[p] \in Ids /\ tries' \in 0 .. MaxTries
    BY <1>8, <1>j, NotifyAssumption DEF Arrive, InCall
  <2>2. delivered' \in [Ids -> Nat]
    BY <1>8, <2>1 DEF Arrive
  <2> QED
    BY <1>8, <2>1, <2>2, <1>s, <1>t DEF Arrive
<1>9. ASSUME NEW p \in Procs, Redirected(p) PROVE TypeOK'
  <2>1. job[p] \in Ids /\ tries' \in 0 .. MaxTries
    BY <1>9, <1>j, NotifyAssumption DEF Redirected, InCall
  <2> QED
    BY <1>9, <2>1, <1>s, <1>t DEF Redirected
<1>10. ASSUME NEW p \in Procs, Answer(p) PROVE TypeOK'
  BY <1>10, <1>s, <1>t DEF Answer
<1>11. ASSUME NEW p \in Procs, Fail(p) \/ Timeout(p) PROVE TypeOK'
  BY <1>11, <1>s, <1>t, <1>o DEF Fail, Timeout, Leave
<1>12. ASSUME UNCHANGED vars PROVE TypeOK'
  BY <1>12, <1>s, <1>t DEF vars
<1> QED
  BY <1>1, <1>2, <1>3, <1>4, <1>5, <1>6, <1>7, <1>8, <1>9, <1>10, <1>11, <1>12 DEF Next, Step

\* The notification that p has delivered and not recorded.
LEMMA OwedIs ==
  ASSUME CallInv, NEW p \in Procs
  PROVE  Owed(p) = IF pc[p] \in {"arrived", "sent"} THEN {job[p]} ELSE {}
BY DEF Owed, CallInv, InCall

\* What is only ever added to.
LEMMA Grows ==
  NotifyInv /\ [Next]_vars =>
    /\ written \subseteq written' /\ planned \subseteq planned' /\ marked \subseteq marked'
    /\ diverted \subseteq diverted'
    /\ \A id \in Ids : delivered[id] > 0 => delivered'[id] > 0
<1> SUFFICES ASSUME NotifyInv, [Next]_vars
             PROVE  /\ written \subseteq written' /\ planned \subseteq planned'
                    /\ marked \subseteq marked' /\ diverted \subseteq diverted'
                    /\ \A id \in Ids : delivered[id] > 0 => delivered'[id] > 0
  OBVIOUS
<1>1. ASSUME NEW p \in Procs, Arrive(p)
      PROVE  \A id \in Ids : delivered[id] > 0 => delivered'[id] > 0
  BY <1>1 DEF Arrive, NotifyInv, TypeOK
<1>2. (\E p \in Procs : Arrive(p)) \/ UNCHANGED delivered
  BY DEF Next, Step, vars, Record, BeginPlan, BeginSend, BeginMark, WritePlan, AppendPlanned,
         Timeout, AppendSent, Answer, Redirected, Fail, CutAppend
<1>3. /\ written \subseteq written' /\ planned \subseteq planned'
      /\ marked \subseteq marked' /\ diverted \subseteq diverted'
  BY DEF Next, Step, vars, Record, BeginPlan, BeginSend, BeginMark, WritePlan, AppendPlanned,
         Timeout, AppendSent, Arrive, Answer, Redirected, Fail, CutAppend, NowPlanned
<1> QED
  BY <1>1, <1>2, <1>3

LEMMA StepCall == NotifyInv /\ [Next]_vars => CallInv'
<1> DEFINE Of(q) == /\ pc[q] \in InCall => job[q] \in Ids
                    /\ pc[q] = "plan" => job[q] \in written
                    /\ pc[q] \in OfPlanned => job[q] \in planned
                    /\ pc[q] \in {"arrived", "sent"} => delivered[job[q]] > 0
                    /\ pc[q] = "mark" => job[q] \in marked
                    /\ pc[q] = "turned" => job[q] \in diverted
<1> SUFFICES ASSUME NotifyInv, [Next]_vars, NEW q \in Procs PROVE Of(q)'
  BY DEF CallInv
<1>c. Of(q)
  BY DEF NotifyInv, CallInv
<1>g. /\ written \subseteq written' /\ planned \subseteq planned' /\ marked \subseteq marked'
      /\ diverted \subseteq diverted'
      /\ \A id \in Ids : delivered[id] > 0 => delivered'[id] > 0
  BY Grows
<1>t. pc \in [Procs -> {"idle", "write", "plan", "post", "arrived", "sent", "turned", "mark"}]
      /\ job \in [Procs -> Ids \cup {NoJob}]
  BY DEF NotifyInv, TypeOK
<1> USE DEF InCall, OfPlanned
\* A process that does not move, and one that returns.
<1>s. ASSUME pc'[q] = pc[q], job'[q] = job[q] PROVE Of(q)'
  BY <1>s, <1>c, <1>g
<1>i. ASSUME pc'[q] = "idle" PROVE Of(q)'
  BY <1>i
<1>1. ASSUME NEW id \in Ids, Record(id) PROVE Of(q)'
  BY <1>1, <1>s DEF Record
<1>2. ASSUME NEW p \in Procs, BeginPlan(p) PROVE Of(q)'
  <2>1. CASE q = p
    BY <1>2, <2>1, <1>t DEF BeginPlan, Enter
  <2> QED
    BY <1>2, <2>1, <1>s, <1>t DEF BeginPlan, Enter
<1>3. ASSUME NEW p \in Procs, BeginSend(p) \/ BeginMark(p) PROVE Of(q)'
  <2>1. CASE q = p
    BY <1>3, <2>1, <1>t DEF BeginSend, BeginMark, Enter, NotifyInv, LogInv
  <2> QED
    BY <1>3, <2>1, <1>s, <1>t DEF BeginSend, BeginMark, Enter
<1>4. ASSUME NEW p \in Procs, WritePlan(p) PROVE Of(q)'
  <2>1. CASE q = p
    BY <1>4, <2>1, <1>t, <1>c DEF WritePlan
  <2> QED
    BY <1>4, <2>1, <1>s, <1>t DEF WritePlan
<1>5. ASSUME NEW p \in Procs,
             AppendPlanned(p) \/ AppendSent(p) \/ CutAppend(p) \/ Fail(p) \/ Timeout(p)
      PROVE  Of(q)'
  <2>1. Leave(p)
    BY <1>5 DEF AppendPlanned, AppendSent, CutAppend, Fail, Timeout
  <2>2. CASE q = p
    BY <2>1, <2>2, <1>i, <1>t DEF Leave
  <2> QED
    BY <2>1, <2>2, <1>s, <1>t DEF Leave
<1>6. ASSUME NEW p \in Procs, Arrive(p) PROVE Of(q)'
  <2>1. CASE q = p
    <3>1. job[p] \in Ids /\ delivered[job[p]] \in Nat /\ job' = job /\ pc'[p] = "arrived"
      BY <1>6, <2>1, <1>c, <1>t DEF Arrive, NotifyInv, TypeOK
    <3>2. delivered'[job[p]] > 0
      BY <1>6, <3>1 DEF Arrive, NotifyInv, TypeOK
    <3>3. job[p] \in planned
      BY <1>6, <2>1, <1>c DEF Arrive
    <3> QED
      BY <2>1, <3>1, <3>2, <3>3, <1>g
  <2> QED
    BY <1>6, <2>1, <1>s, <1>t DEF Arrive
<1>7. ASSUME NEW p \in Procs, Answer(p) \/ Redirected(p) PROVE Of(q)'
  <2>1. CASE q = p
    BY <1>7, <2>1, <1>c, <1>t DEF Answer, Redirected
  <2> QED
    BY <1>7, <2>1, <1>s, <1>t DEF Answer, Redirected
<1>8. ASSUME UNCHANGED vars PROVE Of(q)'
  BY <1>8, <1>s DEF vars
<1> QED
  BY <1>1, <1>2, <1>3, <1>4, <1>5, <1>6, <1>7, <1>8 DEF Next, Step

LEMMA StepLog == NotifyInv /\ [Next]_vars => LogInv'
<1> SUFFICES ASSUME NotifyInv, [Next]_vars PROVE LogInv'
  OBVIOUS
<1>l. /\ \A id \in Ids : Planned(id) \/ Sent(id) => id \in planned
      /\ planned \subseteq written
  BY DEF NotifyInv, LogInv
<1> USE DEF NotifyInv
<1>1. ASSUME NEW id \in Ids, Record(id) PROVE LogInv'
  <2>1. \A i \in Ids : (Planned(i)' => Planned(i)) /\ (Sent(i)' => Sent(i))
    BY <1>1, WriteMoves DEF Record, Kinds
  <2> QED
    BY <1>1, <1>l, <2>1 DEF Record, LogInv
<1>2. ASSUME NEW p \in Procs, AppendPlanned(p) \/ (CutAppend(p) /\ pc[p] = "plan")
      PROVE  LogInv'
  <2>1. /\ job[p] \in Ids /\ job[p] \in written
        /\ Append1(E("notification_planned", job[p])) \/ Cut(E("notification_planned", job[p]))
        /\ NowPlanned /\ UNCHANGED written
    BY <1>2, EventIs DEF AppendPlanned, CutAppend, CallInv
  <2>2. \A i \in Ids : /\ Planned(i)' => Planned(i) \/ i = job[p]
                       /\ Sent(i)' => Sent(i)
    BY <2>1, WriteMoves DEF Kinds
  <2> QED
    BY <1>l, <2>1, <2>2 DEF LogInv, NowPlanned
<1>3. ASSUME NEW p \in Procs, AppendSent(p) \/ (CutAppend(p) /\ pc[p] # "plan")
      PROVE  LogInv'
  <2>1. /\ job[p] \in Ids /\ job[p] \in planned
        /\ Append1(E("notification_sent", job[p])) \/ Cut(E("notification_sent", job[p]))
    BY <1>3, EventIs DEF AppendSent, CutAppend, CallInv, OfPlanned
  <2>2. \A i \in Ids : /\ Planned(i)' => Planned(i)
                       /\ Sent(i)' => Sent(i) \/ i = job[p]
    BY <2>1, WriteMoves DEF Kinds
  <2>3. written' = written /\ (planned' = planned \/ NowPlanned)
    BY <1>3 DEF AppendSent, CutAppend
  <2> QED
    BY <1>l, <2>1, <2>2, <2>3 DEF LogInv, NowPlanned
<1>4. ASSUME UNCHANGED fileVars, UNCHANGED planned, written \subseteq written' PROVE LogInv'
  BY <1>4, <1>l, SameReads DEF LogInv
<1>5. ASSUME NEW p \in Procs,
             \/ BeginPlan(p) \/ BeginSend(p) \/ BeginMark(p) \/ WritePlan(p) \/ Arrive(p)
             \/ Answer(p) \/ Redirected(p) \/ Fail(p) \/ Timeout(p)
      PROVE  UNCHANGED fileVars /\ UNCHANGED planned /\ written \subseteq written'
  BY <1>5 DEF BeginPlan, BeginSend, BeginMark, WritePlan, Arrive, Answer, Redirected, Fail, Timeout
<1>6. ASSUME NEW p \in Procs, AppendPlanned(p) \/ AppendSent(p) \/ CutAppend(p) PROVE LogInv'
  BY <1>2, <1>3, <1>6
<1>7. UNCHANGED vars => LogInv'
  BY <1>4 DEF vars
<1>8. (\E p \in Procs : \/ BeginPlan(p) \/ BeginSend(p) \/ BeginMark(p) \/ WritePlan(p)
                        \/ Arrive(p) \/ Answer(p) \/ Redirected(p) \/ Fail(p) \/ Timeout(p))
      => LogInv'
  BY <1>4, <1>5
<1> QED
  BY <1>1, <1>6, <1>7, <1>8 DEF Next, Step

LEMMA StepRecorded == NotifyInv /\ [Next]_vars => RecordedUnlessFailed'
<1> SUFFICES ASSUME NotifyInv, [Next]_vars, NEW i \in Ids, delivered'[i] > 0
             PROVE  \/ Kept("notification_sent", i)' \/ i \in unrecorded'
                    \/ \E q \in Procs : i \in Owed(q)'
  BY DEF RecordedUnlessFailed
<1> DEFINE Goal == \/ Kept("notification_sent", i)' \/ i \in unrecorded'
                   \/ \E q \in Procs : i \in Owed(q)'
<1>o. /\ \A q \in Procs : Owed(q) = IF pc[q] \in {"arrived", "sent"} THEN {job[q]} ELSE {}
      /\ \A q \in Procs : Owed(q)' = IF pc'[q] \in {"arrived", "sent"} THEN {job'[q]} ELSE {}
  BY OwedIs, StepCall DEF NotifyInv, Owed, CallInv, InCall
<1>r. delivered[i] > 0 => \/ Kept("notification_sent", i) \/ i \in unrecorded
                          \/ \E q \in Procs : i \in Owed(q)
  BY DEF NotifyInv, RecordedUnlessFailed
<1> USE DEF NotifyInv
<1>t. /\ pc \in [Procs -> {"idle", "write", "plan", "post", "arrived", "sent", "turned", "mark"}]
      /\ job \in [Procs -> Ids \cup {NoJob}]
  BY DEF TypeOK
<1>s. Kept("notification_sent", i) => Kept("notification_sent", i)'
  <2>1. ASSUME NEW kind \in Kinds, NEW n \in Ids, Append1(E(kind, n)) \/ Cut(E(kind, n))
        PROVE  Kept("notification_sent", i) => Kept("notification_sent", i)'
    BY <2>1, AppendKeeps, CutKeeps
  <2>2. ASSUME NEW p \in Procs, AppendPlanned(p) \/ AppendSent(p) \/ CutAppend(p)
        PROVE  Kept("notification_sent", i) => Kept("notification_sent", i)'
    <3>1. pc[p] \in {"plan", "sent", "turned", "mark"} /\ (Append1(EventOf(p)) \/ Cut(EventOf(p)))
      BY <2>2 DEF AppendPlanned, AppendSent, CutAppend
    <3> QED
      BY <3>1, <2>1, EventIs DEF Kinds
  <2>3. ASSUME NEW id \in Ids, Record(id)
        PROVE  Kept("notification_sent", i) => Kept("notification_sent", i)'
    BY <2>1, <2>3 DEF Record, Kinds
  <2>4. UNCHANGED fileVars => (Kept("notification_sent", i) => Kept("notification_sent", i)')
    BY SameReads
  <2> QED
    BY <2>2, <2>3, <2>4
    DEF Next, Step, vars, BeginPlan, BeginSend, BeginMark, WritePlan,
        Timeout, Arrive, Answer, Redirected, Fail
<1>1. ASSUME UNCHANGED <<delivered, unrecorded, pc, job>> PROVE Goal
  BY <1>1, <1>o, <1>r, <1>s
<1>2. ASSUME NEW p \in Procs, pc[p] \notin {"arrived", "sent"},
             UNCHANGED <<delivered, unrecorded>>,
             \A q \in Procs \ {p} : pc'[q] = pc[q] /\ job'[q] = job[q]
      PROVE  Goal
  BY <1>2, <1>o, <1>r, <1>s
<1>3. ASSUME NEW p \in Procs, UNCHANGED delivered, unrecorded' = unrecorded \cup Owed(p),
             \A q \in Procs \ {p} : pc'[q] = pc[q] /\ job'[q] = job[q]
      PROVE  Goal
  BY <1>3, <1>o, <1>r, <1>s
<1>4. ASSUME NEW id \in Ids, Record(id) PROVE Goal
  BY <1>1, <1>4 DEF Record
<1>5. ASSUME NEW p \in Procs, BeginPlan(p) \/ BeginSend(p) \/ BeginMark(p) PROVE Goal
  BY <1>2, <1>5, <1>t DEF BeginPlan, BeginSend, BeginMark, Enter
<1>6. ASSUME NEW p \in Procs, WritePlan(p) \/ AppendPlanned(p) \/ Redirected(p) PROVE Goal
  BY <1>2, <1>6, <1>t DEF WritePlan, AppendPlanned, Redirected, Leave
<1>7. ASSUME NEW p \in Procs, Fail(p) \/ CutAppend(p) \/ Timeout(p) PROVE Goal
  BY <1>3, <1>7, <1>t DEF Fail, CutAppend, Timeout, Leave
<1>8. ASSUME NEW p \in Procs, Arrive(p) PROVE Goal
  <2>1. job[p] \in Ids /\ pc'[p] = "arrived" /\ job' = job
    BY <1>8, <1>t DEF Arrive, CallInv, InCall
  <2>2. CASE i = job[p]
    BY <2>1, <2>2, <1>o
  <2>3. CASE i # job[p]
    <3>1. delivered[i] > 0
      BY <1>8, <2>1, <2>3 DEF Arrive, TypeOK
    <3>2. \A q \in Procs : Owed(q) \subseteq Owed(q)'
      BY <1>8, <2>1, <1>o, <1>t DEF Arrive
    <3> QED
      BY <1>8, <1>r, <1>s, <3>1, <3>2 DEF Arrive
  <2> QED
    BY <2>2, <2>3
<1>9. ASSUME NEW p \in Procs, Answer(p) PROVE Goal
  <2>1. \A q \in Procs : Owed(q) \subseteq Owed(q)'
    BY <1>9, <1>o, <1>t DEF Answer
  <2> QED
    BY <1>9, <1>r, <1>s, <2>1 DEF Answer
<1>10. ASSUME NEW p \in Procs, AppendSent(p) PROVE Goal
  <2>1. CASE ~Clean
    BY <1>3, <1>10, <2>1, <1>t DEF AppendSent, Leave
  <2>2. CASE Clean
    <3>1. job[p] \in Ids /\ Append1(E("notification_sent", job[p]))
      BY <1>10, EventIs DEF AppendSent
    <3>2. i = job[p] => Kept("notification_sent", i)'
      BY <2>2, <3>1, AppendKeeps DEF Kinds
    <3>3. delivered[i] > 0 /\ unrecorded' = unrecorded
      BY <1>10, <2>2 DEF AppendSent
    <3>4. \A q \in Procs \ {p} : Owed(q) = Owed(q)'
      BY <1>10, <1>o, <1>t DEF AppendSent, Leave
    <3>5. CASE i = job[p]
      BY <3>2, <3>5
    <3>6. CASE i # job[p]
      BY <1>r, <1>s, <1>o, <3>3, <3>4, <3>6
    <3> QED
      BY <3>5, <3>6
  <2> QED
    BY <2>1, <2>2
<1>11. ASSUME UNCHANGED vars PROVE Goal
  BY <1>1, <1>11 DEF vars
<1> QED
  BY <1>4, <1>5, <1>6, <1>7, <1>8, <1>9, <1>10, <1>11 DEF Next, Step

THEOREM InvHolds == Spec => []NotifyInv
<1>1. NotifyInv /\ [Next]_vars => NotifyInv'
  BY StepType, StepCall, StepLog, StepRecorded DEF NotifyInv
<1> QED
  BY InitInv, <1>1, PTL DEF Spec

\* The type invariant, for any processes, runs and digests.
THEOREM TypeCorrect == Spec => []TypeOK
<1>1. NotifyInv => TypeOK
  BY DEF NotifyInv
<1> QED
  BY InvHolds, <1>1, PTL

\* A delivery is in the log as sent, for good, or about to be, unless a call
\* that made one failed, died or lost its event.
THEOREM DeliveriesAreRecorded == Spec => []RecordedUnlessFailed
<1>1. NotifyInv => RecordedUnlessFailed
  BY DEF NotifyInv
<1> QED
  BY InvHolds, <1>1, PTL

-----------------------------------------------------------------------------
(***************************************************************************)
(* Notify implements Outbox.                                               *)
(***************************************************************************)
LEMMA InitOutbox == Init => Promise!OutboxInit
<1> SUFFICES ASSUME Init PROVE Promise!OutboxInit
  OBVIOUS
<1>1. \A k, id : ~Has(k, id) /\ ~Kept(k, id)
  BY DEF Init, Has, Kept
<1> QED
  BY <1>1 DEF Init, Promise!OutboxInit, State, Sure, Planned, Sent

\* Every step of a call is a step of the outbox or none.
LEMMA StepOutbox == NotifyInv /\ [Next]_vars => [Promise!OutboxNext]_(Promise!outboxVars)
<1> SUFFICES ASSUME NotifyInv, [Next]_vars
             PROVE  [Promise!OutboxNext]_(Promise!outboxVars)
  OBVIOUS
<1> DEFINE Goal == [Promise!OutboxNext]_(Promise!outboxVars)
           Rest == <<written, delivered, marked, diverted>>
<1> USE DEF NotifyInv
<1>0. ASSUME States' = States, Sures' = Sures, UNCHANGED <<Rest, planned>> PROVE Goal
  BY <1>0 DEF Promise!outboxVars, States, Sures
<1>f. ASSUME States' = Sures, Sures' = Sures, UNCHANGED <<Rest, planned>> PROVE Goal
  <2>1. Promise!FallBack
    BY <1>f DEF Promise!FallBack, States, Sures
  <2> QED
    BY <2>1 DEF Promise!OutboxNext
<1>s. UNCHANGED fileVars => States' = States /\ Sures' = Sures
  BY SameReads
<1>l. \A id \in Ids : Planned(id) \/ Sent(id) => id \in planned
  BY DEF LogInv
<1>1. ASSUME NEW id \in Ids, Record(id) PROVE Goal
  <2>1. Moved("report", id) = States
    BY DEF Moved
  <2>2. \/ States' = Sures /\ Sures' = Sures
        \/ States = Sures /\ States' = States /\ (Sures' = States' \/ Sures' = Sures)
    BY <1>1, <2>1, WriteMoves DEF Record, Kinds
  <2> QED
    BY <1>0, <1>f, <1>1, <2>2 DEF Record
<1>2. ASSUME NEW p \in Procs, WritePlan(p) PROVE Goal
  <2>1. job[p] \in Ids /\ States' = States /\ Sures' = Sures
    BY <1>2, <1>s DEF WritePlan, CallInv, InCall
  <2>2. Promise!HandOut(job[p])
    BY <1>2, <2>1 DEF WritePlan, Promise!HandOut, States, Sures
  <2> QED
    BY <2>1, <2>2 DEF Promise!OutboxNext
<1>3. ASSUME NEW p \in Procs, AppendPlanned(p) \/ (CutAppend(p) /\ pc[p] = "plan") PROVE Goal
  <2> DEFINE n == job[p]
  <2>1. /\ n \in Ids /\ n \in written
        /\ Append1(E("notification_planned", n)) \/ Cut(E("notification_planned", n))
        /\ NowPlanned /\ UNCHANGED Rest
    BY <1>3, EventIs DEF AppendPlanned, CutAppend, CallInv
  <2>2. \/ /\ States' = Sures /\ Sures' = Sures
           /\ \A id \in Ids : Planned(id)' => Planned(id)
        \/ /\ States = Sures /\ States' = Moved("notification_planned", n)
           /\ Sures' = States' \/ Sures' = Sures
           /\ \A id \in Ids : Planned(id)' <=> (Planned(id) \/ id = n)
    BY <2>1, WriteMoves DEF Kinds
  <2>3. CASE States' = Sures /\ Sures' = Sures /\ \A id \in Ids : Planned(id)' => Planned(id)
    <3>1. planned' = planned
      BY <1>l, <2>1, <2>3 DEF NowPlanned
    <3> QED
      BY <1>f, <2>1, <2>3, <3>1
  <2>4. CASE /\ States = Sures /\ States' = Moved("notification_planned", n)
             /\ Sures' = States' \/ Sures' = Sures
             /\ \A id \in Ids : Planned(id)' <=> (Planned(id) \/ id = n)
    <3>1. planned' = planned \cup {n}
      BY <1>l, <2>1, <2>4 DEF NowPlanned
    <3>2. CASE State(n) = "none"
      <4>1. States' = [States EXCEPT ![n] = "pending"]
        BY <2>4, <3>2 DEF Moved
      <4>2. Promise!Plan(n)
        BY <2>1, <2>4, <3>1, <3>2, <4>1 DEF Promise!Plan, Promise!Move, States, Sures
      <4> QED
        BY <2>1, <4>2 DEF Promise!OutboxNext
    <3>3. CASE State(n) # "none"
      <4>1. n \in planned /\ States' = States
        BY <1>l, <2>1, <2>4, <3>3 DEF State, Moved
      <4> QED
        BY <1>0, <2>1, <2>4, <3>1, <4>1
    <3> QED
      BY <3>2, <3>3
  <2> QED
    BY <2>2, <2>3, <2>4
<1>4. ASSUME NEW p \in Procs, AppendSent(p) \/ (CutAppend(p) /\ pc[p] # "plan") PROVE Goal
  <2> DEFINE n == job[p]
  <2>1. /\ n \in Ids /\ (delivered[n] > 0 \/ n \in marked \cup diverted)
        /\ Append1(E("notification_sent", n)) \/ Cut(E("notification_sent", n))
        /\ planned' = planned \/ NowPlanned
        /\ UNCHANGED Rest
    BY <1>4, EventIs DEF AppendSent, CutAppend, CallInv
  <2>2. \/ /\ States' = Sures /\ Sures' = Sures
           /\ \A id \in Ids : Planned(id)' => Planned(id)
        \/ /\ States = Sures /\ States' = Moved("notification_sent", n)
           /\ Sures' = States' \/ Sures' = Sures
           /\ \A id \in Ids : Planned(id)' => Planned(id)
    BY <2>1, WriteMoves DEF Kinds
  <2>3. planned' = planned
    BY <1>l, <2>1, <2>2 DEF NowPlanned
  <2>4. CASE States' = Sures /\ Sures' = Sures
    BY <1>f, <2>1, <2>3, <2>4
  <2>5. CASE /\ States = Sures /\ States' = Moved("notification_sent", n)
             /\ Sures' = States' \/ Sures' = Sures
    <3>1. States' = [States EXCEPT ![n] = "settled"]
      BY <2>5 DEF Moved
    <3>2. CASE State(n) = "settled"
      <4>1. States' = States
        BY <2>1, <3>1, <3>2 DEF States
      <4> QED
        BY <1>0, <2>1, <2>3, <2>5, <4>1
    <3>3. CASE State(n) # "settled"
      <4>1. Promise!Settle(n)
        BY <2>1, <2>3, <2>5, <3>1, <3>3 DEF Promise!Settle, Promise!Move, States, Sures
      <4> QED
        BY <2>1, <4>1 DEF Promise!OutboxNext
    <3> QED
      BY <3>2, <3>3
  <2> QED
    BY <2>2, <2>4, <2>5
<1>5. ASSUME NEW p \in Procs, Arrive(p) PROVE Goal
  <2>1. job[p] \in Ids /\ job[p] \in planned /\ States' = States /\ Sures' = Sures
    BY <1>5, <1>s DEF Arrive, CallInv, InCall, OfPlanned
  <2>2. Promise!Deliver(job[p])
    BY <1>5, <2>1 DEF Arrive, Promise!Deliver, States, Sures
  <2> QED
    BY <2>1, <2>2 DEF Promise!OutboxNext
<1>6. ASSUME NEW p \in Procs, Redirected(p) PROVE Goal
  <2>1. job[p] \in Ids /\ job[p] \in planned /\ States' = States /\ Sures' = Sures
    BY <1>6, <1>s DEF Redirected, CallInv, InCall, OfPlanned
  <2>2. Promise!Divert(job[p])
    BY <1>6, <2>1 DEF Redirected, Promise!Divert, States, Sures
  <2> QED
    BY <2>1, <2>2 DEF Promise!OutboxNext
<1>7. ASSUME NEW p \in Procs, BeginMark(p) PROVE Goal
  <2>1. PICK id \in Ids : Planned(id) /\ marked' = marked \cup {id}
    BY <1>7 DEF BeginMark
  <2>2. id \in planned /\ States' = States /\ Sures' = Sures
    BY <1>7, <1>s, <1>l, <2>1 DEF BeginMark
  <2>3. Promise!DeclareSent(id)
    BY <1>7, <2>1, <2>2 DEF BeginMark, Promise!DeclareSent, States, Sures
  <2> QED
    BY <2>1, <2>3 DEF Promise!OutboxNext
<1>8. ASSUME NEW p \in Procs,
             BeginPlan(p) \/ BeginSend(p) \/ Answer(p) \/ Fail(p) \/ Timeout(p)
      PROVE  Goal
  <2>1. UNCHANGED fileVars /\ UNCHANGED <<Rest, planned>>
    BY <1>8 DEF BeginPlan, BeginSend, Answer, Fail, Timeout
  <2> QED
    BY <1>0, <1>s, <2>1
<1>9. ASSUME UNCHANGED vars PROVE Goal
  <2>1. UNCHANGED fileVars /\ UNCHANGED <<Rest, planned>>
    BY <1>9 DEF vars
  <2> QED
    BY <1>0, <1>s, <2>1
<1>10. ASSUME NEW p \in Procs, AppendPlanned(p) \/ AppendSent(p) \/ CutAppend(p) PROVE Goal
  BY <1>3, <1>4, <1>10
<1> QED
  BY <1>1, <1>2, <1>5, <1>6, <1>7, <1>8, <1>9, <1>10 DEF Next, Step

\* notify is an at-least-once outbox: the event log, with cut lines, failed
\* calls, redirected requests and repeated events, maps every step to one of the
\* outbox or to none.
THEOREM Refinement == Spec => ImplementsOutbox
<1>1. NotifyInv /\ [Next]_vars => [Promise!OutboxNext]_(Promise!outboxVars)
  BY StepOutbox
<1> QED
  BY InvHolds, InitOutbox, <1>1, PTL DEF Spec, ImplementsOutbox, Promise!OutboxSpec
=============================================================================
