----------------------------- MODULE ScanProofs -----------------------------
(***************************************************************************)
(* Proofs about AdvisoryCache and Scan, for any guards, scanners, packages,*)
(* files and tools, any TTL and any bounds.                                *)
(***************************************************************************)
EXTENDS Scan, FiniteSetTheorems, TLAPS
-----------------------------------------------------------------------------
(***************************************************************************)
(* The cache.                                                              *)
(***************************************************************************)
\* OSV gave the answer about pkg, or left pkg out and it counts as clean, at the
\* time t or later.
Since(pkg, answer, t) ==
  \/ given[<<pkg, answer>>] # Never /\ t <= given[<<pkg, answer>>]
  \/ answer = "clean" /\ omitted[pkg] # Never /\ t <= omitted[pkg]

CacheInv ==
  /\ CacheTypeOK
  /\ \A a \in Packages \X Answers : given[a] <= time
  /\ \A pkg \in Packages : omitted[pkg] <= time
  /\ \A p \in Procs : lock = p <=> pc[p] = "save"
  /\ \A p \in Procs : pc[p] = "save" => job[p].copy = cache
  /\ \A pkg \in Packages : cache[pkg].answer # "none" =>
       Since(pkg, cache[pkg].answer, cache[pkg].checkedAt)
  /\ \A p \in Procs : pc[p] \in {"lock", "save"} =>
       \A pkg \in job[p].put : /\ job[p].got[pkg] \in Answers
                               /\ Since(pkg, job[p].got[pkg], job[p].stamp)

\* What a job is made of.
LEMMA JobFields ==
  ASSUME NEW look \in SUBSET Packages, NEW ask \in SUBSET Packages, NEW put \in SUBSET Packages,
         NEW got \in [Packages -> Answers \cup {"none"}], NEW stamp \in Int, NEW bad \in BOOLEAN,
         NEW copy \in Content
  PROVE  [look |-> look, ask |-> ask, put |-> put, got |-> got, stamp |-> stamp,
          failed |-> bad, copy |-> copy] \in Job
BY DEF Job

LEMMA NoJobType == NoJob \in Job /\ NoContent \in Content
<1>1. NoContent \in Content
  BY DEF NoContent, Content
<1>2. [pkg \in Packages |-> "none"] \in [Packages -> Answers \cup {"none"}]
  OBVIOUS
<1> QED
  BY <1>1, <1>2 DEF NoJob, Job

LEMMA InitCache == CacheInit => CacheInv
<1> SUFFICES ASSUME CacheInit PROVE CacheInv
  OBVIOUS
<1>1. CacheTypeOK
  <2>1. given \in [Packages \X Answers -> 0 .. MaxTime \cup {Never}]
    BY AdvisoryCacheAssumption DEF CacheInit
  <2>3. omitted \in [Packages -> 0 .. MaxTime \cup {Never}]
    BY AdvisoryCacheAssumption DEF CacheInit
  <2>2. time \in 0 .. MaxTime /\ back \in 0 .. MaxBack /\ calls \in 0 .. MaxCalls
    BY AdvisoryCacheAssumption DEF CacheInit
  <2> QED
    BY <2>1, <2>2, <2>3, NoJobType DEF CacheInit, CacheTypeOK
<1>2. /\ \A a \in Packages \X Answers : given[a] <= time
      /\ \A pkg \in Packages : omitted[pkg] <= time
  BY DEF CacheInit, Never
<1>3. \A p \in Procs : pc[p] = "idle" /\ lock # p
  BY AdvisoryCacheAssumption DEF CacheInit
<1>4. \A pkg \in Packages : cache[pkg].answer = "none"
  BY DEF CacheInit, NoContent, NoEntry
<1> QED
  BY <1>1, <1>2, <1>3, <1>4 DEF CacheInv

\* What a step of one process does to the others.
LEMMA JobOf ==
  ASSUME CacheTypeOK, NEW p \in Procs, NEW r \in Job, job' = [job EXCEPT ![p] = r]
  PROVE  /\ job' \in [Procs -> Job] /\ job'[p] = r
         /\ \A q \in Procs \ {p} : job'[q] = job[q]
BY DEF CacheTypeOK

\* A process whose call works on neither the lock nor the file goes on.
LEMMA ApartFromFile ==
  ASSUME CacheInv, NEW p \in Procs, UNCHANGED <<cache, lock, time, back, given, omitted>>,
         calls' \in 0 .. MaxCalls, NEW r \in Job, job' = [job EXCEPT ![p] = r],
         NEW where \in {"idle", "look", "ask", "fallback", "answered"}, Goto(p, where),
         pc[p] \notin {"lock", "save"}
  PROVE  CacheInv'
<1> USE DEF CacheInv
<1>1. /\ job' \in [Procs -> Job] /\ job'[p] = r
      /\ \A q \in Procs \ {p} : job'[q] = job[q]
  BY JobOf
<1>2. /\ pc'[p] = where /\ \A q \in Procs \ {p} : pc'[q] = pc[q]
      /\ pc' \in [Procs -> {"idle", "look", "ask", "fallback", "lock", "save", "answered"}]
  BY DEF Goto, CacheTypeOK
<1>3. CacheTypeOK'
  BY <1>1, <1>2 DEF CacheTypeOK
<1>4. \A p_1 \in Procs : lock' = p_1 <=> pc'[p_1] = "save"
  BY <1>2
<1>5. \A p_1 \in Procs : pc'[p_1] = "save" => job'[p_1].copy = cache'
  BY <1>1, <1>2
<1>6. \A q \in Procs : pc'[q] \in {"lock", "save"} =>
        \A pkg \in job'[q].put : /\ job'[q].got[pkg] \in Answers
                                 /\ Since(pkg, job'[q].got[pkg], job'[q].stamp)
  BY <1>1, <1>2
<1> QED
  BY <1>3, <1>4, <1>5, <1>6 DEF Since

\* A process is done with one answer, whether or not it was saved.
LEMMA AfterOnePut ==
  ASSUME CacheInv, NEW p \in Procs, pc[p] \in {"lock", "save"},
         NEW pkg \in job[p].put, AfterPut(p, pkg),
         UNCHANGED <<time, back, given, omitted, calls>>, cache' \in Content,
         \/ UNCHANGED cache
         \/ pc[p] = "save",
         \A other \in Packages : cache'[other].answer # "none" =>
           Since(other, cache'[other].answer, cache'[other].checkedAt)
  PROVE  CacheInv'
<1> DEFINE r == [job[p] EXCEPT !.put = @ \ {pkg}, !.copy = NoContent]
<1>t. CacheTypeOK /\ job[p] \in Job
  BY DEF CacheInv, CacheTypeOK
<1>1. /\ r \in Job /\ r.put \subseteq job[p].put /\ r.got = job[p].got /\ r.stamp = job[p].stamp
  BY <1>t, NoJobType DEF Job
<1>2. job' = [job EXCEPT ![p] = r]
  BY <1>t DEF AfterPut, CacheTypeOK, Job
<1> HIDE DEF r
<1>3. /\ job' \in [Procs -> Job] /\ job'[p] = r
      /\ \A q \in Procs \ {p} : job'[q] = job[q]
  BY <1>t, <1>1, <1>2, JobOf
<1>4. /\ pc'[p] \in {"lock", "answered"} /\ \A q \in Procs \ {p} : pc'[q] = pc[q]
      /\ pc' \in [Procs -> {"idle", "look", "ask", "fallback", "lock", "save", "answered"}]
      /\ lock' = IF lock = p THEN None ELSE lock
  BY <1>t DEF AfterPut, Goto, CacheTypeOK
<1>5. CacheTypeOK'
  BY <1>t, <1>3, <1>4 DEF CacheTypeOK
<1>6. \A q \in Procs : lock' = q <=> pc'[q] = "save"
  BY <1>4, AdvisoryCacheAssumption DEF CacheInv
<1>7. \A q \in Procs : pc'[q] = "save" => job'[q].copy = cache'
  BY <1>3, <1>4 DEF CacheInv
<1>8. \A q \in Procs : pc'[q] \in {"lock", "save"} =>
        \A other \in job'[q].put : /\ job'[q].got[other] \in Answers
                                   /\ Since(other, job[q].got[other], job[q].stamp)'
  BY <1>1, <1>3, <1>4 DEF CacheInv, Since
<1> QED
  BY <1>5, <1>6, <1>7, <1>8 DEF CacheInv, Since

LEMMA StepCache == CacheInv /\ [CacheNext]_cacheVars => CacheInv'
<1> SUFFICES ASSUME CacheInv, [CacheNext]_cacheVars PROVE CacheInv'
  OBVIOUS
<1>t. CacheTypeOK /\ \A p \in Procs : job[p] \in Job
  BY DEF CacheInv, CacheTypeOK
<1>1. ASSUME NEW p \in Guards, BeginRefresh(p) PROVE CacheInv'
  <2>1. PICK pkg \in Packages : job' = [job EXCEPT ![p] = [NoJob EXCEPT !.ask = {pkg}]]
    BY <1>1 DEF BeginRefresh
  <2>2. [NoJob EXCEPT !.ask = {pkg}] \in Job
    BY NoJobType DEF Job
  <2>3. p \in Procs /\ calls' \in 0 .. MaxCalls
    BY <1>1, <1>t, AdvisoryCacheAssumption DEF BeginRefresh, CacheTypeOK, Procs
  <2> QED
    BY <1>1, <2>1, <2>2, <2>3, ApartFromFile DEF BeginRefresh
<1>2. ASSUME NEW p \in Scanners, NEW c \in SUBSET Packages, BeginQuery(p, c) PROVE CacheInv'
  <2>1. [NoJob EXCEPT !.look = c] \in Job
    BY NoJobType DEF Job
  <2>2. p \in Procs /\ calls' \in 0 .. MaxCalls
    BY <1>2, <1>t DEF BeginQuery, CacheTypeOK, Procs
  <2>3. (IF c = {} THEN "answered" ELSE "look") \in {"idle", "look", "ask", "fallback", "answered"}
    OBVIOUS
  <2> QED
    BY <1>2, <2>1, <2>2, <2>3, ApartFromFile DEF BeginQuery
<1>3. ASSUME NEW p \in Procs, LookUp(p) PROVE CacheInv'
  <2>1. PICK pkg \in job[p].look :
          LET look == job[p].look \ {pkg}
              ask  == IF Fresh(pkg) THEN job[p].ask ELSE job[p].ask \cup {pkg}
          IN /\ job' = [job EXCEPT ![p].look = look, ![p].ask = ask,
                          ![p].got[pkg] = IF Fresh(pkg) THEN cache[pkg].answer ELSE @]
             /\ Goto(p, IF look # {} THEN "look" ELSE IF ask # {} THEN "ask" ELSE "answered")
    BY <1>3 DEF LookUp
  <2> DEFINE look == job[p].look \ {pkg}
             ask  == IF Fresh(pkg) THEN job[p].ask ELSE job[p].ask \cup {pkg}
             got  == [job[p].got EXCEPT ![pkg] = IF Fresh(pkg) THEN cache[pkg].answer ELSE @]
             r    == [job[p] EXCEPT !.look = look, !.ask = ask, !.got = got]
  <2>2. pkg \in Packages
    BY <1>t DEF Job
  <2>3. got \in [Packages -> Answers \cup {"none"}]
    BY <1>t, <2>2 DEF Job, CacheTypeOK, Content, Entry, NoEntry
  <2>4. r \in Job
    <3>1. look \in SUBSET Packages /\ ask \in SUBSET Packages
      BY <1>t, <2>2 DEF Job
    <3> HIDE DEF look, ask, got
    <3> QED
      BY <1>t, <2>3, <3>1 DEF Job
  <2>5. job' = [job EXCEPT ![p] = r]
    BY <1>t, <2>1, <2>2 DEF Job, CacheTypeOK
  <2>6. (IF look # {} THEN "look" ELSE IF ask # {} THEN "ask" ELSE "answered")
          \in {"idle", "look", "ask", "fallback", "answered"}
    OBVIOUS
  <2>7. calls' \in 0 .. MaxCalls
    BY <1>3, <1>t DEF LookUp, CacheTypeOK
  <2> HIDE DEF look, ask, r
  <2> QED
    BY <1>3, <2>1, <2>4, <2>5, <2>6, <2>7, ApartFromFile DEF LookUp, look, ask
<1>4. ASSUME NEW p \in Procs, AskFails(p) PROVE CacheInv'
  <2> DEFINE r == [job[p] EXCEPT !.ask = {}, !.look = job[p].ask, !.failed = TRUE]
  <2>1. r \in Job
    BY <1>t DEF Job
  <2>2. job' = [job EXCEPT ![p] = r]
    BY <1>4, <1>t DEF AskFails, Job, CacheTypeOK
  <2>3. (IF p \in Guards THEN "fallback" ELSE "answered")
          \in {"idle", "look", "ask", "fallback", "answered"}
    OBVIOUS
  <2>4. calls' \in 0 .. MaxCalls
    BY <1>4, <1>t DEF AskFails, CacheTypeOK
  <2> HIDE DEF r
  <2> QED
    BY <1>4, <2>1, <2>2, <2>3, <2>4, ApartFromFile DEF AskFails
<1>5. ASSUME NEW p \in Procs, Fallback(p) PROVE CacheInv'
  <2>1. PICK pkg \in job[p].look :
          job' = [job EXCEPT ![p].look = {}, ![p].failed = ~Fresh(pkg),
                    ![p].got[pkg] = IF Fresh(pkg) THEN cache[pkg].answer ELSE @]
    BY <1>5 DEF Fallback
  <2> DEFINE got == [job[p].got EXCEPT ![pkg] = IF Fresh(pkg) THEN cache[pkg].answer ELSE @]
             r   == [job[p] EXCEPT !.look = {}, !.failed = ~Fresh(pkg), !.got = got]
  <2>2. pkg \in Packages
    BY <1>t DEF Job
  <2>3. got \in [Packages -> Answers \cup {"none"}]
    BY <1>t, <2>2 DEF Job, CacheTypeOK, Content, Entry, NoEntry
  <2>4. r \in Job
    <3>1. (~Fresh(pkg)) \in BOOLEAN
      BY DEF Fresh
    <3> HIDE DEF got
    <3> QED
      BY <1>t, <2>3, <3>1 DEF Job
  <2>5. job' = [job EXCEPT ![p] = r]
    BY <1>t, <2>1, <2>2 DEF Job, CacheTypeOK
  <2>6. calls' \in 0 .. MaxCalls
    BY <1>5, <1>t DEF Fallback, CacheTypeOK
  <2> HIDE DEF r
  <2> QED
    BY <1>5, <2>4, <2>5, <2>6, ApartFromFile DEF Fallback
<1>6. ASSUME NEW p \in Procs, Return(p) PROVE CacheInv'
  <2>1. calls' \in 0 .. MaxCalls
    BY <1>6, <1>t DEF Return, CacheTypeOK
  <2> QED
    BY <1>6, <2>1, NoJobType, ApartFromFile DEF Return
<1>7. ASSUME NEW p \in Procs, Ask(p) PROVE CacheInv'
  <2>1. PICK named \in SUBSET job[p].ask, answer \in [job[p].ask -> Answers] :
          /\ \A pkg \in job[p].ask \ named : answer[pkg] = "clean"
          /\ given' = [a \in Packages \X Answers |->
                         IF a[1] \in named /\ answer[a[1]] = a[2] THEN time ELSE given[a]]
          /\ omitted' = [pkg \in Packages |->
                           IF pkg \in job[p].ask \ named THEN time ELSE omitted[pkg]]
          /\ job' = [job EXCEPT ![p].ask = {}, ![p].put = job[p].ask, ![p].stamp = Wall,
                       ![p].got = [pkg \in Packages |-> IF pkg \in job[p].ask THEN answer[pkg]
                                                                              ELSE job[p].got[pkg]]]
    BY <1>7 DEF Ask
  <2> DEFINE got == [pkg \in Packages |-> IF pkg \in job[p].ask THEN answer[pkg]
                                                               ELSE job[p].got[pkg]]
             r   == [job[p] EXCEPT !.ask = {}, !.put = job[p].ask, !.stamp = Wall, !.got = got]
  <2>2. r \in Job
    <3>1. got \in [Packages -> Answers \cup {"none"}]
      BY <1>t DEF Job
    <3>2. Wall \in Int
      BY <1>t DEF Wall, CacheTypeOK
    <3> HIDE DEF got
    <3> QED
      BY <1>t, <3>1, <3>2 DEF Job
  <2>3. job' = [job EXCEPT ![p] = r]
    BY <1>t, <2>1 DEF Job, CacheTypeOK
  <2>4. /\ job' \in [Procs -> Job] /\ job'[p] = r
        /\ \A q \in Procs \ {p} : job'[q] = job[q]
    BY <1>t, <2>2, <2>3, JobOf
  <2>5. /\ pc[p] = "ask" /\ pc'[p] = "lock" /\ \A q \in Procs \ {p} : pc'[q] = pc[q]
        /\ pc' \in [Procs -> {"idle", "look", "ask", "fallback", "lock", "save", "answered"}]
        /\ UNCHANGED <<cache, lock, time, back, calls>>
    BY <1>7, <1>t DEF Ask, Goto, CacheTypeOK
  <2>6. \A a \in Packages \X Answers :
          /\ given'[a] \in 0 .. MaxTime \cup {Never} /\ given'[a] <= time
          /\ given[a] <= given'[a] /\ (given[a] # Never => given'[a] # Never)
    BY <2>1, AdvisoryCacheAssumption DEF CacheInv, CacheTypeOK, Never
  <2>o. \A pkg \in Packages :
          /\ omitted'[pkg] \in 0 .. MaxTime \cup {Never} /\ omitted'[pkg] <= time
          /\ omitted[pkg] <= omitted'[pkg] /\ (omitted[pkg] # Never => omitted'[pkg] # Never)
    BY <2>1, AdvisoryCacheAssumption DEF CacheInv, CacheTypeOK, Never
  <2>7. CacheTypeOK'
    <3>1. given' \in [Packages \X Answers -> 0 .. MaxTime \cup {Never}]
      BY <2>1, <2>6
    <3>2. omitted' \in [Packages -> 0 .. MaxTime \cup {Never}]
      BY <2>1, <2>o
    <3> QED
      BY <1>t, <2>4, <2>5, <3>1, <3>2 DEF CacheTypeOK
  <2>8. \A pkg \in Packages, a \in Answers, t \in Int : Since(pkg, a, t) => Since(pkg, a, t)'
    <3> SUFFICES ASSUME NEW pkg \in Packages, NEW a \in Answers, NEW t \in Int, Since(pkg, a, t)
                 PROVE  Since(pkg, a, t)'
      OBVIOUS
    <3>1. /\ given[<<pkg, a>>] \in Int /\ given'[<<pkg, a>>] \in Int
          /\ given[<<pkg, a>>] <= given'[<<pkg, a>>]
          /\ (given[<<pkg, a>>] # Never => given'[<<pkg, a>>] # Never)
      BY <1>t, <2>6 DEF CacheTypeOK, Never
    <3>2. /\ omitted[pkg] \in Int /\ omitted'[pkg] \in Int /\ omitted[pkg] <= omitted'[pkg]
          /\ (omitted[pkg] # Never => omitted'[pkg] # Never)
      BY <1>t, <2>o DEF CacheTypeOK, Never
    <3> QED
      BY <3>1, <3>2 DEF Since
  <2>9. \A pkg \in Packages : cache'[pkg].answer # "none" =>
          Since(pkg, cache[pkg].answer, cache[pkg].checkedAt)'
    BY <1>t, <2>5, <2>8 DEF CacheInv, CacheTypeOK, Content, Entry, NoEntry
  <2>10. \A q \in Procs : pc'[q] \in {"lock", "save"} =>
          \A pkg \in job'[q].put : /\ job'[q].got[pkg] \in Answers
                                   /\ Since(pkg, job[q].got[pkg], job[q].stamp)'
    <3> SUFFICES ASSUME NEW q \in Procs, pc'[q] \in {"lock", "save"}, NEW pkg \in job'[q].put
                 PROVE  job'[q].got[pkg] \in Answers /\ Since(pkg, job[q].got[pkg], job[q].stamp)'
      OBVIOUS
    <3>1. CASE q = p
      <4>1. /\ pkg \in job[p].ask /\ pkg \in Packages
            /\ job'[p].got[pkg] = answer[pkg] /\ job'[p].stamp = Wall
        <5>1. r.put = job[p].ask /\ r.got = got /\ r.stamp = Wall
          BY <1>t DEF Job
        <5>2. pkg \in job[p].ask /\ pkg \in Packages
          BY <1>t, <2>4, <3>1, <5>1 DEF Job
        <5> QED
          BY <2>4, <5>1, <5>2
      <4>2. /\ answer[pkg] \in Answers
            /\ \/ given'[<<pkg, answer[pkg]>>] = time
               \/ answer[pkg] = "clean" /\ omitted'[pkg] = time
        BY <2>1, <4>1
      <4>3. Wall <= time /\ time # Never
        BY <1>t DEF Wall, CacheTypeOK, Never
      <4> QED
        BY <3>1, <4>1, <4>2, <4>3 DEF Since
    <3>2. CASE q # p
      <4>1. job'[q] = job[q] /\ pc'[q] = pc[q] /\ job[q] \in Job
        BY <1>t, <2>4, <2>5, <3>2
      <4> QED
        BY <2>8, <4>1 DEF CacheInv, Job
    <3> QED
      BY <3>1, <3>2
  <2>11. \A q \in Procs : /\ lock' = q <=> pc'[q] = "save"
                          /\ pc'[q] = "save" => job'[q].copy = cache'
    BY <2>4, <2>5 DEF CacheInv
  <2> QED
    BY <2>5, <2>6, <2>o, <2>7, <2>9, <2>10, <2>11 DEF CacheInv
<1>8. ASSUME NEW p \in Procs, PutLoad(p) PROVE CacheInv'
  <2> DEFINE r == [job[p] EXCEPT !.copy = cache]
  <2>1. r \in Job /\ r.copy = cache /\ r.put = job[p].put /\ r.got = job[p].got
        /\ r.stamp = job[p].stamp
    BY <1>t DEF Job, CacheTypeOK
  <2>2. job' = [job EXCEPT ![p] = r]
    BY <1>8, <1>t DEF PutLoad, CacheTypeOK
  <2> HIDE DEF r
  <2>3. /\ job' \in [Procs -> Job] /\ job'[p] = r
        /\ \A q \in Procs \ {p} : job'[q] = job[q]
    BY <1>t, <2>1, <2>2, JobOf
  <2>4. /\ pc[p] = "lock" /\ pc'[p] = "save" /\ \A q \in Procs \ {p} : pc'[q] = pc[q]
        /\ pc' \in [Procs -> {"idle", "look", "ask", "fallback", "lock", "save", "answered"}]
        /\ UNCHANGED <<cache, time, back, calls, given, omitted>> /\ lock = None /\ lock' = p
    BY <1>8, <1>t DEF PutLoad, Goto, CacheTypeOK
  <2>5. CacheTypeOK'
    BY <1>t, <2>3, <2>4 DEF CacheTypeOK
  <2>6. \A q \in Procs : /\ lock' = q <=> pc'[q] = "save"
                         /\ pc'[q] = "save" => job'[q].copy = cache'
    BY <2>1, <2>3, <2>4, AdvisoryCacheAssumption DEF CacheInv
  <2>7. \A q \in Procs : pc'[q] \in {"lock", "save"} =>
          \A pkg \in job'[q].put : /\ job'[q].got[pkg] \in Answers
                                   /\ Since(pkg, job[q].got[pkg], job[q].stamp)'
    BY <2>1, <2>3, <2>4 DEF CacheInv, Since
  <2> QED
    BY <2>4, <2>5, <2>6, <2>7 DEF CacheInv, Since
<1>9. ASSUME NEW p \in Procs, PutSave(p) PROVE CacheInv'
  <2>1. PICK pkg \in job[p].put :
          cache' = [job[p].copy EXCEPT ![pkg] = EntryOf(p, pkg)] /\ AfterPut(p, pkg)
    BY <1>9 DEF PutSave
  <2>2. /\ pc[p] = "save" /\ lock = p /\ job[p].copy = cache /\ pkg \in Packages
        /\ job[p].got[pkg] \in Answers /\ Since(pkg, job[p].got[pkg], job[p].stamp)
    BY <1>9, <1>t DEF PutSave, CacheInv, Job
  <2>3. EntryOf(p, pkg) \in Entry
    BY <1>t, <2>2 DEF EntryOf, Entry, Job
  <2>4. /\ cache' \in Content /\ cache'[pkg] = EntryOf(p, pkg)
        /\ \A other \in Packages \ {pkg} : cache'[other] = cache[other]
    BY <1>t, <2>1, <2>2, <2>3 DEF CacheTypeOK, Content
  <2>5. /\ UNCHANGED <<time, back, given, omitted, calls>> /\ cache' \in Content
        /\ \A other \in Packages : cache'[other].answer # "none" =>
             Since(other, cache'[other].answer, cache'[other].checkedAt)
    BY <1>9, <2>2, <2>4 DEF PutSave, EntryOf, CacheInv
  <2> QED
    BY <2>1, <2>2, <2>5, AfterOnePut
<1>10. ASSUME NEW p \in Procs, PutFails(p) PROVE CacheInv'
  <2>1. PICK pkg \in job[p].put : AfterPut(p, pkg)
    BY <1>10 DEF PutFails
  <2>2. pc[p] \in {"lock", "save"} /\ UNCHANGED <<cache, time, back, given, omitted, calls>>
    BY <1>10 DEF PutFails
  <2>3. /\ cache' \in Content
        /\ \A other \in Packages : cache'[other].answer # "none" =>
             Since(other, cache'[other].answer, cache'[other].checkedAt)
    BY <1>t, <2>2 DEF CacheInv, CacheTypeOK
  <2> QED
    BY <2>1, <2>2, <2>3, AfterOnePut
<1>11. ASSUME NEW p \in Procs, Crash(p) PROVE CacheInv'
  <2>1. /\ job' \in [Procs -> Job] /\ job'[p] = NoJob
        /\ \A q \in Procs \ {p} : job'[q] = job[q]
    BY <1>11, <1>t, NoJobType, JobOf DEF Crash
  <2>2. /\ pc'[p] = "idle" /\ \A q \in Procs \ {p} : pc'[q] = pc[q]
        /\ pc' \in [Procs -> {"idle", "look", "ask", "fallback", "lock", "save", "answered"}]
        /\ UNCHANGED <<cache, time, back, calls, given, omitted>>
        /\ lock' = IF lock = p THEN None ELSE lock
    BY <1>11, <1>t DEF Crash, Goto, CacheTypeOK
  <2>3. CacheTypeOK'
    BY <1>t, <2>1, <2>2 DEF CacheTypeOK
  <2>4. \A q \in Procs : /\ lock' = q <=> pc'[q] = "save"
                         /\ pc'[q] = "save" => job'[q].copy = cache'
    BY <2>1, <2>2, AdvisoryCacheAssumption DEF CacheInv
  <2>5. \A q \in Procs : pc'[q] \in {"lock", "save"} =>
          \A pkg \in job'[q].put : /\ job'[q].got[pkg] \in Answers
                                   /\ Since(pkg, job[q].got[pkg], job[q].stamp)'
    BY <2>1, <2>2 DEF CacheInv, Since
  <2> QED
    BY <2>2, <2>3, <2>4, <2>5 DEF CacheInv, Since
<1>12. ASSUME Tick \/ SetClockBack PROVE CacheInv'
  <2>1. /\ UNCHANGED <<cache, lock, given, omitted, calls, pc, job>>
        /\ time' \in 0 .. MaxTime /\ back' \in 0 .. MaxBack /\ time <= time'
    BY <1>12, <1>t, AdvisoryCacheAssumption DEF Tick, SetClockBack, CacheTypeOK
  <2>2. CacheTypeOK'
    BY <1>t, <2>1 DEF CacheTypeOK
  <2>3. /\ \A a \in Packages \X Answers : given'[a] <= time'
        /\ \A pkg \in Packages : omitted'[pkg] <= time'
    BY <1>t, <2>1, AdvisoryCacheAssumption DEF CacheInv, CacheTypeOK, Never
  <2> QED
    BY <2>1, <2>2, <2>3 DEF CacheInv, Since
<1>13. ASSUME UNCHANGED cacheVars PROVE CacheInv'
  BY <1>13 DEF cacheVars, CacheInv, CacheTypeOK, Since
<1> QED
  BY <1>1, <1>2, <1>3, <1>4, <1>5, <1>6, <1>7, <1>8, <1>9, <1>10, <1>11, <1>12, <1>13
  DEF CacheNext, QueryStep, Procs

\* What a call begins to use is as recent as UsedAnswersAreRecent says.
LEMMA StepAnswers ==
  ASSUME CacheInv, [CacheNext]_cacheVars, NEW p \in Procs, NEW pkg \in Packages,
         job'[p].got[pkg] \notin {job[p].got[pkg], "none"}
  PROVE  Backed(p, pkg)'
<1> DEFINE Goal == Backed(p, pkg)'
<1>t. CacheTypeOK /\ (\A q \in Procs : job[q] \in Job) /\ CacheTypeOK'
  BY StepCache DEF CacheInv, CacheTypeOK
\* A fresh entry is what was given or taken, at the recorded time or later.
<1>f. ASSUME Fresh(pkg), UNCHANGED <<time, back, given, omitted>>,
             job'[p].got[pkg] = cache[pkg].answer
      PROVE  Goal
  <2>1. /\ Since(pkg, cache[pkg].answer, cache[pkg].checkedAt)
        /\ Wall - cache[pkg].checkedAt <= TTL
    BY <1>f DEF Fresh, CacheInv
  <2>2. cache[pkg].answer \in Answers /\ cache[pkg].checkedAt \in Int
    BY <1>t, <1>f DEF CacheTypeOK, Content, Entry, NoEntry, Fresh
  <2>3. /\ given[<<pkg, cache[pkg].answer>>] \in Int /\ omitted[pkg] \in Int /\ TTL \in Int
        /\ time \in Int /\ back \in Int
    BY <1>t, <2>2, AdvisoryCacheAssumption DEF CacheTypeOK, Never
  <2>4. \A at \in Int : at # Never /\ cache[pkg].checkedAt <= at => Recent(at)
    BY <2>1, <2>2, <2>3 DEF Wall, Recent
  <2>5. \/ Recent(given[<<pkg, cache[pkg].answer>>])
        \/ cache[pkg].answer = "clean" /\ Recent(omitted[pkg])
    BY <2>1, <2>3, <2>4 DEF Since
  <2> QED
    BY <1>f, <2>5 DEF Backed, Recent
\* What got holds is what it was, or nothing.
<1>k. ASSUME NEW q \in Procs, NEW r \in Job, r.got[pkg] \in {job[q].got[pkg], "none"},
             job' = [job EXCEPT ![q] = r]
      PROVE  FALSE
  BY <1>k, <1>t, JobOf
<1>n. NoJob.got[pkg] = "none" /\ [NoJob EXCEPT !.ask = {}].got[pkg] = "none"
  BY DEF NoJob
<1>1. ASSUME NEW q \in Guards, BeginRefresh(q) PROVE Goal
  <2>1. PICK v \in Packages : job' = [job EXCEPT ![q] = [NoJob EXCEPT !.ask = {v}]]
    BY <1>1 DEF BeginRefresh
  <2>2. [NoJob EXCEPT !.ask = {v}] \in Job /\ [NoJob EXCEPT !.ask = {v}].got[pkg] = "none"
    BY NoJobType DEF Job, NoJob
  <2> QED
    BY <1>k, <2>1, <2>2 DEF Procs
<1>2. ASSUME NEW q \in Scanners, NEW c \in SUBSET Packages, BeginQuery(q, c) PROVE Goal
  <2>1. [NoJob EXCEPT !.look = c] \in Job /\ [NoJob EXCEPT !.look = c].got[pkg] = "none"
    BY NoJobType DEF Job, NoJob
  <2> QED
    BY <1>2, <1>k, <2>1 DEF Procs, BeginQuery
<1>3. ASSUME NEW q \in Procs, LookUp(q) PROVE Goal
  <2>1. PICK v \in job[q].look :
          job' = [job EXCEPT ![q].look = job[q].look \ {v},
                    ![q].ask = IF Fresh(v) THEN job[q].ask ELSE job[q].ask \cup {v},
                    ![q].got[v] = IF Fresh(v) THEN cache[v].answer ELSE @]
    BY <1>3 DEF LookUp
  <2> DEFINE got == [job[q].got EXCEPT ![v] = IF Fresh(v) THEN cache[v].answer ELSE @]
  <2>2. /\ job'[q].got = got /\ \A o \in Procs \ {q} : job'[o] = job[o]
        /\ v \in Packages /\ job[q].got \in [Packages -> Answers \cup {"none"}]
    BY <1>t, <2>1 DEF CacheTypeOK, Job
  <2>3. p = q /\ v = pkg /\ Fresh(v) /\ job'[p].got[pkg] = cache[pkg].answer
    BY <2>2
  <2> QED
    BY <1>3, <1>f, <2>3 DEF LookUp
<1>4. ASSUME NEW q \in Procs, Fallback(q) PROVE Goal
  <2>1. PICK v \in job[q].look :
          job' = [job EXCEPT ![q].look = {}, ![q].failed = ~Fresh(v),
                    ![q].got[v] = IF Fresh(v) THEN cache[v].answer ELSE @]
    BY <1>4 DEF Fallback
  <2> DEFINE got == [job[q].got EXCEPT ![v] = IF Fresh(v) THEN cache[v].answer ELSE @]
  <2>2. /\ job'[q].got = got /\ \A o \in Procs \ {q} : job'[o] = job[o]
        /\ v \in Packages /\ job[q].got \in [Packages -> Answers \cup {"none"}]
    BY <1>t, <2>1 DEF CacheTypeOK, Job
  <2>3. p = q /\ v = pkg /\ Fresh(v) /\ job'[p].got[pkg] = cache[pkg].answer
    BY <2>2
  <2> QED
    BY <1>4, <1>f, <2>3 DEF Fallback
<1>5. ASSUME NEW q \in Procs, Ask(q) PROVE Goal
  <2>1. PICK named \in SUBSET job[q].ask, answer \in [job[q].ask -> Answers] :
          /\ \A v \in job[q].ask \ named : answer[v] = "clean"
          /\ given' = [a \in Packages \X Answers |->
                         IF a[1] \in named /\ answer[a[1]] = a[2] THEN time ELSE given[a]]
          /\ omitted' = [v \in Packages |->
                           IF v \in job[q].ask \ named THEN time ELSE omitted[v]]
          /\ job' = [job EXCEPT ![q].ask = {}, ![q].put = job[q].ask, ![q].stamp = Wall,
                       ![q].got = [v \in Packages |-> IF v \in job[q].ask THEN answer[v]
                                                                            ELSE job[q].got[v]]]
    BY <1>5 DEF Ask
  <2> DEFINE got == [v \in Packages |-> IF v \in job[q].ask THEN answer[v] ELSE job[q].got[v]]
  <2>2. job'[q].got = got /\ \A o \in Procs \ {q} : job'[o] = job[o]
    BY <1>t, <2>1 DEF CacheTypeOK, Job
  <2>3. p = q /\ pkg \in job[q].ask /\ job'[p].got[pkg] = answer[pkg]
    BY <2>2
  <2>4. /\ answer[pkg] \in Answers
        /\ \/ given'[<<pkg, answer[pkg]>>] = time
           \/ answer[pkg] = "clean" /\ omitted'[pkg] = time
    BY <2>1, <2>3
  <2>5. time' = time /\ back' = back /\ time \in Nat /\ back \in Nat /\ TTL \in Nat
    BY <1>5, <1>t, AdvisoryCacheAssumption DEF Ask, CacheTypeOK
  <2> QED
    BY <2>3, <2>4, <2>5 DEF Never, Backed, Recent
<1>6. ASSUME NEW q \in Procs, Return(q) \/ Crash(q) PROVE Goal
  BY <1>6, <1>k, <1>n, NoJobType DEF Return, Crash
<1>7. ASSUME NEW q \in Procs, AskFails(q) \/ PutLoad(q) \/ PutSave(q) \/ PutFails(q) PROVE Goal
  <2>1. job'[q].got = job[q].got /\ \A o \in Procs \ {q} : job'[o] = job[o]
    <3>1. CASE AskFails(q) \/ PutLoad(q)
      BY <3>1, <1>t DEF AskFails, PutLoad, CacheTypeOK, Job
    <3>2. CASE PutSave(q) \/ PutFails(q)
      <4>1. PICK v \in job[q].put : AfterPut(q, v)
        BY <3>2 DEF PutSave, PutFails
      <4> QED
        BY <4>1, <1>t DEF AfterPut, CacheTypeOK, Job
    <3> QED
      BY <1>7, <3>1, <3>2
  <2> QED
    BY <2>1
<1>8. ASSUME UNCHANGED job PROVE Goal
  BY <1>8
<1> QED
  BY <1>1, <1>2, <1>3, <1>4, <1>5, <1>6, <1>7, <1>8
  DEF CacheNext, QueryStep, Procs, Tick, SetClockBack, cacheVars

\* The file changes only where a call saves its answer.
LEMMA StepFile ==
  ASSUME CacheInv, [CacheNext]_cacheVars, NEW pkg \in Packages, cache'[pkg] # cache[pkg]
  PROVE  \E p \in Procs : /\ pc[p] = "save" /\ pkg \in job[p].put
                          /\ cache'[pkg] = EntryOf(p, pkg)
<1>1. PICK p \in Procs : PutSave(p)
  BY DEF CacheNext, cacheVars, QueryStep, Procs, BeginRefresh, BeginQuery, LookUp, Ask, AskFails,
         Fallback, PutLoad, PutFails, Return, Crash, Tick, SetClockBack
<1>2. PICK v \in job[p].put : cache' = [job[p].copy EXCEPT ![v] = EntryOf(p, v)]
  BY <1>1 DEF PutSave
<1>3. job[p].copy = cache /\ pc[p] = "save" /\ cache \in Content /\ job[p] \in Job
  BY <1>1 DEF PutSave, CacheInv, CacheTypeOK
<1>4. v = pkg
  BY <1>2, <1>3 DEF Content
<1> QED
  BY <1>2, <1>3, <1>4 DEF Content, Job
-----------------------------------------------------------------------------
(***************************************************************************)
(* A step of Scan is a step of the cache, or leaves it alone.              *)
(***************************************************************************)
LEMMA ScanIsCache == Init => CacheInit
  BY DEF Init

LEMMA ScanStepIsCacheStep == [Next]_vars => [CacheNext]_cacheVars
<1> SUFFICES ASSUME [Next]_vars PROVE [CacheNext]_cacheVars
  OBVIOUS
<1>1. CASE Queries
  BY <1>1 DEF Queries, CacheNext, Procs
<1>2. CASE Others
  BY <1>2 DEF Others, CacheNext
<1>3. ASSUME NEW s \in Scanners, StartScan(s) PROVE CacheNext
  BY <1>3 DEF StartScan, TakeInventory, CacheNext
<1>4. ASSUME NEW s \in Scanners, Stop(s) PROVE [CacheNext]_cacheVars
  BY <1>4 DEF Stop, CacheNext, Procs
<1>5. ASSUME NEW s \in Scanners, ToolStep(s) PROVE UNCHANGED cacheVars
  BY <1>5 DEF ToolStep, OnlyTool, SkipTool, Collect, RevalidateAll, RevalidateOne, ToolDone, Look,
              Open, Confirm, Run, CopyFails, NoSubcommand, ToolsDone
<1>6. ASSUME NEW s \in Scanners,
             StartOffline(s) \/ Advised(s) \/ WriteFiles(s) \/ RecordScan(s)
      PROVE  UNCHANGED cacheVars
  BY <1>6 DEF StartOffline, Advised, WriteFiles, RecordScan
<1>7. ASSUME NEW f \in Files, Change(f) PROVE UNCHANGED cacheVars
  BY <1>7 DEF Change
<1> QED
  BY <1>1, <1>2, <1>3, <1>4, <1>5, <1>6, <1>7 DEF Next, vars

THEOREM CacheInvHolds == Spec => []CacheInv
<1>1. CacheInv /\ [Next]_vars => CacheInv'
  BY StepCache, ScanStepIsCacheStep
<1> QED
  BY InitCache, ScanIsCache, <1>1, PTL DEF Spec

\* Whatever is overwritten, cut short or set back, an answer that a guard or a
\* scan begins to use is one OSV gave, or the "clean" a reply without a result
\* was taken for, no longer ago than TTL and what the clock was set back.
THEOREM AnswersAreRecent == Spec => UsedAnswersAreRecent
<1> DEFINE Used == \A p \in Procs, pkg \in Packages :
                     job'[p].got[pkg] \notin {job[p].got[pkg], "none"} => Backed(p, pkg)'
<1>1. CacheInv /\ [Next]_vars => [Used]_cacheVars
  BY StepAnswers, ScanStepIsCacheStep
<1> QED
  BY CacheInvHolds, <1>1, PTL DEF Spec, UsedAnswersAreRecent

\* Once OSV replied about a version, it stays so.
LEMMA AskedStays ==
  ASSUME CacheTypeOK, [CacheNext]_cacheVars, NEW pkg \in Packages, Asked(pkg)
  PROVE  Asked(pkg)'
<1>1. CASE UNCHANGED <<given, omitted>>
  BY <1>1 DEF Asked
<1>2. ASSUME NEW p \in Procs, Ask(p) PROVE Asked(pkg)'
  <2>1. PICK named \in SUBSET job[p].ask, answer \in [job[p].ask -> Answers] :
          /\ given' = [a \in Packages \X Answers |->
                         IF a[1] \in named /\ answer[a[1]] = a[2] THEN time ELSE given[a]]
          /\ omitted' = [v \in Packages |->
                           IF v \in job[p].ask \ named THEN time ELSE omitted[v]]
    BY <1>2 DEF Ask
  <2>2. time # Never
    BY DEF CacheTypeOK, Never
  <2>3. omitted[pkg] # Never => omitted'[pkg] # Never
    BY <2>1, <2>2
  <2>4. \A a \in Answers : given[<<pkg, a>>] # Never => given'[<<pkg, a>>] # Never
    BY <2>1, <2>2
  <2> QED
    BY <2>3, <2>4 DEF Asked
<1> QED
  BY <1>1, <1>2 DEF CacheNext, cacheVars, QueryStep, Procs, BeginRefresh, BeginQuery, LookUp,
                    AskFails, Fallback, PutLoad, PutSave, PutFails, AfterPut, Return, Crash, Tick,
                    SetClockBack

\* Whatever a call holds an answer about, OSV was asked about.
AskedInv == \A p \in Procs, pkg \in Packages : job[p].got[pkg] # "none" => Asked(pkg)

LEMMA StepAsked == CacheInv /\ AskedInv /\ [CacheNext]_cacheVars => AskedInv'
<1> SUFFICES ASSUME CacheInv, AskedInv, [CacheNext]_cacheVars,
                    NEW p \in Procs, NEW pkg \in Packages, job'[p].got[pkg] # "none"
             PROVE  Asked(pkg)'
  BY DEF AskedInv
<1>1. CASE job'[p].got[pkg] = job[p].got[pkg]
  BY <1>1, AskedStays DEF AskedInv, CacheInv
<1>2. CASE job'[p].got[pkg] # job[p].got[pkg]
  <2>1. Backed(p, pkg)'
    BY <1>2, StepAnswers
  <2>2. job'[p].got[pkg] \in Answers
    BY StepCache DEF CacheInv, CacheTypeOK, Job
  <2> QED
    BY <2>1, <2>2 DEF Backed, Recent, Asked
<1> QED
  BY <1>1, <1>2

\* Guards and scans that save answers at the same time do not undo each other.
THEOREM EntriesAreKept == Spec => NoEntryLost
<1> DEFINE Kept == \A pkg \in Packages : cache'[pkg] # cache[pkg] =>
                     \E p \in Procs : /\ pc[p] = "save" /\ pkg \in job[p].put
                                      /\ cache'[pkg] = EntryOf(p, pkg)
<1>1. CacheInv /\ [Next]_vars => [Kept]_cacheVars
  BY StepFile, ScanStepIsCacheStep
<1> QED
  BY CacheInvHolds, <1>1, PTL DEF Spec, NoEntryLost
-----------------------------------------------------------------------------
(***************************************************************************)
(* The tools of a scan.                                                    *)
(***************************************************************************)
\* The work on a tool, whichever it is: the accepted and the skipped files add
\* up, and the file it is at is still to be done.
Tidy(r) ==
  /\ r \in Tool
  /\ r.at # "collect" =>
       /\ r.turn \in DOMAIN AllTools
       /\ r.accepted \subseteq Candidates[AllTools[r.turn]]
       /\ r.todo \subseteq r.accepted
       /\ Cardinality(Candidates[AllTools[r.turn]]) = Cardinality(r.accepted) + r.skips
  /\ \/ r.at \in {"open", "confirm"}
     \/ r.at = "copy" /\ AllTools[r.turn] \notin CopiesAll
     => r.cur \in r.todo
  /\ \A o \in r.copied : o \in Object /\ o.kind = "plain"

LEMMA ToolList == /\ Len(AllTools) = 6 /\ DOMAIN AllTools = 1 .. 6
                  /\ \A i \in 1 .. 6 : AllTools[i] \in ToolSet
<1>1. Len(AllTools) = 6 /\ DOMAIN AllTools = 1 .. 6
  BY DEF AllTools
<1> QED
  BY <1>1 DEF ToolSet

\* The candidates of a tool are finitely many.
LEMMA CandidatesFinite ==
  ASSUME NEW i \in DOMAIN AllTools
  PROVE  /\ Candidates[AllTools[i]] \in SUBSET Files /\ IsFiniteSet(Candidates[AllTools[i]])
         /\ \A S \in SUBSET Candidates[AllTools[i]] : IsFiniteSet(S) /\ Cardinality(S) \in Nat
<1>1. AllTools[i] \in ToolSet
  BY ToolList
<1>2. Candidates[AllTools[i]] \in SUBSET Files
  BY <1>1, ScanAssumption
<1>3. \A S \in SUBSET Files : IsFiniteSet(S)
  BY ScanAssumption, FS_Subset
<1> QED
  BY <1>2, <1>3, FS_CardinalityType

LEMMA TidyAtStart == ASSUME NEW n \in 1 .. 7 PROVE Tidy(ToolAt(n))
<1>1. ToolAt(n) \in Tool
  BY ToolList DEF Tool, ToolAt
<1> QED
  BY <1>1 DEF Tidy, ToolAt

\* A file that is looked at again and rejected is counted once.
LEMMA TidyWithout ==
  ASSUME NEW r, Tidy(r), r.at # "collect", NEW f \in r.todo, NEW r1, r1 \in Tool,
         r1.turn = r.turn, r1.accepted = r.accepted \ {f}, r1.todo = r.todo \ {f},
         r1.skips = r.skips + 1, r1.copied = r.copied,
         r1.at \notin {"open", "confirm"},
         r1.at = "copy" => AllTools[r.turn] \in CopiesAll
  PROVE  Tidy(r1)
<1>1. /\ r.turn \in DOMAIN AllTools /\ r.accepted \in SUBSET Candidates[AllTools[r.turn]]
      /\ r.todo \subseteq r.accepted /\ r.skips \in Nat
      /\ Cardinality(Candidates[AllTools[r.turn]]) = Cardinality(r.accepted) + r.skips
  BY DEF Tidy, Tool
<1>2. IsFiniteSet(r.accepted) /\ f \in r.accepted
  BY <1>1, CandidatesFinite
<1>3. Cardinality(r.accepted \ {f}) = Cardinality(r.accepted) - 1 /\ Cardinality(r.accepted) \in Nat
  BY <1>2, FS_RemoveElement, FS_CardinalityType
<1> QED
  BY <1>1, <1>3 DEF Tidy

\* What rejecting a file leaves.
LEMMA WithoutIs ==
  ASSUME NEW r \in Tool, NEW f
  PROVE  /\ Without(r, f) \in Tool
         /\ Without(r, f).turn = r.turn /\ Without(r, f).at = r.at
         /\ Without(r, f).accepted = r.accepted \ {f} /\ Without(r, f).todo = r.todo \ {f}
         /\ Without(r, f).skips = r.skips + 1 /\ Without(r, f).copied = r.copied
<1> DEFINE acc == r.accepted \ {f}
           todo == r.todo \ {f}
           skips == r.skips + 1
<1>1. acc \in SUBSET Files /\ todo \in SUBSET Files /\ skips \in Nat
  BY DEF Tool
<1>2. Without(r, f) = [r EXCEPT !.accepted = acc, !.skips = skips, !.todo = todo]
  BY DEF Without, Tool
<1> HIDE DEF acc, todo, skips
<1>3. /\ Without(r, f) \in Tool
      /\ Without(r, f).turn = r.turn /\ Without(r, f).at = r.at /\ Without(r, f).accepted = acc
      /\ Without(r, f).todo = todo /\ Without(r, f).skips = skips
      /\ Without(r, f).copied = r.copied
  BY <1>1, <1>2 DEF Tool
<1> QED
  BY <1>3 DEF acc, todo, skips

\* The same inputs, at another place.
LEMMA TidyMoved ==
  ASSUME NEW r, Tidy(r), r.at # "collect", NEW r1, r1 \in Tool,
         r1.turn = r.turn, r1.accepted = r.accepted, r1.skips = r.skips,
         r1.todo \subseteq r.todo,
         \A o \in r1.copied : o \in Object /\ o.kind = "plain",
         \/ r1.cur \in r1.todo
         \/ /\ r1.at \notin {"open", "confirm"}
            /\ r1.at = "copy" => AllTools[r.turn] \in CopiesAll
  PROVE  Tidy(r1)
BY DEF Tidy

\* Every step on a tool leaves tidy work.
LEMMA ToolStepTidy ==
  ASSUME file \in [Files -> Object], tool \in [Scanners -> Tool],
         NEW s \in Scanners, Tidy(tool[s]), ToolStep(s)
  PROVE  \E r \in Tool : Tidy(r) /\ tool' = [tool EXCEPT ![s] = r]
<1> DEFINE t == tool[s]
           Goal == \E r \in Tool : Tidy(r) /\ tool' = [tool EXCEPT ![s] = r]
<1>t. /\ t \in Tool /\ None \notin Procs
      /\ t.turn \in 1 .. 7 /\ t.accepted \in SUBSET Files /\ t.todo \in SUBSET Files
      /\ t.skips \in Nat /\ t.queried \in Nat
  BY ToolList, AdvisoryCacheAssumption DEF Tool
<1>n. ASSUME NextTool(s), t.turn \in DOMAIN AllTools PROVE Goal
  <2>1. t.turn + 1 \in 1 .. 7
    BY <1>n, ToolList
  <2>2. Tidy(ToolAt(t.turn + 1)) /\ ToolAt(t.turn + 1) \in Tool
    BY <2>1, TidyAtStart DEF Tidy
  <2>3. tool' = [tool EXCEPT ![s] = ToolAt(t.turn + 1)]
    BY <1>n DEF NextTool
  <2> QED
    BY <2>2, <2>3
\* A file is rejected, and the work goes on elsewhere.
<1>d. ASSUME NEW f \in t.todo, Drop(s, f), t.at # "collect" PROVE Goal
  <2> DEFINE a == [t EXCEPT !.cur = None, !.before = NoObject, !.opened = NoObject]
             b == Without(a, f)
             r == [b EXCEPT !.at = Onwards(s, b)]
  <2>1. tool' = [tool EXCEPT ![s] = r]
    BY <1>d DEF Drop
  <2>2. /\ b.turn = t.turn /\ b.accepted = t.accepted \ {f} /\ b.todo = t.todo \ {f}
        /\ b.skips = t.skips + 1 /\ b.copied = t.copied /\ b \in Tool
    <3>1. /\ a \in Tool /\ a.turn = t.turn /\ a.accepted = t.accepted /\ a.todo = t.todo
          /\ a.skips = t.skips /\ a.copied = t.copied
      BY <1>t DEF Tool
    <3> HIDE DEF a
    <3> QED
      BY <3>1, WithoutIs
  <2> HIDE DEF b
  <2>3. Onwards(s, b) \in {"revalidate", "copy", "run"}
        /\ (Onwards(s, b) = "copy" => Name(s) \in CopiesAll)
    BY DEF Onwards
  <2>4. r \in Tool /\ r.at = Onwards(s, b)
        /\ r.turn = b.turn /\ r.accepted = b.accepted /\ r.todo = b.todo
        /\ r.skips = b.skips /\ r.copied = b.copied
    BY <2>2, <2>3 DEF Tool
  <2> HIDE DEF r
  <2>5. Tidy(r)
    BY <1>d, <2>2, <2>3, <2>4, TidyWithout DEF Name
  <2> QED
    BY <2>1, <2>4, <2>5
<1>1. CASE SkipTool(s) \/ ToolDone(s)
  BY <1>1, <1>n DEF SkipTool, ToolDone, AtTool
<1>2. CASE Collect(s)
  <2>1. PICK acc \in SUBSET {f \in Candidates[Name(s)] : Takes(Name(s), f)} :
          tool' = [tool EXCEPT ![s].accepted = acc, ![s].todo = acc,
                     ![s].skips = Cardinality(Candidates[Name(s)] \ acc),
                     ![s].at = IF Name(s) \in Probed THEN "run" ELSE "revalidate"]
    BY <1>2 DEF Collect
  <2> DEFINE r == [t EXCEPT !.accepted = acc, !.todo = acc,
                     !.skips = Cardinality(Candidates[Name(s)] \ acc),
                     !.at = IF Name(s) \in Probed THEN "run" ELSE "revalidate"]
  <2>2. t.turn \in DOMAIN AllTools /\ acc \in SUBSET Candidates[AllTools[t.turn]]
    BY <1>2, <2>1 DEF Collect, AtTool, Name
  <2>3. /\ acc \in SUBSET Files
        /\ Cardinality(Candidates[Name(s)] \ acc) \in Nat
        /\ Cardinality(Candidates[Name(s)])
             = Cardinality(acc) + Cardinality(Candidates[Name(s)] \ acc)
    <3> DEFINE C == Candidates[AllTools[t.turn]]
    <3>1. C \in SUBSET Files /\ IsFiniteSet(C) /\ acc \in SUBSET C /\ C \ acc \in SUBSET C
      BY <2>2, CandidatesFinite
    <3>2. Cardinality(C \ acc) = Cardinality(C) - Cardinality(acc)
      <4>1. C \cap acc = acc
        BY <3>1
      <4> HIDE DEF C
      <4> QED
        BY <3>1, <4>1, FS_Difference
    <3>3. Cardinality(C) \in Nat /\ Cardinality(acc) \in Nat /\ Cardinality(C \ acc) \in Nat
      BY <2>2, <3>1, CandidatesFinite
    <3>4. acc \in SUBSET Files
      BY <3>1
    <3>5. Candidates[Name(s)] = C
      BY DEF Name
    <3> HIDE DEF C
    <3>6. Cardinality(C) = Cardinality(acc) + Cardinality(C \ acc)
      BY <3>2, <3>3
    <3> QED
      BY <3>3, <3>4, <3>5, <3>6
  <2>4. r \in Tool
    BY <1>t, <2>3 DEF Tool
  <2>5. tool' = [tool EXCEPT ![s] = r]
    BY <2>1
  <2>6. r.turn = t.turn /\ r.accepted = acc /\ r.todo = acc /\ r.copied = t.copied
        /\ r.skips = Cardinality(Candidates[Name(s)] \ acc) /\ r.at \in {"run", "revalidate"}
    BY <1>t DEF Tool
  <2> HIDE DEF r
  <2>7. Tidy(r)
    BY <2>2, <2>3, <2>4, <2>6 DEF Tidy, Name
  <2> QED
    BY <2>4, <2>5, <2>7
<1>3. CASE RevalidateAll(s)
  <2> DEFINE bad == {f \in t.accepted : Rejected(f)}
  <2>1. CASE bad = t.accepted
    BY <1>3, <1>n, <2>1 DEF RevalidateAll, AtTool
  <2>2. CASE bad # t.accepted
    <3> DEFINE r == [t EXCEPT !.accepted = @ \ bad, !.todo = @ \ bad,
                       !.skips = @ + Cardinality(bad), !.at = "copy"]
    <3>1. tool' = [tool EXCEPT ![s] = r]
      BY <1>3, <2>2 DEF RevalidateAll
    <3>2. t.turn \in DOMAIN AllTools /\ t.at = "revalidate" /\ Name(s) \in CopiesAll
      BY <1>3 DEF RevalidateAll, AtTool
    <3>3. /\ t.accepted \in SUBSET Candidates[AllTools[t.turn]] /\ t.todo \subseteq t.accepted
          /\ Cardinality(Candidates[AllTools[t.turn]]) = Cardinality(t.accepted) + t.skips
      BY <3>2 DEF Tidy
    <3>4. /\ IsFiniteSet(t.accepted) /\ bad \in SUBSET t.accepted /\ Cardinality(bad) \in Nat
          /\ Cardinality(t.accepted) \in Nat /\ t.accepted \cap bad = bad
          /\ Cardinality(t.accepted \ bad) \in Nat
      <4>1. bad \in SUBSET Candidates[AllTools[t.turn]]
            /\ t.accepted \ bad \in SUBSET Candidates[AllTools[t.turn]]
        BY <3>3
      <4> HIDE DEF bad
      <4>2. IsFiniteSet(t.accepted) /\ Cardinality(bad) \in Nat
            /\ Cardinality(t.accepted) \in Nat /\ Cardinality(t.accepted \ bad) \in Nat
        BY <3>2, <3>3, <4>1, CandidatesFinite
      <4> QED
        BY <4>2 DEF bad
    <3>5. Cardinality(t.accepted \ bad) = Cardinality(t.accepted) - Cardinality(bad)
      BY <3>4, FS_Difference
    <3> HIDE DEF bad
    <3>6. /\ r \in Tool /\ r.turn = t.turn /\ r.at = "copy" /\ r.accepted = t.accepted \ bad
          /\ r.todo = t.todo \ bad /\ r.skips = t.skips + Cardinality(bad) /\ r.copied = t.copied
      <4> DEFINE acc == t.accepted \ bad
                 todo == t.todo \ bad
                 skips == t.skips + Cardinality(bad)
      <4>1. acc \in SUBSET Files /\ todo \in SUBSET Files /\ skips \in Nat
        BY <1>t, <3>4
      <4>2. r = [t EXCEPT !.accepted = acc, !.todo = todo, !.skips = skips, !.at = "copy"]
        OBVIOUS
      <4> HIDE DEF acc, todo, skips, r
      <4>3. /\ r \in Tool /\ r.turn = t.turn /\ r.at = "copy" /\ r.accepted = acc
            /\ r.todo = todo /\ r.skips = skips /\ r.copied = t.copied
        BY <1>t, <4>1, <4>2 DEF Tool
      <4> QED
        BY <4>3 DEF acc, todo, skips
    <3> HIDE DEF r
    <3>7. Tidy(r)
      BY <1>t, <3>2, <3>3, <3>4, <3>5, <3>6 DEF Tidy, Name
    <3> QED
      BY <3>1, <3>6, <3>7
  <2> QED
    BY <2>1, <2>2
<1>4. CASE RevalidateOne(s)
  <2>1. PICK f \in t.todo :
          tool' = [tool EXCEPT ![s] =
                    IF Rejected(f) THEN Without(@, f)
                    ELSE [@ EXCEPT !.cur = f,
                            !.at = IF Name(s) \in GetsRoot THEN "run" ELSE "copy"]]
    BY <1>4 DEF RevalidateOne
  <2>2. t.at = "revalidate" /\ t.turn \in DOMAIN AllTools /\ f \in Files
    BY <1>4, <1>t DEF RevalidateOne, AtTool
  <2>3. CASE Rejected(f)
    <3> DEFINE r == Without(t, f)
    <3>1. tool' = [tool EXCEPT ![s] = r]
      BY <2>1, <2>3
    <3>2. /\ r \in Tool /\ r.turn = t.turn /\ r.accepted = t.accepted \ {f} /\ r.at = t.at
          /\ r.todo = t.todo \ {f} /\ r.skips = t.skips + 1 /\ r.copied = t.copied
      BY <1>t, WithoutIs
    <3> HIDE DEF r
    <3>3. Tidy(r)
      BY <2>2, <3>2, TidyWithout
    <3> QED
      BY <3>1, <3>2, <3>3
  <2>4. CASE ~Rejected(f)
    <3> DEFINE at == IF Name(s) \in GetsRoot THEN "run" ELSE "copy"
               r  == [t EXCEPT !.cur = f, !.at = at]
    <3>1. tool' = [tool EXCEPT ![s] = r]
      BY <2>1, <2>4
    <3>2. /\ r \in Tool /\ r.turn = t.turn /\ r.accepted = t.accepted /\ r.todo = t.todo
          /\ r.skips = t.skips /\ r.copied = t.copied /\ r.cur = f
      BY <1>t, <2>2 DEF Tool
    <3> HIDE DEF r
    <3>3. \A o \in r.copied : o \in Object /\ o.kind = "plain"
      BY <3>2 DEF Tidy
    <3>4. Tidy(r)
      BY <2>2, <3>2, <3>3, TidyMoved
    <3> QED
      BY <3>1, <3>2, <3>4
  <2> QED
    BY <2>3, <2>4
<1>5. CASE Look(s)
  <2>1. PICK f \in CopyOf(s) :
          IF Rejected(f) THEN Drop(s, f)
          ELSE tool' = [tool EXCEPT ![s].cur = f, ![s].before = file[f], ![s].at = "open"]
    BY <1>5 DEF Look
  <2>2. t.at = "copy" /\ f \in t.todo /\ f \in Files
    BY <1>5, <1>t DEF Look, AtTool, CopyOf, Tidy, Name
  <2>3. CASE Rejected(f)
    BY <1>d, <2>1, <2>2, <2>3
  <2>4. CASE ~Rejected(f)
    <3> DEFINE r == [t EXCEPT !.cur = f, !.before = file[f], !.at = "open"]
    <3>1. tool' = [tool EXCEPT ![s] = r]
      BY <2>1, <2>4
    <3>2. /\ r \in Tool /\ r.turn = t.turn /\ r.accepted = t.accepted /\ r.todo = t.todo
          /\ r.skips = t.skips /\ r.copied = t.copied /\ r.cur = f
      BY <1>t, <2>2 DEF Tool
    <3> HIDE DEF r
    <3>3. \A o \in r.copied : o \in Object /\ o.kind = "plain"
      BY <3>2 DEF Tidy
    <3>4. Tidy(r)
      BY <2>2, <3>2, <3>3, TidyMoved
    <3> QED
      BY <3>1, <3>2, <3>4
  <2> QED
    BY <2>3, <2>4
<1>6. CASE Open(s)
  <2> DEFINE f == t.cur
  <2>1. t.at = "open" /\ f \in t.todo /\ f \in Files
    BY <1>6, <1>t DEF Open, AtTool, Tidy
  <2>2. CASE LedTo(f).kind = "plain"
    <3> DEFINE r == [t EXCEPT !.opened = LedTo(f), !.at = "confirm"]
    <3>1. tool' = [tool EXCEPT ![s] = r]
      BY <1>6, <2>2 DEF Open
    <3>2. LedTo(f) \in Object \cup {NoObject, Foreign}
      BY <2>1 DEF LedTo
    <3>3. /\ r \in Tool /\ r.turn = t.turn /\ r.accepted = t.accepted /\ r.todo = t.todo
          /\ r.skips = t.skips /\ r.copied = t.copied /\ r.cur = f
      BY <1>t, <3>2 DEF Tool
    <3> HIDE DEF r
    <3>4. \A o \in r.copied : o \in Object /\ o.kind = "plain"
      BY <3>3 DEF Tidy
    <3>5. Tidy(r)
      BY <2>1, <3>3, <3>4, TidyMoved
    <3> QED
      BY <3>1, <3>3, <3>5
  <2>3. CASE LedTo(f).kind # "plain"
    <3>1. Drop(s, f)
      BY <1>6, <2>3 DEF Open
    <3> QED
      BY <1>d, <2>1, <3>1
  <2> QED
    BY <2>2, <2>3
<1>7. CASE Confirm(s)
  <2> DEFINE f == t.cur
             b == [t EXCEPT !.before = NoObject, !.opened = NoObject, !.todo = @ \ {f},
                     !.copied = @ \cup {t.opened}]
  <2>1. t.at = "confirm" /\ f \in t.todo /\ f \in Files
    BY <1>7, <1>t DEF Confirm, AtTool, Tidy
  <2>2. CASE Rejected(f) \/ ~Same(s, f)
    <3>1. Drop(s, f)
      BY <1>7, <2>2 DEF Confirm
    <3> QED
      BY <1>d, <2>1, <3>1
  <2>3. CASE ~Rejected(f) /\ Same(s, f)
    <3>1. t.opened \in Object /\ t.opened.kind = "plain"
      BY <2>1, <2>3 DEF Same, Rejected
    <3>2. /\ b \in Tool /\ b.turn = t.turn /\ b.accepted = t.accepted /\ b.todo = t.todo \ {f}
          /\ b.skips = t.skips /\ b.copied = t.copied \cup {t.opened} /\ b.cur = f
      BY <1>t, <3>1 DEF Tool
    <3>3. tool' = [tool EXCEPT ![s] = IF Name(s) \in CopiesAll
                                      THEN [b EXCEPT !.cur = None, !.at = Onwards(s, b)]
                                      ELSE [b EXCEPT !.at = "run"]]
      BY <1>7, <2>3 DEF Confirm
    <3>4. \A o \in b.copied : o \in Object /\ o.kind = "plain"
      BY <3>1, <3>2 DEF Tidy
    <3> HIDE DEF b
    <3>5. Onwards(s, b) \in {"revalidate", "copy", "run"}
          /\ (Onwards(s, b) = "copy" => Name(s) \in CopiesAll)
      BY DEF Onwards
    <3> DEFINE cur == IF Name(s) \in CopiesAll THEN None ELSE f
               at  == IF Name(s) \in CopiesAll THEN Onwards(s, b) ELSE "run"
               r   == [b EXCEPT !.cur = cur, !.at = at]
    <3>6. /\ cur \in Files \cup {None} /\ at \in {"revalidate", "copy", "run"}
          /\ at = "copy" => Name(s) \in CopiesAll
      BY <2>1, <3>5
    <3>7. tool' = [tool EXCEPT ![s] = r]
      BY <3>2, <3>3 DEF Tool
    <3> HIDE DEF cur, at
    <3>8. /\ r \in Tool /\ r.turn = t.turn /\ r.accepted = t.accepted /\ r.todo = t.todo \ {f}
          /\ r.skips = t.skips /\ r.copied = b.copied /\ r.at = at
      BY <3>2, <3>6 DEF Tool
    <3> HIDE DEF r
    <3>9. Tidy(r)
      BY <2>1, <3>4, <3>6, <3>8, TidyMoved DEF Name
    <3> QED
      BY <3>7, <3>8, <3>9
  <2> QED
    BY <2>2, <2>3
<1>8. CASE Run(s)
  <2>1. t.at = "run" /\ t.turn \in DOMAIN AllTools
    BY <1>8 DEF Run, AtTool
  <2>2. CASE NextTool(s)
    BY <1>n, <2>1, <2>2
  <2>3. CASE ~NextTool(s)
    <3> DEFINE r == [t EXCEPT !.todo = @ \ {t.cur}, !.cur = None, !.copied = {},
                       !.queried = @ + 1, !.at = "revalidate"]
    <3>1. tool' = [tool EXCEPT ![s] = r]
      BY <1>8, <2>3 DEF Run
    <3>2. /\ r \in Tool /\ r.turn = t.turn /\ r.accepted = t.accepted /\ r.todo = t.todo \ {t.cur}
          /\ r.skips = t.skips /\ r.copied = {} /\ r.at = "revalidate"
      <4> DEFINE todo == t.todo \ {t.cur}
                 queried == t.queried + 1
      <4>1. todo \in SUBSET Files /\ queried \in Nat
        BY <1>t
      <4>2. r = [t EXCEPT !.todo = todo, !.cur = None, !.copied = {}, !.queried = queried,
                   !.at = "revalidate"]
        OBVIOUS
      <4> HIDE DEF todo, queried, r
      <4>3. /\ r \in Tool /\ r.turn = t.turn /\ r.accepted = t.accepted /\ r.todo = todo
            /\ r.skips = t.skips /\ r.copied = {} /\ r.at = "revalidate"
        BY <1>t, <4>1, <4>2 DEF Tool
      <4> QED
        BY <4>3 DEF todo
    <3> HIDE DEF r
    <3>3. Tidy(r)
      BY <2>1, <3>2, TidyMoved
    <3> QED
      BY <3>1, <3>2, <3>3
  <2> QED
    BY <2>2, <2>3
<1>9. CASE CopyFails(s) \/ NoSubcommand(s)
  BY <1>9, <1>n DEF CopyFails, NoSubcommand, AtTool
<1>10. CASE ToolsDone(s)
  <2>1. tool' = [tool EXCEPT ![s] = t]
    BY <1>10 DEF ToolsDone
  <2> QED
    BY <1>t, <2>1
<1> QED
  BY <1>1, <1>2, <1>3, <1>4, <1>5, <1>6, <1>7, <1>8, <1>9, <1>10 DEF ToolStep
-----------------------------------------------------------------------------
(***************************************************************************)
(* What a scan knows of the answers, and what it has said of them.         *)
(***************************************************************************)
Running == {"advisories", "tools", "bundle", "event"}

\* With network mode "advisories", a component of a scan is still to be asked
\* about, or answered, or the query failed and the scan will say that it is
\* partial.  Otherwise nothing is asked.
Query(s) ==
  /\ pc[s] # "fallback"
  /\ stage[s] = "off" => pc[s] = "idle" /\ job[s] = NoJob /\ ~failed[s]
  /\ pc[s] \in {"ask", "lock", "save"} => job[s].look = {}
  /\ pc[s] \in {"lock", "save"} => job[s].ask = {}
  /\ pc[s] = "answered" /\ ~job[s].failed => job[s].look = {} /\ job[s].ask = {}
  /\ stage[s] \in Running /\ ~online[s] => pc[s] = "idle" /\ job[s] = NoJob
  /\ stage[s] \in Running /\ online[s] /\ ~job[s].failed =>
       \A pkg \in components[s] : pkg \in job[s].look \cup job[s].ask \/ job[s].got[pkg] # "none"
  /\ stage[s] \in Running \ {"advisories"} /\ online[s] =>
       pc[s] = "answered" /\ (job[s].failed => partial[s])

\* What the bundle and the events say.
Said ==
  /\ \A s \in Scanners : stage[s] = "event" => written[s] = "all"
  /\ \A s \in Scanners : failed[s] => partial[s]
  /\ \A e \in events : /\ stage[e.scan] = "done" /\ written[e.scan] = "all"
                       /\ e.online /\ e.status = "complete" =>
                            /\ e.unanswered = {} /\ ~e.failed
                            /\ \A pkg \in components[e.scan] : Asked(pkg)
                       /\ ~e.online => e.unanswered = components[e.scan]

ScanInv ==
  /\ CacheInv /\ AskedInv /\ TypeOK /\ Said
  /\ \A s \in Scanners : Tidy(tool[s]) /\ Query(s)

LEMMA InitScan == Init => ScanInv
<1> SUFFICES ASSUME Init PROVE ScanInv
  OBVIOUS
<1>1. CacheInv /\ AskedInv
  BY InitCache, ScanIsCache DEF AskedInv, Init, CacheInit, NoJob
<1>2. \A s \in Scanners : tool[s] = ToolAt(1) /\ Tidy(tool[s]) /\ tool[s] \in Tool
  BY TidyAtStart DEF Init, Tidy
<1>3. file \in [Files -> Object] /\ changes \in 0 .. MaxChanges
  BY ScanAssumption DEF Init, Object, Kinds, InitialKind
<1>4. tool \in [Scanners -> Tool]
  BY <1>2 DEF Init
<1>5. TypeOK
  BY <1>1, <1>3, <1>4 DEF Init, TypeOK, CacheInv
<1>6. \A s \in Scanners : Query(s)
  BY DEF Init, CacheInit, Query, Running, Procs
<1>7. Said
  BY DEF Init, Said
<1> QED
  BY <1>1, <1>2, <1>5, <1>6, <1>7 DEF ScanInv

\* A query goes on towards its answers.
LEMMA QueryGoesOn ==
  ASSUME CacheTypeOK, NEW s \in Scanners, components[s] \subseteq Packages,
         Query(s), QueryStep(s),
         UNCHANGED <<stage, components, online, partial, failed>>
  PROVE  Query(s)'
<1> USE DEF Query
<1>t. s \in Procs /\ s \notin Guards /\ job[s] \in Job /\ pc[s] # "idle"
  BY AdvisoryCacheAssumption
  DEF Procs, CacheTypeOK, QueryStep, LookUp, Ask, AskFails, Fallback, PutLoad, PutSave, PutFails
<1>o. /\ stage[s] # "off" /\ stage'[s] = stage[s] /\ components'[s] = components[s]
      /\ partial'[s] = partial[s] /\ online'[s] = online[s]
      /\ stage[s] \in Running => online[s]
  BY <1>t
<1>1. CASE LookUp(s)
  <2>1. PICK v \in job[s].look :
          LET look == job[s].look \ {v}
              ask  == IF Fresh(v) THEN job[s].ask ELSE job[s].ask \cup {v}
          IN /\ job' = [job EXCEPT ![s].look = look, ![s].ask = ask,
                          ![s].got[v] = IF Fresh(v) THEN cache[v].answer ELSE @]
             /\ Goto(s, IF look # {} THEN "look" ELSE IF ask # {} THEN "ask" ELSE "answered")
    BY <1>1 DEF LookUp
  <2> DEFINE look == job[s].look \ {v}
             ask  == IF Fresh(v) THEN job[s].ask ELSE job[s].ask \cup {v}
             got  == [job[s].got EXCEPT ![v] = IF Fresh(v) THEN cache[v].answer ELSE @]
  <2>2. /\ job'[s].look = look /\ job'[s].ask = ask /\ job'[s].got = got
        /\ job'[s].failed = job[s].failed
    BY <1>t, <2>1 DEF CacheTypeOK, Job
  <2>3. pc'[s] = IF look # {} THEN "look" ELSE IF ask # {} THEN "ask" ELSE "answered"
    BY <1>t, <2>1 DEF CacheTypeOK, Goto
  <2>4. pc[s] = "look" /\ v \in Packages /\ job[s].got \in [Packages -> Answers \cup {"none"}]
    BY <1>1, <1>t, <2>1 DEF LookUp, Job
  <2>5. \A pkg \in Packages :
          pkg \in job[s].look \cup job[s].ask \/ job[s].got[pkg] # "none" =>
          pkg \in look \cup ask \/ got[pkg] # "none"
    BY <2>4 DEF Fresh
  <2> HIDE DEF look, ask, got
  <2> QED
    BY <1>o, <2>2, <2>3, <2>4, <2>5 DEF Running
<1>2. CASE Ask(s)
  <2>1. PICK named \in SUBSET job[s].ask, answer \in [job[s].ask -> Answers] :
          job' = [job EXCEPT ![s].ask = {}, ![s].put = job[s].ask, ![s].stamp = Wall,
                    ![s].got = [pkg \in Packages |-> IF pkg \in job[s].ask THEN answer[pkg]
                                                                           ELSE job[s].got[pkg]]]
    BY <1>2 DEF Ask
  <2> DEFINE got == [pkg \in Packages |-> IF pkg \in job[s].ask THEN answer[pkg]
                                                              ELSE job[s].got[pkg]]
  <2>2. /\ job'[s].look = job[s].look /\ job'[s].ask = {} /\ job'[s].got = got
        /\ job'[s].failed = job[s].failed
    BY <1>t, <2>1 DEF CacheTypeOK, Job
  <2>3. pc'[s] = "lock" /\ pc[s] = "ask" /\ job[s].look = {} /\ job[s].ask \subseteq Packages
    BY <1>2, <1>t DEF Ask, Goto, CacheTypeOK, Job
  <2>4. \A pkg \in Packages :
          pkg \in job[s].look \cup job[s].ask \/ job[s].got[pkg] # "none" => got[pkg] # "none"
    BY <2>3 DEF Answers
  <2> HIDE DEF got
  <2> QED
    BY <1>o, <2>2, <2>3, <2>4 DEF Running
<1>3. CASE AskFails(s)
  <2>1. job'[s].failed = TRUE /\ pc'[s] = "answered" /\ pc[s] = "ask"
    BY <1>3, <1>t DEF AskFails, Goto, CacheTypeOK, Job
  <2> QED
    BY <1>o, <2>1 DEF Running
<1>4. CASE PutLoad(s)
  <2>1. /\ pc[s] = "lock" /\ pc'[s] = "save" /\ job'[s].look = job[s].look
        /\ job'[s].ask = job[s].ask /\ job'[s].got = job[s].got /\ job'[s].failed = job[s].failed
    BY <1>4, <1>t DEF PutLoad, Goto, CacheTypeOK, Job
  <2> QED
    BY <1>o, <2>1 DEF Running
<1>5. CASE PutSave(s) \/ PutFails(s)
  <2>1. PICK v \in job[s].put : AfterPut(s, v)
    BY <1>5 DEF PutSave, PutFails
  <2>2. /\ pc'[s] \in {"lock", "answered"} /\ job'[s].look = job[s].look
        /\ job'[s].ask = job[s].ask /\ job'[s].got = job[s].got /\ job'[s].failed = job[s].failed
    BY <1>t, <2>1 DEF AfterPut, Goto, CacheTypeOK, Job
  <2>3. pc[s] \in {"lock", "save"}
    BY <1>5 DEF PutSave, PutFails
  <2> QED
    BY <1>o, <2>2, <2>3 DEF Running
<1>6. CASE Fallback(s)
  BY <1>6 DEF Fallback
<1> QED
  BY <1>1, <1>2, <1>3, <1>4, <1>5, <1>6 DEF QueryStep

\* What another process does leaves the query of a scan alone.
LEMMA QueryStays ==
  ASSUME NEW s \in Scanners, Query(s),
         UNCHANGED <<pc[s], job[s], stage[s], components[s], online[s]>>,
         failed'[s] => stage[s] # "off", partial[s] => partial'[s]
  PROVE  Query(s)'
BY DEF Query

LEMMA OthersLeaveIt ==
  ASSUME CacheTypeOK, NEW s \in Scanners, NEW p \in Procs \ {s},
         QueryStep(p) \/ Return(p) \/ Crash(p) \/ BeginRefresh(p)
         \/ \E c \in SUBSET Packages : BeginQuery(p, c)
  PROVE  UNCHANGED <<pc[s], job[s]>>
<1>1. ASSUME QueryStep(p) PROVE UNCHANGED <<pc[s], job[s]>>
  BY <1>1 DEF CacheTypeOK, QueryStep, LookUp, Ask, AskFails, Fallback, PutLoad, PutSave,
              PutFails, AfterPut, Goto, Procs
<1>2. ASSUME Return(p) \/ Crash(p) \/ BeginRefresh(p)
             \/ \E c \in SUBSET Packages : BeginQuery(p, c)
      PROVE  UNCHANGED <<pc[s], job[s]>>
  BY <1>2 DEF CacheTypeOK, Return, Crash, BeginRefresh, BeginQuery, Goto, Procs
<1> QED
  BY <1>1, <1>2

\* The queries of the other scans, when s begins or ends one.
LEMMA OtherQueries ==
  ASSUME CacheTypeOK, NEW s \in Scanners, \A q \in Scanners : Query(q),
         Crash(s) \/ \E c \in SUBSET Packages : BeginQuery(s, c),
         UNCHANGED failed,
         \A q \in Scanners \ {s} : UNCHANGED <<stage[q], components[q], online[q], partial[q]>>
  PROVE  \A q \in Scanners \ {s} : Query(q)'
<1> SUFFICES ASSUME NEW q \in Scanners \ {s} PROVE Query(q)'
  OBVIOUS
<1>1. UNCHANGED <<pc[q], job[q]>>
  BY OthersLeaveIt DEF Procs
<1>2. failed'[q] => stage[q] # "off"
  BY DEF Query
<1> QED
  BY <1>1, <1>2, QueryStays

LEMMA StepScan == ScanInv /\ [Next]_vars => ScanInv'
<1> SUFFICES ASSUME ScanInv, [Next]_vars PROVE ScanInv'
  OBVIOUS
<1>c. /\ CacheInv' /\ CacheTypeOK' /\ AskedInv'
      /\ \A pkg \in Packages : Asked(pkg) => Asked(pkg)'
  BY StepCache, StepAsked, AskedStays, ScanStepIsCacheStep DEF ScanInv, CacheInv
<1>t. /\ CacheTypeOK /\ file \in [Files -> Object] /\ changes \in 0 .. MaxChanges
      /\ tool \in [Scanners -> Tool] /\ partial \in [Scanners -> BOOLEAN]
      /\ failed \in [Scanners -> BOOLEAN] /\ components \in [Scanners -> SUBSET Packages]
      /\ online \in [Scanners -> BOOLEAN]
      /\ stage \in [Scanners -> {"off", "advisories", "tools", "bundle", "event", "done"}]
      /\ written \in [Scanners -> {"nothing", "some", "all"}] /\ events \subseteq ScanEvent
  BY DEF ScanInv, TypeOK
<1>i. Said /\ (\A s \in Scanners : Tidy(tool[s]) /\ Query(s))
  BY DEF ScanInv
\* What the events say stays so, as long as no scan of theirs changes.
<1>e. ASSUME \A e \in events : UNCHANGED <<written[e.scan], components[e.scan], stage[e.scan]>>
      PROVE  \A e \in events :
               /\ stage'[e.scan] = "done" /\ written'[e.scan] = "all"
               /\ e.online /\ e.status = "complete" =>
                    /\ e.unanswered = {} /\ ~e.failed
                    /\ \A pkg \in components'[e.scan] : Asked(pkg)'
               /\ ~e.online => e.unanswered = components'[e.scan]
  <2> SUFFICES ASSUME NEW e \in events
               PROVE  /\ stage'[e.scan] = "done" /\ written'[e.scan] = "all"
                      /\ e.online /\ e.status = "complete" =>
                           /\ e.unanswered = {} /\ ~e.failed
                           /\ \A pkg \in components'[e.scan] : Asked(pkg)'
                      /\ ~e.online => e.unanswered = components'[e.scan]
    OBVIOUS
  <2>1. e.scan \in Scanners /\ components[e.scan] \subseteq Packages
    BY <1>t DEF ScanEvent
  <2> QED
    BY <1>e, <1>i, <1>c, <2>1 DEF Said
\* A scan that is not over has no event.
<1>f. \A e \in events : e.scan \in Scanners /\ stage[e.scan] = "done"
  BY <1>i, <1>t DEF Said, ScanEvent
\* A step that moves no scan.
<1>1. ASSUME UNCHANGED scanVars, \A s \in Scanners : Query(s)' PROVE ScanInv'
  <2>1. Said'
    BY <1>1, <1>i, <1>e DEF scanVars, Said
  <2>3. \A s \in Scanners : Tidy(tool[s])'
    BY <1>1, <1>i DEF scanVars, Tidy
  <2>2. TypeOK'
    BY <1>1, <1>c, <1>t DEF scanVars, TypeOK
  <2> QED
    BY <1>1, <1>c, <2>1, <2>2, <2>3 DEF ScanInv
<1>2. CASE Queries
  <2>1. UNCHANGED scanVars
    BY <1>2 DEF Queries
  <2>2. ASSUME NEW s \in Scanners PROVE Query(s)'
    <3>1. CASE QueryStep(s)
      BY <1>i, <1>t, <2>1, <3>1, QueryGoesOn DEF scanVars
    <3>2. CASE ~QueryStep(s)
      <4>1. PICK p \in Procs \ {s} : QueryStep(p) \/ Return(p) \/ Crash(p)
        BY <1>2, <3>2, AdvisoryCacheAssumption DEF Queries, Procs
      <4>2. UNCHANGED <<pc[s], job[s]>>
        BY <1>t, <4>1, OthersLeaveIt
      <4> QED
        BY <1>i, <2>1, <4>2, QueryStays DEF scanVars, Query
    <3> QED
      BY <3>1, <3>2
  <2> QED
    BY <1>1, <2>1, <2>2
<1>3. CASE Others
  <2>1. UNCHANGED scanVars
    BY <1>3 DEF Others
  <2>2. ASSUME NEW s \in Scanners PROVE Query(s)'
    <3>1. UNCHANGED <<pc[s], job[s]>>
      <4>1. CASE Tick \/ SetClockBack
        BY <4>1 DEF Tick, SetClockBack
      <4>2. CASE \E p \in Guards : BeginRefresh(p)
        BY <1>t, <4>2, OthersLeaveIt, AdvisoryCacheAssumption DEF Procs
      <4> QED
        BY <1>3, <4>1, <4>2 DEF Others
    <3> QED
      BY <1>i, <2>1, <3>1, QueryStays DEF scanVars, Query
  <2> QED
    BY <1>1, <2>1, <2>2
<1>4. ASSUME NEW f \in Files, Change(f) PROVE ScanInv'
  <2>1. PICK kind \in Kinds : file' = [file EXCEPT ![f] = [kind |-> kind, made |-> changes + 1]]
    BY <1>4 DEF Change
  <2>2. changes' \in 0 .. MaxChanges /\ changes' = changes + 1
    BY <1>4, <1>t, ScanAssumption DEF Change
  <2>3. file' \in [Files -> Object]
    BY <1>t, <2>1, <2>2 DEF Object
  <2>4. UNCHANGED <<cacheVars, stage, components, online, partial, tool, failed, written, events>>
    BY <1>4 DEF Change
  <2>5. TypeOK'
    BY <1>c, <1>t, <2>2, <2>3, <2>4 DEF TypeOK
  <2>6. \A s \in Scanners : Tidy(tool[s])' /\ Query(s)'
    BY <1>i, <2>4 DEF Tidy, Query, cacheVars
  <2>7. Said'
    BY <1>i, <1>e, <2>4 DEF Said
  <2> QED
    BY <1>c, <2>5, <2>6, <2>7 DEF ScanInv
<1>5. ASSUME NEW s \in Scanners, StartScan(s) PROVE ScanInv'
  <2>1. PICK found \in SUBSET Packages, unreadable \in BOOLEAN :
          /\ components' = [components EXCEPT ![s] = found]
          /\ online' = [online EXCEPT ![s] = TRUE]
          /\ partial' = [partial EXCEPT ![s] = unreadable]
          /\ BeginQuery(s, found)
    BY <1>5 DEF StartScan, TakeInventory
  <2>2. /\ stage[s] = "off" /\ stage' = [stage EXCEPT ![s] = "advisories"]
        /\ UNCHANGED <<file, changes, tool, failed, written, events>>
    BY <1>5 DEF StartScan, TakeInventory
  <2>3. TypeOK'
    BY <1>c, <1>t, <2>1, <2>2 DEF TypeOK
  <2>4. Said'
    <3>1. ~failed[s]
      BY <1>i, <2>2 DEF Query
    <3>2. /\ \A q \in Scanners : stage'[q] = "event" => written'[q] = "all"
          /\ \A q \in Scanners : failed'[q] => partial'[q]
      BY <1>i, <1>t, <2>1, <2>2, <3>1 DEF Said
    <3>3. \A e \in events : UNCHANGED <<written[e.scan], components[e.scan], stage[e.scan]>>
      BY <1>f, <1>t, <2>1, <2>2
    <3> QED
      BY <1>e, <2>2, <3>2, <3>3 DEF Said
  <2>5. \A q \in Scanners \ {s} : Query(q)'
    <3>1. \A q \in Scanners \ {s} : UNCHANGED <<stage[q], components[q], online[q], partial[q]>>
      BY <1>t, <2>1, <2>2
    <3> QED
      BY <1>i, <1>t, <2>1, <2>2, <3>1, OtherQueries
  <2>6. Query(s)'
    <3>1. /\ job'[s] = [NoJob EXCEPT !.look = found]
          /\ pc'[s] = IF found = {} THEN "answered" ELSE "look"
      BY <1>t, <2>1 DEF BeginQuery, Goto, CacheTypeOK, Procs
    <3>2. job'[s].look = found /\ job'[s].ask = {} /\ ~job'[s].failed
      BY <3>1 DEF NoJob
    <3>3. components'[s] = found /\ stage'[s] = "advisories" /\ online'[s]
      BY <1>t, <2>1, <2>2
    <3> QED
      BY <3>1, <3>2, <3>3 DEF Query, Running
  <2> QED
    BY <1>c, <1>i, <2>2, <2>3, <2>4, <2>5, <2>6 DEF ScanInv, Tidy
<1>6. ASSUME NEW s \in Scanners, StartOffline(s) PROVE ScanInv'
  <2>1. PICK found \in SUBSET Packages, unreadable \in BOOLEAN :
          /\ components' = [components EXCEPT ![s] = found]
          /\ online' = [online EXCEPT ![s] = FALSE]
          /\ partial' = [partial EXCEPT ![s] = unreadable]
    BY <1>6 DEF StartOffline, TakeInventory
  <2>2. /\ stage[s] = "off" /\ stage' = [stage EXCEPT ![s] = "bundle"]
        /\ UNCHANGED <<cacheVars, file, changes, tool, failed, written, events>>
    BY <1>6 DEF StartOffline, TakeInventory
  <2>3. TypeOK'
    BY <1>c, <1>t, <2>1, <2>2 DEF TypeOK
  <2>4. ~failed[s] /\ job[s] = NoJob /\ pc[s] = "idle"
    BY <1>i, <2>2 DEF Query
  <2>5. Said'
    <3>1. /\ \A q \in Scanners : stage'[q] = "event" => written'[q] = "all"
          /\ \A q \in Scanners : failed'[q] => partial'[q]
      BY <1>i, <1>t, <2>1, <2>2, <2>4 DEF Said
    <3>2. \A e \in events : UNCHANGED <<written[e.scan], components[e.scan], stage[e.scan]>>
      BY <1>f, <1>t, <2>1, <2>2
    <3> QED
      BY <1>e, <2>2, <3>1, <3>2 DEF Said
  <2>6. \A q \in Scanners \ {s} : Query(q)'
    <3>1. \A q \in Scanners \ {s} : UNCHANGED <<stage[q], components[q], online[q], partial[q]>>
      BY <1>t, <2>1, <2>2
    <3> QED
      BY <1>i, <2>2, <3>1, QueryStays DEF cacheVars, Query
  <2>7. Query(s)'
    <3>1. ~online'[s] /\ stage'[s] = "bundle" /\ pc'[s] = "idle" /\ job'[s] = NoJob
      BY <1>t, <2>1, <2>2, <2>4 DEF cacheVars
    <3> QED
      BY <3>1 DEF Query, Running
  <2> QED
    BY <1>c, <1>i, <2>2, <2>3, <2>5, <2>6, <2>7 DEF ScanInv, Tidy
<1>7. ASSUME NEW s \in Scanners, Advised(s) PROVE ScanInv'
  <2>1. /\ stage[s] = "advisories" /\ pc[s] = "answered" /\ stage' = [stage EXCEPT ![s] = "tools"]
        /\ partial' = [partial EXCEPT ![s] = partial[s] \/ job[s].failed]
        /\ failed' = [failed EXCEPT ![s] = job[s].failed]
        /\ UNCHANGED <<cacheVars, file, changes, components, online, tool, written, events>>
    BY <1>7 DEF Advised
  <2>2. job[s].failed \in BOOLEAN
    BY <1>t DEF CacheTypeOK, Job, Procs
  <2>3. TypeOK'
    <3>1. (partial[s] \/ job[s].failed) \in BOOLEAN
      BY <1>t, <2>2
    <3> QED
      BY <1>c, <1>t, <2>1, <2>2, <3>1 DEF TypeOK
  <2>4. Said'
    <3>1. /\ \A q \in Scanners : stage'[q] = "event" => written'[q] = "all"
          /\ \A q \in Scanners : failed'[q] => partial'[q]
      BY <1>i, <1>t, <2>1, <2>2 DEF Said
    <3>2. \A e \in events : UNCHANGED <<written[e.scan], components[e.scan], stage[e.scan]>>
      BY <1>f, <1>t, <2>1
    <3> QED
      BY <1>e, <2>1, <3>1, <3>2 DEF Said
  <2>5. \A q \in Scanners : Query(q)'
    BY <1>i, <1>t, <2>1, <2>2 DEF Query, cacheVars, Running
  <2> QED
    BY <1>c, <1>i, <2>1, <2>3, <2>4, <2>5 DEF ScanInv, Tidy
<1>8. ASSUME NEW s \in Scanners, ToolStep(s) PROVE ScanInv'
  <2>1. PICK r \in Tool : Tidy(r) /\ tool' = [tool EXCEPT ![s] = r]
    BY <1>8, <1>i, <1>t, ToolStepTidy
  <2>2. \A q \in Scanners : Tidy(tool'[q])
    BY <1>i, <1>t, <2>1
  <2>3. /\ stage[s] = "tools"
        /\ stage' \in {stage, [stage EXCEPT ![s] = "bundle"]}
        /\ \/ UNCHANGED <<partial, failed>>
           \/ /\ partial' = [partial EXCEPT ![s] = TRUE]
              /\ failed' = [failed EXCEPT ![s] = TRUE]
        /\ UNCHANGED <<cacheVars, file, changes, components, online, written, events>>
    BY <1>8 DEF ToolStep, AtTool, OnlyTool, SkipTool, Collect, RevalidateAll, RevalidateOne,
                ToolDone, Look, Open, Confirm, Run, CopyFails, NoSubcommand, ToolsDone
  <2>4. /\ \A q \in Scanners : /\ partial[q] => partial'[q]
                               /\ failed'[q] => failed[q] \/ partial'[q]
        /\ \A q \in Scanners \ {s} : stage'[q] = stage[q] /\ failed'[q] = failed[q]
        /\ stage'[s] \in {"tools", "bundle"}
        /\ stage' \in [Scanners -> {"off", "advisories", "tools", "bundle", "event", "done"}]
        /\ partial' \in [Scanners -> BOOLEAN] /\ failed' \in [Scanners -> BOOLEAN]
    BY <1>t, <2>3
  <2>5. TypeOK'
    <3>1. tool' \in [Scanners -> Tool]
      BY <1>t, <2>1
    <3> QED
      BY <1>c, <1>t, <2>3, <2>4, <3>1 DEF TypeOK
  <2>6. Said'
    <3>1. \A e \in events : UNCHANGED <<written[e.scan], components[e.scan], stage[e.scan]>>
      BY <1>f, <2>3, <2>4
    <3>2. /\ \A q \in Scanners : stage'[q] = "event" => written'[q] = "all"
          /\ \A q \in Scanners : failed'[q] => partial'[q]
      BY <1>i, <2>3, <2>4 DEF Said
    <3> QED
      BY <1>e, <2>3, <3>1, <3>2 DEF Said
  <2>7. \A q \in Scanners : Query(q)'
    BY <1>i, <2>3, <2>4 DEF Query, cacheVars, Running
  <2>8. \A q \in Scanners : Tidy(tool[q])'
    BY <2>2 DEF Tidy
  <2> QED
    BY <1>c, <2>5, <2>6, <2>7, <2>8 DEF ScanInv
<1>9. ASSUME NEW s \in Scanners, WriteFiles(s) PROVE ScanInv'
  <2>1. /\ stage[s] = "bundle"
        /\ written' = [written EXCEPT ![s] = IF @ = "nothing" THEN "some" ELSE "all"]
        /\ stage' = [stage EXCEPT ![s] = IF written[s] = "nothing" THEN "bundle" ELSE "event"]
        /\ UNCHANGED <<cacheVars, file, changes, components, online, partial, tool, failed, events>>
    BY <1>9 DEF WriteFiles
  <2>2. TypeOK'
    BY <1>c, <1>t, <2>1 DEF TypeOK
  <2>3. Said'
    <3>1. /\ \A q \in Scanners : stage'[q] = "event" => written'[q] = "all"
          /\ \A q \in Scanners : failed'[q] => partial'[q]
      BY <1>i, <1>t, <2>1 DEF Said
    <3>2. \A e \in events : UNCHANGED <<written[e.scan], components[e.scan], stage[e.scan]>>
      BY <1>f, <1>t, <2>1
    <3> QED
      BY <1>e, <2>1, <3>1, <3>2 DEF Said
  <2>4. \A q \in Scanners : Query(q)'
    BY <1>i, <1>t, <2>1 DEF Query, cacheVars, Running
  <2> QED
    BY <1>c, <1>i, <2>1, <2>2, <2>3, <2>4 DEF ScanInv, Tidy
<1>10. ASSUME NEW s \in Scanners, RecordScan(s) PROVE ScanInv'
  <2> DEFINE e == [scan |-> s, online |-> online[s],
                   status |-> IF partial[s] THEN "partial" ELSE "complete",
                   unanswered |-> {pkg \in components[s] : job[s].got[pkg] = "none"},
                   failed |-> failed[s]]
  <2>1. /\ stage[s] = "event" /\ stage' = [stage EXCEPT ![s] = "done"]
        /\ events' = events \cup {e}
        /\ UNCHANGED <<cacheVars, file, changes, components, online, partial, tool, failed, written>>
    BY <1>10 DEF RecordScan
  <2>2. e \in ScanEvent
    BY <1>t DEF ScanEvent
  <2>3. TypeOK'
    BY <1>c, <1>t, <2>1, <2>2 DEF TypeOK
  <2>4. online[s] /\ ~partial[s] =>
          /\ ~failed[s] /\ \A pkg \in components[s] : job[s].got[pkg] # "none"
    BY <1>i, <2>1 DEF Query, Said, Running
  <2>5. e.online /\ e.status = "complete" =>
          /\ e.unanswered = {} /\ ~e.failed
          /\ \A pkg \in components[s] : Asked(pkg)'
    <3>1. \A pkg \in components[s] : job[s].got[pkg] # "none" => Asked(pkg)'
      BY <1>c, <1>t DEF ScanInv, AskedInv, Procs
    <3> QED
      BY <2>4, <3>1
  <2>8. ~e.online => e.unanswered = components[s]
    <3>1. ~online[s] => job[s] = NoJob
      BY <1>i, <2>1 DEF Query, Running
    <3> QED
      BY <1>t, <3>1 DEF NoJob
  <2>9. e.scan = s
    OBVIOUS
  <2> HIDE DEF e
  <2>6. Said'
    <3>1. /\ \A q \in Scanners : stage'[q] = "event" => written'[q] = "all"
          /\ \A q \in Scanners : failed'[q] => partial'[q]
      BY <1>i, <1>t, <2>1 DEF Said
    <3>2. \A o \in events : UNCHANGED <<written[o.scan], components[o.scan], stage[o.scan]>>
      BY <1>f, <1>t, <2>1
    <3>3. stage'[s] = "done" /\ written'[s] = "all" /\ components'[s] = components[s]
      BY <1>i, <1>t, <2>1 DEF Said
    <3> QED
      BY <1>e, <2>1, <2>5, <2>8, <2>9, <3>1, <3>2, <3>3 DEF Said
  <2>7. \A q \in Scanners : Query(q)'
    BY <1>i, <1>t, <2>1 DEF Query, cacheVars, Running
  <2> QED
    BY <1>c, <1>i, <2>1, <2>3, <2>6, <2>7 DEF ScanInv, Tidy
<1>11. ASSUME NEW s \in Scanners, Stop(s) PROVE ScanInv'
  <2>1. /\ stage[s] \notin {"off", "done"} /\ stage' = [stage EXCEPT ![s] = "done"]
        /\ (pc[s] = "idle" /\ UNCHANGED cacheVars) \/ Crash(s)
        /\ UNCHANGED <<file, changes, components, online, partial, tool, failed, written, events>>
    BY <1>11 DEF Stop
  <2>2. TypeOK'
    BY <1>c, <1>t, <2>1 DEF TypeOK
  <2>3. Said'
    <3>1. /\ \A q \in Scanners : stage'[q] = "event" => written'[q] = "all"
          /\ \A q \in Scanners : failed'[q] => partial'[q]
      BY <1>i, <1>t, <2>1 DEF Said
    <3>2. \A e \in events : UNCHANGED <<written[e.scan], components[e.scan], stage[e.scan]>>
      BY <1>f, <1>t, <2>1
    <3> QED
      BY <1>e, <2>1, <3>1, <3>2 DEF Said
  <2>4. \A q \in Scanners \ {s} : UNCHANGED <<stage[q], components[q], online[q], partial[q]>>
    BY <1>t, <2>1
  <2>5. pc'[s] = "idle" /\ stage'[s] = "done"
    BY <1>t, <2>1 DEF Crash, Goto, CacheTypeOK, Procs, cacheVars
  <2>6. Query(s)'
    BY <2>5 DEF Query, Running
  <2>7. \A q \in Scanners \ {s} : Query(q)'
    <3>1. CASE UNCHANGED cacheVars
      BY <1>i, <2>1, <2>4, <3>1 DEF Query, cacheVars
    <3>2. CASE Crash(s)
      BY <1>i, <1>t, <2>1, <2>4, <3>2, OtherQueries
    <3> QED
      BY <2>1, <3>1, <3>2
  <2> QED
    BY <1>c, <1>i, <2>1, <2>2, <2>3, <2>6, <2>7 DEF ScanInv, Tidy
<1>12. CASE UNCHANGED vars
  <2>1. UNCHANGED scanVars /\ \A s \in Scanners : Query(s)'
    BY <1>12, <1>i DEF vars, cacheVars, scanVars, Query
  <2> QED
    BY <1>1, <2>1
<1> QED
  BY <1>2, <1>3, <1>4, <1>5, <1>6, <1>7, <1>8, <1>9, <1>10, <1>11, <1>12 DEF Next

THEOREM ScanInvHolds == Spec => []ScanInv
  BY InitScan, StepScan, PTL DEF Spec

\* The type invariant, for any guards, scanners, files and tools.
THEOREM TypeCorrect == Spec => []TypeOK
<1>1. ScanInv => TypeOK
  BY DEF ScanInv
<1> QED
  BY ScanInvHolds, <1>1, PTL

\* A recorded scan has its bundle; a complete one with advisories holds an answer
\* about every exact component, each from OSV or taken for a missing result, and
\* one without advisories holds none.
THEOREM ScansAreBacked == Spec => []RecordedScanIsBacked
<1>1. ScanInv => RecordedScanIsBacked
  BY DEF ScanInv, Said, RecordedScanIsBacked
<1> QED
  BY ScanInvHolds, <1>1, PTL

\* A candidate is accepted or counted once as skipped, however often it is
\* replaced between the looks at it.
THEOREM SkipsAreCounted == Spec => []SkipsAddUp
<1>1. ScanInv => SkipsAddUp
  BY DEF ScanInv, Tidy, SkipsAddUp, Name
<1> QED
  BY ScanInvHolds, <1>1, PTL

\* A tool is only given copies of regular files that were at the paths.
THEOREM HandedFilesAreRegular == Spec => []HandedFilesWereThere
<1>1. ScanInv => HandedFilesWereThere
  <2>1. Foreign \notin Object
    BY ScanAssumption DEF Foreign, Object
  <2> QED
    BY <2>1 DEF ScanInv, Tidy, HandedFilesWereThere
<1> QED
  BY ScanInvHolds, <1>1, PTL
-----------------------------------------------------------------------------
(***************************************************************************)
(* The tools that get a root.                                              *)
(***************************************************************************)
\* The work on such a tool: every root is a directory, and it goes no further
\* than looking at them again.
OnlyLooks(r) ==
  /\ r.at \in {"collect", "revalidate"} /\ r.queried = 0
  /\ \A f \in r.todo : file[f].kind = "folder"

AtRootTool(r) == r.turn \in DOMAIN AllTools /\ AllTools[r.turn] \in GetsRoot

RootInv ==
  changes = 0 => \A s \in Scanners : AtRootTool(tool[s]) => OnlyLooks(tool[s])

LEMMA StepRoot ==
  ASSUME ScanInv, RootInv, [Next]_vars
  PROVE  RootInv'
<1> SUFFICES ASSUME changes' = 0, NEW s \in Scanners, AtRootTool(tool'[s])
             PROVE  OnlyLooks(tool[s])'
  BY DEF RootInv, AtRootTool
<1>0. /\ tool \in [Scanners -> Tool] /\ changes \in Nat
      /\ AtRootTool(tool[s]) => OnlyLooks(tool[s]) \/ changes # 0
  BY DEF ScanInv, TypeOK, RootInv
<1>1. changes = 0 /\ file' = file
  <2>1. ASSUME NEW f \in Files, Change(f) PROVE FALSE
    BY <1>0, <2>1 DEF Change
  <2>2. ASSUME NEW q \in Scanners, ToolStep(q) PROVE UNCHANGED <<changes, file>>
    BY <2>2 DEF ToolStep, SkipTool, Collect, RevalidateAll, RevalidateOne, ToolDone, Look, Open,
                Confirm, Run, CopyFails, NoSubcommand, ToolsDone, OnlyTool
  <2>3. (\E f \in Files : Change(f)) \/ UNCHANGED <<changes, file>>
    BY <2>2 DEF Next, vars, scanVars, Queries, Others, StartScan, TakeInventory, StartOffline,
       Advised, WriteFiles,
       RecordScan, Stop
  <2> QED
    BY <2>1, <2>3
<1>2. CASE tool'[s] = tool[s]
  BY <1>0, <1>1, <1>2 DEF AtRootTool, OnlyLooks
<1>3. ASSUME NEW n, tool'[s] = ToolAt(n) PROVE OnlyLooks(tool[s])'
  BY <1>3 DEF OnlyLooks, ToolAt
<1>4. CASE ToolStep(s)
  <2>1. CASE NextTool(s)
    BY <1>0, <1>3, <2>1 DEF NextTool
  <2>2. CASE Collect(s)
    <3>1. PICK acc \in SUBSET {f \in Candidates[Name(s)] : Takes(Name(s), f)} :
            tool' = [tool EXCEPT ![s].accepted = acc, ![s].todo = acc,
                       ![s].skips = Cardinality(Candidates[Name(s)] \ acc),
                       ![s].at = IF Name(s) \in Probed THEN "run" ELSE "revalidate"]
      BY <2>2 DEF Collect
    <3>2. /\ tool'[s].turn = tool[s].turn /\ tool'[s].todo = acc
          /\ tool'[s].queried = tool[s].queried
          /\ tool'[s].at = IF Name(s) \in Probed THEN "run" ELSE "revalidate"
      BY <1>0, <3>1 DEF Tool
    <3>3. Name(s) \in GetsRoot /\ Name(s) \notin Probed /\ tool[s].queried = 0
      BY <1>0, <1>1, <3>2 DEF AtRootTool, OnlyLooks, Name, GetsRoot, Probed
    <3>4. \A f \in acc : file[f].kind = "folder"
      BY <3>3 DEF Takes
    <3> QED
      BY <1>1, <3>2, <3>3, <3>4 DEF OnlyLooks
  <2>3. CASE RevalidateOne(s)
    <3>1. PICK f \in tool[s].todo :
            tool' = [tool EXCEPT ![s] =
                       IF Rejected(f) THEN Without(@, f)
                       ELSE [@ EXCEPT !.cur = f,
                                      !.at = IF Name(s) \in GetsRoot THEN "run" ELSE "copy"]]
      BY <2>3 DEF RevalidateOne
    <3>2. tool'[s].turn = tool[s].turn
      BY <1>0, <3>1 DEF Without, Tool
    <3>3. OnlyLooks(tool[s])
      BY <1>0, <1>1, <3>2 DEF AtRootTool
    <3>4. tool'[s] = Without(tool[s], f)
      BY <1>0, <3>1, <3>3 DEF OnlyLooks, Rejected
    <3>5. /\ tool'[s].at = tool[s].at /\ tool'[s].queried = tool[s].queried
          /\ tool'[s].todo = tool[s].todo \ {f}
      BY <1>0, <3>4 DEF Without, Tool
    <3> QED
      BY <1>1, <3>3, <3>5 DEF OnlyLooks
  <2> DEFINE t == tool[s]
  <2>4. CASE RevalidateAll(s) /\ ~NextTool(s)
    <3> DEFINE bad == {f \in t.accepted : Rejected(f)}
               acc == t.accepted \ bad
               todo == t.todo \ bad
               skips == t.skips + Cardinality(bad)
               r == [t EXCEPT !.accepted = acc, !.todo = todo, !.skips = skips, !.at = "copy"]
    <3>1. tool' = [tool EXCEPT ![s] = r] /\ Name(s) \in CopiesAll
      BY <2>4 DEF RevalidateAll
    <3> HIDE DEF bad, acc, todo, skips
    <3>2. r.turn = t.turn
      BY <1>0 DEF Tool
    <3> HIDE DEF r
    <3> QED
      BY <1>0, <3>1, <3>2 DEF AtRootTool, Name, GetsRoot, CopiesAll
  <2>5. CASE (Look(s) \/ Open(s) \/ Confirm(s) \/ Run(s)) /\ ~NextTool(s)
    <3>1. PICK r : tool' = [tool EXCEPT ![s] = r] /\ r.turn = t.turn
      <4>1. ASSUME NEW f, Drop(s, f)
            PROVE  \E r : tool' = [tool EXCEPT ![s] = r] /\ r.turn = t.turn
        <5> DEFINE b == [t EXCEPT !.cur = None, !.before = NoObject, !.opened = NoObject]
                   w == Without(b, f)
                   at == Onwards(s, w)
                   r == [w EXCEPT !.at = at]
        <5>1. b.turn = t.turn
          BY <1>0 DEF Tool
        <5>2. tool' = [tool EXCEPT ![s] = r]
          BY <4>1 DEF Drop
        <5> HIDE DEF at
        <5>3. r.turn = w.turn
          BY <1>0 DEF Without, Tool
        <5>4. w.turn = b.turn
          BY <1>0 DEF Without, Tool
        <5> HIDE DEF r
        <5> QED
          BY <5>1, <5>2, <5>3, <5>4
      <4>2. CASE Look(s)
        <5>1. PICK f : Drop(s, f) \/ tool' = [tool EXCEPT ![s].cur = f, ![s].before = file[f],
                                                        ![s].at = "open"]
          BY <4>2 DEF Look
        <5> DEFINE r == [t EXCEPT !.cur = f, !.before = file[f], !.at = "open"]
        <5>2. r.turn = t.turn
          BY <1>0 DEF Tool
        <5> QED
          BY <4>1, <5>1, <5>2
      <4>3. CASE Open(s)
        <5> DEFINE o == LedTo(t.cur)
                   r == [t EXCEPT !.opened = o, !.at = "confirm"]
        <5>1. Drop(s, t.cur) \/ tool' = [tool EXCEPT ![s] = r]
          BY <4>3 DEF Open
        <5> HIDE DEF o
        <5>2. r.turn = t.turn
          BY <1>0 DEF Tool
        <5> QED
          BY <4>1, <5>1, <5>2
      <4>4. CASE Confirm(s)
        <5> DEFINE todo == t.todo \ {t.cur}
                   copied == t.copied \cup {t.opened}
                   b == [t EXCEPT !.before = NoObject, !.opened = NoObject, !.todo = todo,
                           !.copied = copied]
                   c == [b EXCEPT !.cur = None, !.at = Onwards(s, b)]
                   d == [b EXCEPT !.at = "run"]
        <5>1. \/ Drop(s, t.cur)
              \/ tool' = [tool EXCEPT ![s] = c] \/ tool' = [tool EXCEPT ![s] = d]
          BY <4>4 DEF Confirm
        <5> HIDE DEF todo, copied
        <5>2. b.turn = t.turn /\ c.turn = b.turn /\ d.turn = b.turn
          BY <1>0 DEF Tool
        <5> HIDE DEF b, c, d
        <5> QED
          BY <4>1, <5>1, <5>2
      <4>5. CASE Run(s) /\ ~NextTool(s)
        <5> DEFINE todo == t.todo \ {t.cur}
                   queried == t.queried + 1
                   r == [t EXCEPT !.todo = todo, !.cur = None, !.copied = {},
                           !.queried = queried, !.at = "revalidate"]
        <5>1. tool' = [tool EXCEPT ![s] = r]
          BY <4>5 DEF Run
        <5> HIDE DEF todo, queried
        <5>2. r.turn = t.turn
          BY <1>0 DEF Tool
        <5> QED
          BY <5>1, <5>2
      <4> QED
        BY <2>5, <4>2, <4>3, <4>4, <4>5
    <3>2. t.at \notin {"collect", "revalidate"}
      BY <2>5 DEF Look, Open, Confirm, Run, AtTool
    <3>3. AtRootTool(t)
      BY <1>0, <3>1 DEF AtRootTool
    <3> QED
      BY <1>0, <1>1, <3>2, <3>3 DEF OnlyLooks
  <2>6. CASE ToolsDone(s)
    BY <1>2, <2>6 DEF ToolsDone
  <2> QED
    BY <1>4, <2>1, <2>2, <2>3, <2>4, <2>5, <2>6
       DEF ToolStep, SkipTool, ToolDone, CopyFails, NoSubcommand
<1>5. ASSUME NEW q \in Scanners \ {s}, ToolStep(q) PROVE tool'[s] = tool[s]
  BY <1>0, <1>5 DEF ToolStep, SkipTool, Collect, RevalidateAll, RevalidateOne, ToolDone, Look, Open,
              Confirm, Run, CopyFails, NoSubcommand, ToolsDone, NextTool, Drop
<1>6. CASE tool' = tool
  BY <1>2, <1>6
<1> QED
  BY <1>2, <1>4, <1>5, <1>6 DEF Next, vars, scanVars, Queries, Others, Change, StartScan,
     TakeInventory, StartOffline,
     Advised, WriteFiles, RecordScan, Stop

\* A tool that gets a root is neither run nor counted as having been asked.
NoRootIsQueried ==
  changes = 0 =>
    \A s \in Scanners : AtRootTool(tool[s]) => tool[s].at # "run" /\ tool[s].queried = 0

\* What the run scan_roots shows of one root holds of all: unless a directory
\* is replaced by a file while tools are run, syft and cargo-vet are never run
\* (runSyftProvider, runCargoVetProvider), whatever is installed.
THEOREM RootsAreNeverQueried == Spec => []NoRootIsQueried
<1>1. Init => RootInv
  BY ScanAssumption DEF Init, RootInv, OnlyLooks, ToolAt
<1>2. RootInv => NoRootIsQueried
  BY DEF RootInv, OnlyLooks, NoRootIsQueried
<1> QED
  BY <1>1, <1>2, StepRoot, ScanInvHolds, PTL DEF Spec
=============================================================================
