---------------------------- MODULE AdvisoryCache ----------------------------
(***************************************************************************)
(* The cache of advisories (advisory.go, storage_approvals.go,             *)
(* scan_advisories.go): guard runs that refresh the answer about one exact *)
(* version, and scans that look up many and ask about the rest, share      *)
(* ~/.local-sec/advisory-cache.json.                                       *)
(*                                                                         *)
(* A guard asks first and reads the cache when OSV cannot be asked; a scan *)
(* reads the cache first.  The file is replaced by a rename, under a lock, *)
(* as approvals.json is (ApprovalStore).  The age of an entry is measured  *)
(* with the wall clock, which may be set back while processes run.         *)
(* Advisories are "clean" (none) or "flagged" (some).  A reply to the batch*)
(* query of a scan may have fewer results than the query has versions: the *)
(* code takes and caches those it leaves out as clean.                     *)
(***************************************************************************)
EXTENDS Integers, FiniteSets

CONSTANTS
  Guards,     \* processes that run the preflight of a command
  Scanners,   \* processes that run `lsec scan`
  Packages,   \* exact ecosystem, name and version
  None,       \* nobody
  TTL,        \* how long an entry is fresh
  MaxTime,    \* bound on the time that passes
  MaxBack,    \* bound on how far the wall clock is set back
  MaxCalls    \* bound on the refreshes of the guards

Procs == Guards \cup Scanners

ASSUME AdvisoryCacheAssumption ==
  /\ None \notin Procs /\ Guards \cap Scanners = {}
  /\ TTL \in Nat /\ MaxTime \in Nat /\ MaxBack \in Nat /\ MaxCalls \in Nat

VARIABLES
  cache,      \* advisory-cache.json: the entry of each package, or NoEntry
  lock,       \* the process that holds advisory-cache.json.lock, or None
  time,       \* the time that has passed
  back,       \* how far the wall clock has been set back
  given,      \* history: when OSV last gave each answer about each package
  omitted,    \* history: when a reply last left out a package it was asked about
  calls,      \* refreshes begun
  pc,         \* where each process is in its call
  job         \* what its call works on

cacheVars == <<cache, lock, time, back, given, omitted, calls, pc, job>>

Answers == {"clean", "flagged"}
Entry   == [answer : Answers, checkedAt : Int]
NoEntry == [answer |-> "none", checkedAt |-> 0]
Content == [Packages -> Entry \cup {NoEntry}]
Never   == -1

\* look: still to be looked up; ask: to be asked about; put: answered and still
\* to be cached; got: the answers the call uses; stamp: when it was answered;
\* failed: OSV could not be asked and (for a guard) nothing fresh was cached.
Job == [look : SUBSET Packages, ask : SUBSET Packages, put : SUBSET Packages,
        got : [Packages -> Answers \cup {"none"}], stamp : Int, failed : BOOLEAN,
        copy : Content]
NoContent == [pkg \in Packages |-> NoEntry]
NoJob == [look |-> {}, ask |-> {}, put |-> {}, got |-> [pkg \in Packages |-> "none"],
          stamp |-> 0, failed |-> FALSE, copy |-> NoContent]

CacheTypeOK ==
  /\ cache \in Content
  /\ lock \in Procs \cup {None}
  /\ time \in 0 .. MaxTime /\ back \in 0 .. MaxBack /\ calls \in 0 .. MaxCalls
  /\ given \in [Packages \X Answers -> 0 .. MaxTime \cup {Never}]
  /\ omitted \in [Packages -> 0 .. MaxTime \cup {Never}]
  /\ pc \in [Procs -> {"idle", "look", "ask", "fallback", "lock", "save", "answered"}]
  /\ job \in [Procs -> Job]

CacheInit ==
  /\ cache = NoContent /\ lock = None
  /\ time = 0 /\ back = 0 /\ calls = 0
  /\ given = [a \in Packages \X Answers |-> Never]
  /\ omitted = [pkg \in Packages |-> Never]
  /\ pc = [p \in Procs |-> "idle"]
  /\ job = [p \in Procs |-> NoJob]

Wall == time - back

\* Wrong variant: the age is not looked at.
Fresh_AnyAge(pkg) == cache[pkg].answer # "none"

\* FreshAdvisoryCache, which takes no lock.
Fresh(pkg) == cache[pkg].answer # "none" /\ Wall - cache[pkg].checkedAt <= TTL

EntryOf(p, pkg) == [answer |-> job[p].got[pkg], checkedAt |-> job[p].stamp]

Goto(p, where) == pc' = [pc EXCEPT ![p] = where]
-----------------------------------------------------------------------------
\* RefreshAdvisories: the guard asks about one version.
BeginRefresh(p) ==
  /\ pc[p] = "idle" /\ p \in Guards /\ calls < MaxCalls
  /\ calls' = calls + 1
  /\ \E pkg \in Packages : job' = [job EXCEPT ![p] = [NoJob EXCEPT !.ask = {pkg}]]
  /\ Goto(p, "ask")
  /\ UNCHANGED <<cache, lock, time, back, given, omitted>>

\* queryScanAdvisories, for the exact components of the inventory.
BeginQuery(p, components) ==
  /\ pc[p] = "idle"
  /\ job' = [job EXCEPT ![p] = [NoJob EXCEPT !.look = components]]
  /\ Goto(p, IF components = {} THEN "answered" ELSE "look")
  /\ UNCHANGED <<cache, lock, time, back, given, omitted, calls>>

\* One component after another: the file is read anew for each.
LookUp(p) ==
  /\ pc[p] = "look"
  /\ \E pkg \in job[p].look :
       LET look == job[p].look \ {pkg}
           ask  == IF Fresh(pkg) THEN job[p].ask ELSE job[p].ask \cup {pkg}
       IN /\ job' = [job EXCEPT ![p].look = look, ![p].ask = ask,
                       ![p].got[pkg] = IF Fresh(pkg) THEN cache[pkg].answer ELSE @]
          /\ Goto(p, IF look # {} THEN "look" ELSE IF ask # {} THEN "ask" ELSE "answered")
  /\ UNCHANGED <<cache, lock, time, back, given, omitted, calls>>

\* QueryOSVChecked and QueryOSVBatchChecked: the reply has the results of the
\* versions in `named`, which is the one version a guard asks about, and any of
\* those a scan asks about (a first part of them, in whatever order they were
\* found).  The time of the check is taken when the reply is there.
Ask(p) ==
  /\ pc[p] = "ask"
  /\ \E named \in SUBSET job[p].ask, answer \in [job[p].ask -> Answers] :
       /\ p \in Guards => named = job[p].ask
       /\ \A pkg \in job[p].ask \ named : answer[pkg] = "clean"
       /\ given' = [a \in Packages \X Answers |->
                      IF a[1] \in named /\ answer[a[1]] = a[2] THEN time ELSE given[a]]
       /\ omitted' = [pkg \in Packages |->
                        IF pkg \in job[p].ask \ named THEN time ELSE omitted[pkg]]
       /\ job' = [job EXCEPT ![p].ask = {}, ![p].put = job[p].ask, ![p].stamp = Wall,
                    ![p].got = [pkg \in Packages |-> IF pkg \in job[p].ask THEN answer[pkg]
                                                                           ELSE job[p].got[pkg]]]
  /\ Goto(p, "lock")
  /\ UNCHANGED <<cache, lock, time, back, calls>>

\* The request, its status or its body is an error: a guard turns to the cache,
\* a scan keeps the answers it has.
AskFails(p) ==
  /\ pc[p] = "ask"
  /\ job' = [job EXCEPT ![p].ask = {}, ![p].look = job[p].ask, ![p].failed = TRUE]
  /\ Goto(p, IF p \in Guards THEN "fallback" ELSE "answered")
  /\ UNCHANGED <<cache, lock, time, back, given, omitted, calls>>

\* The fresh entry of the version, or the finding advisory_refresh_failed.
Fallback(p) ==
  /\ pc[p] = "fallback"
  /\ \E pkg \in job[p].look :
       job' = [job EXCEPT ![p].look = {}, ![p].failed = ~Fresh(pkg),
                 ![p].got[pkg] = IF Fresh(pkg) THEN cache[pkg].answer ELSE @]
  /\ Goto(p, "answered")
  /\ UNCHANGED <<cache, lock, time, back, given, omitted, calls>>
-----------------------------------------------------------------------------
(***************************************************************************)
(* PutAdvisoryCache, once for every answer; its errors are ignored.        *)
(***************************************************************************)
\* Wrong variant: the lock does not exclude (Windows).
PutLoad_NoWait(p) ==
  /\ pc[p] = "lock"
  /\ lock' = p
  /\ job' = [job EXCEPT ![p].copy = cache]
  /\ Goto(p, "save")
  /\ UNCHANGED <<cache, time, back, given, omitted, calls>>

PutLoad(p) ==
  /\ pc[p] = "lock" /\ lock = None
  /\ lock' = p
  /\ job' = [job EXCEPT ![p].copy = cache]
  /\ Goto(p, "save")
  /\ UNCHANGED <<cache, time, back, given, omitted, calls>>

AfterPut(p, pkg) ==
  /\ job' = [job EXCEPT ![p].put = @ \ {pkg}, ![p].copy = NoContent]
  /\ Goto(p, IF job[p].put = {pkg} THEN "answered" ELSE "lock")
  /\ lock' = IF lock = p THEN None ELSE lock

PutSave(p) ==
  /\ pc[p] = "save"
  /\ \E pkg \in job[p].put :
       /\ cache' = [job[p].copy EXCEPT ![pkg] = EntryOf(p, pkg)]
       /\ AfterPut(p, pkg)
  /\ UNCHANGED <<time, back, given, omitted, calls>>

PutFails(p) ==
  /\ pc[p] \in {"lock", "save"}
  /\ \E pkg \in job[p].put : AfterPut(p, pkg)
  /\ UNCHANGED <<cache, time, back, given, omitted, calls>>
-----------------------------------------------------------------------------
Return(p) ==
  /\ pc[p] = "answered"
  /\ job' = [job EXCEPT ![p] = NoJob]
  /\ Goto(p, "idle")
  /\ UNCHANGED <<cache, lock, time, back, given, omitted, calls>>

\* The process dies, and the kernel gives its lock back.
Crash(p) ==
  /\ pc[p] # "idle"
  /\ lock' = IF lock = p THEN None ELSE lock
  /\ job' = [job EXCEPT ![p] = NoJob]
  /\ Goto(p, "idle")
  /\ UNCHANGED <<cache, time, back, given, omitted, calls>>

Tick ==
  /\ time < MaxTime /\ time' = time + 1
  /\ UNCHANGED <<cache, lock, back, given, omitted, calls, pc, job>>

SetClockBack ==
  /\ back < MaxBack /\ back' = back + 1
  /\ UNCHANGED <<cache, lock, time, given, omitted, calls, pc, job>>

QueryStep(p) ==
  LookUp(p) \/ Ask(p) \/ AskFails(p) \/ Fallback(p) \/ PutLoad(p) \/ PutSave(p) \/ PutFails(p)

CacheNext ==
  \/ \E p \in Guards : BeginRefresh(p) \/ Return(p)
  \/ \E p \in Scanners : (\E components \in SUBSET Packages : BeginQuery(p, components)) \/ Return(p)
  \/ \E p \in Procs : QueryStep(p) \/ Crash(p)
  \/ Tick \/ SetClockBack

CacheSpec == CacheInit /\ [][CacheNext]_cacheVars
-----------------------------------------------------------------------------
(***************************************************************************)
(* Properties.                                                             *)
(***************************************************************************)
\* No longer ago than TTL and what the clock was set back.
Recent(at) == at # Never /\ time - at <= TTL + back

\* OSV gave the answer in use recently, or it is the "clean" that the code takes
\* for a version when a recent reply left it out.
Backed(p, pkg) ==
  LET answer == job[p].got[pkg] IN
  Recent(given[<<pkg, answer>>]) \/ (answer = "clean" /\ Recent(omitted[pkg]))

\* Whoever asked, whatever is overwritten by a slower writer and however the
\* clock is moved, an answer a guard or a scan begins to use is a recent one: a
\* "flagged" OSV gave for that version, a "clean" that OSV gave or that a reply
\* without a result for the version was taken for (advisory.go:126-140).
UsedAnswersAreRecent ==
  [][\A p \in Procs, pkg \in Packages :
       job'[p].got[pkg] \notin {job[p].got[pkg], "none"} => Backed(p, pkg)']_cacheVars

\* Guards and scans that cache answers at the same time do not undo each
\* other: an entry changes only when the answer about its package is saved.
NoEntryLost ==
  [][\A pkg \in Packages : cache'[pkg] # cache[pkg] =>
       \E p \in Procs : /\ pc[p] = "save" /\ pkg \in job[p].put
                        /\ cache'[pkg] = EntryOf(p, pkg)]_cacheVars
=============================================================================
