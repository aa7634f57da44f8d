# Verification of local-sec

local-sec (`lsec`) is a command-line gate in front of package managers. A
command is classified, what it would install is resolved, staged and audited,
a policy turns the signals into *allow*, *prompt* or *block*, and the command
runs or does not. Everything `lsec` remembers (approvals, the log of runs, the
cache of advisories, the cache of LLM reviews) lies in files below
`~/.local-sec`, and any number of `lsec` processes use them at the same time:
there is no daemon. All code is in `src/internal/lsec` (one Go package).

This directory holds TLA+ specifications translated from that code, TLC
configurations that check them on small instances, and proofs that TLAPS checks
for every value of the constants. `PROJECT.json` maps every definition to the
lines it models, and lists the runs, the mutants (a plausible bug per
property, which makes the property fail), the hazards and the theorems.

```
tlc -workers 2 -config Inbox.cfg MCInbox     # a run
tlapm InboxProofs.tla                        # the proofs of a module
```

## 1. The system

| Component | State | Operations | Modelled by |
|---|---|---|---|
| Approval store (`storage_approvals.go`, `storage_files.go`, `filelock_*.go`) | `approvals.json`, its lock file, temporary files, SQLite table `approvals` | AddApproval, RevokeApproval, LoadApprovals | ApprovalSpec, ApprovalStore, ApprovalStoreProofs |
| Event log (`event_log.go`, `storage_events.go`) | `events.jsonl`, flock on it | append, forEach | AtomicLog, EventLog, EventLogProofs |
| Policy (`policy.go`, `types.go`) | none | Evaluate, ApplyLLMReview | Policy; theorems in PreflightProofs |
| Version resolution (`resolver.go`) | one run's candidates and answers | ResolveVersion, FollowAdvisoryCleanCandidate | Resolver, ResolverProofs |
| Preflight pipeline (`preflight*.go`, `dependencies.go`) | one run's report | the twelve stages of `preflight` | Preflight, PreflightProofs |
| Guard and CLI (`cli.go`, `preflight_rewrite.go`) | the command to execute | runGuard, the prompt, the execution | Preflight (printing commands left out) |
| Classification (`classify.go`) | none | Classify | Preflight: the forms of command and their flags; not argument parsing |
| Staging (`artifacts.go`, `npm_staging.go`, `private_temp.go`) | a private directory | StageArtifacts, collectArtifacts | Preflight: outcomes; not the extraction budgets |
| Project installs (`requirements.go`, `npm_lockfile.go`) | none | the two parsers | Preflight: what they hand on |
| Local history (`local_history.go`, `local_reputation.go`) | read from the log | CheckLocalReputation | LocalHistory, LocalHistoryProofs; Preflight: seen packages |
| Advisories (`advisory.go`, `external_advisory.go`) | `advisory-cache.json` | RefreshAdvisories, PutAdvisoryCache | AdvisoryCache, ScanProofs: the cache; Resolver and Preflight: the answers |
| Inbox and LLM review (`inbox*.go`, `llm_*.go`) | markers and reviews in the log, a file per cached review | approve-once, deny, view-later, review-llm, the list | Inbox, InboxProofs |
| Notifications (`notify.go`) | planned and sent events, output files | plan, list, mark-sent, send-discord | Outbox, Notify, NotifyProofs |
| Scan and its providers (`scan*.go`) | bundle directories, scan events, the advisory cache, copies of the files given to tools | scan | Scan, ScanProofs |
| Status (`storage_status.go`, `scan_status.go`) | a snapshot of approvals and log | views only | not modelled: they change nothing |
| Sandbox contract (`sandbox*.go`) | a result attached to a report | ApplySandboxResult | Preflight: the optional fixture |
| Remote sandbox (`remote_*.go`) | request and response files | submit, apply | not modelled (section 6) |
| Static scanner, evidence redaction, macOS fixtures, doctor, shims | none | text and pattern processing | not modelled: pure data, tested by examples |

**Interactions.** Components call each other directly inside one process.
Processes interact only through files: the guard reads the approvals that
`approvals` and `inbox approve-once` write; every run appends its report to the
log, from which the next run learns whether a package is new, and the inbox
what may be approved, and `notify` what was planned and sent; reviews are read from
the cache and the log; guards and scans share the advisory cache.

**What is hard.** (1) Several processes update `approvals.json` and the log,
and any of them may fail or die between two steps. (2) The log is append-only
text: a write that is cut spoils what follows it. (3) The pipeline has a dozen
stages, each skipped under its own condition on what earlier stages found, and
its verdict is changed again after it was reached (approvals, the docker
fixture, reviews). (4) The search for a version makes a network call per
candidate, any of which may fail, while the clock moves. (5) Inbox commands read the
log, call a model that may take minutes, and write afterwards, without a lock
over the whole; so does `notify send-discord` around its request. (6) A scan gives
files to external tools while anybody may replace them, and its advisories come
from a cache that other processes write and whose ages a moving clock measures. (7) A
run compares its packages with what earlier runs recorded, and records its own
afterwards, when other runs have compared theirs.

**What makes each component correct.**

- Store: no approval is lost or resurrected; a call is atomic; the file can always be read; every call returns.
- Log: an acknowledged event stays readable; a cut write costs at most one other event; a read is a snapshot.
- Policy: the verdict is the worst signal; more signals never soften it; nor does a review.
- Resolver: what runs silently is mature, clean and was asked about; the newest such version wins.
- Preflight: nothing blocked runs; nothing unaudited or unseen runs silently; approvals are the only relaxation; what ran was recorded.
- Local history: what is trusted because it was first is trusted once.
- Inbox: an approval comes from its own, unblocked run; a standing block refuses; a review is the model's own, and is not lost or changed by failures; the list shows the newest runs that await a decision, as many as it was asked for.
- Notifications: at-least-once delivery; only a failure leaves a delivered one on the list, or brings it back; a call ends although the webhook never answers.
- Advisory cache: what is served is as recent as promised; writers do not undo each other.
- Scan: what is recorded as complete is, as far as its network mode and the replies went; a tool gets copies of regular files that were at the path; every file is given to its tool or counted as skipped.

## 2. The modules

`X.tla` is the specification of a component, `MCX.tla` gives its constants
definitions for TLC, `X*.cfg` are the runs, `XProofs.tla` the theorems. In every
module a definition `D_suffix` before `D` is a *wrong* variant of `D`: a bug
the properties notice when `D` is replaced by it.

```
ApprovalStore  implements  ApprovalSpec        (INSTANCE, with the list of the file as the set)
EventLog       implements  AtomicLog           (INSTANCE, with what can be read as the log)
Notify         implements  Outbox              (INSTANCE, with what the log says as the list)
Scan           extends     AdvisoryCache       (scans and guards share the cache)
Resolver, Preflight, Inbox  extend  Policy     (the verdict rules)
LocalHistory                                   (on its own)
```

Preflight and Inbox use the log and the approvals as their readers see them: an
append, a read and a change of the approvals are one step each. That is what
ApprovalStore and EventLog establish: the store implements the atomic set, on a system
with flock, and the log the atomic one, whose `Glue` never occurs while no append has
failed or died half way.
Resolver details the stages `resolve` and `follow` of Preflight, which keeps only
what they report; LocalHistory details `reputation`, of which Preflight keeps whether a
package was seen and one prompt for everything else.

**ApprovalSpec** is the promise: each call changes one set of approvals in a
single step between its start and its end, or has no effect.
**ApprovalStore** is the protocol: `Acquire` (flock on `approvals.json.lock`),
`Load`, `CreateTemp`, `WriteTemp`, `Rename`, `Release`, then `MirrorDelete` and
`MirrorInsert` outside the lock; `SaveFails` and `LockFails` for errors, `Crash`
for a process that dies (the kernel gives the lock back). The abstract set is the
list in the file; a call takes effect at `Rename`. `LockIsExclusive = FALSE` is the
Windows build, whose lock does nothing. The list is a set: only the order of
printing depends on positions.

**AtomicLog** is the promise of the log: an append puts its event behind all others in
one step (`Put`), a read is the log of one step (`Take`), and the only other thing that
can happen is `Glue`: after an append that failed, the next one may continue its bytes,
is lost itself, and takes with it at most the last event, and that only if it was not
acknowledged.
**EventLog** has lines instead of bytes: `Write` puts a further *part* of a record into the
file (a prefix, the whole text without newline, the whole line), so a cut by
`WriteFails` or `Crash` leaves each kind of tail, and the next append continues the
last line if it is `open`. A line is readable when it is the text of one event.

**Policy** has `Evaluate` with the order and the early returns of the code, over
sets of kinds of signals, and `ApplyLLMReview`.

**Resolver** is one run's search: `BeginFollow`, `CheckMature`, `MaturePassFails`,
`CheckFresh`, `FreshPassFails`, one advisory question per step, each answer chosen
when asked; `Tick` lets half days pass between any two steps, so ages that are not
whole days and a cutoff older than the choice both occur.

**Preflight** makes one action of each stage (`Parsed`, `Resolved`, ... `Decided`,
allowlist, fixture, `Record`, guard, `Execute`). A stage is an operator from a report
to the set of reports it may become, with the guard of the code; what a registry,
an archive or an advisory source says is chosen there. Several runs share the log. `Installable`
is the rewrite of the command (`preflight_rewrite.go`), as the packages that can come of it: the staged set, the one
staged file, or anything. A pip command whose version was not found is executed as it was typed (`Unrewritten`).

**LocalHistory** lets a run bring its report (`Audit`), look up its packages one after another,
each in the log of that moment (`LookUp`, `LookUpFails`), and put the report on record (`Record`,
`RecordFails`). A history is not stored: it is an operator over the reports on record, as in the
code (`VersionsSeen`, `HashesSeen`, `OwnersSeen`). `looked` keeps which reports these were. Maintainers are
recorded as the log's redaction leaves them (`Redacted`, of which only idempotence is assumed) and compared as
the registry writes them.

**Inbox** has the steps of `review-llm` (`BeginReview`, `CacheHit` or `CacheMiss`,
`Answer`, `StoreReview`, `AppendReview`) and of `approve-once` (`BeginApprove`,
`CheckReviews`, `AddNext` per artifact); `Mark` is deny and view-later; `AddByHand` and
`Revoke` are what other commands do to the approvals; `Fail` ends a call at any
step by an error, a timeout or the death of its process. `job` holds what a
process has read and goes on using. `Listed(r, limit)` is the list of `lsec inbox <limit>`: a run that awaits a
decision (`Pending`) and that fewer than `limit` newer such runs come before.

**Outbox** is the promise of `lsec notify`: a notification is handed out, then pending,
and settled by a delivery, by the user's word or by the answer to a redirected request; it may be delivered again at any
time. A move may be one that can still be lost: `state` is what a reader sees, `sure` what it will see at
least, and `FallBack` is the loss. **Notify** is the code: `BeginPlan`, `WritePlan` (the payload, before the event),
`AppendPlanned`; `BeginSend`, `Arrive` (at the channel), `Answer`, `Redirected` or `Timeout`, `AppendSent`;
`BeginMark`; `CutAppend`, `Record` (also cut) and `Fail` for what goes wrong. An identifier is the pair of a run and
the digest of its evidence, so a run that is recorded again has a new one. The log ends as in EventLog: in a whole
line, in a part nobody can read (`torn`), or in an event without its newline (`loose`), which is read until the next
write is glued to it. The abstract state of a notification is what the readable events say of it, and what is sure is
what the events in lines of their own say.

**AdvisoryCache** has the guards, which ask OSV and turn to the cache when it cannot be
asked (`BeginRefresh`, `Ask`, `AskFails`, `Fallback`), the scans, which look into the cache and ask about
the rest (`BeginQuery`, `LookUp`, `Ask`; a reply may leave versions out, which the code takes and caches as clean, and
`omitted` remembers), and `PutAdvisoryCache` with its lock (`PutLoad`, `PutSave`, `PutFails`).
Reading takes no lock. `Tick` lets time pass and `SetClockBack` moves the wall clock, at any step.

**Scan** composes it with the rest of a scan: `StartScan` (the inventory; `StartOffline` with network mode off, which
takes the same inventory and asks nobody), the query, the six
tools in their order, `WriteFiles`, `RecordScan`. What happens to a tool's inputs is kept step by
step, because files may be replaced between any two of them (`Change`): `Collect`, `RevalidateAll` or
`RevalidateOne`, and the three looks of `copyProviderInputFile` (`Look`, `Open`, `Confirm`). A path holds an
object with an identity, so a file that was replaced by another regular file is told
apart. What a tool prints is whether it parses and has findings (`Outcome`, `Accepts`).

## 3. The runs

Every run finishes within three minutes on two workers. The largest, LocalHistory, Scan, Preflight and Notify,
have about 2.5, 2.0, 1.4 and 0.9 million distinct states.

| Run | What it shows | Bounds |
|---|---|---|
| ApprovalStore.cfg | `TypeOK`, `ExactRecordsUnique`, `NoLostApproval`, `MirrorFollowsFile`, `ImplementsAtomicStore` (the refinement) and, under fairness, `EveryCallReturns` | 2 processes, 3 calls, one package with 2 hashes |
| EventLog.cfg | `TypeOK`, `AckedReadable`, `OneLossPerCut`, `ReadableStays`, `ImplementsAtomicLog` (the refinement) | 2 processes, 4 appends, 1 read |
| Resolver.cfg | `TypeOK`, `AllowedIsMatureAndClean`, `SelectedWasChecked`, `NewestSafeVersionWins` | 3 versions, ages around both ends of the window, 2 half days of clock |
| Preflight.cfg | `TypeOK`, `BlockNeverExecuted`, `AllowlistCoversInstall`, `SilentRunIsAudited`, `SilentRunWasSeen`, `ExecutedWasRecorded`, `OnlyApprovalsRelax` | 1 run after any earlier one, every form, 2 packages |
| LocalHistory.cfg | `TypeOK`, `TrustedOnFirstUseOnce` | 3 concurrent runs after an earlier one, 2 packages, 2 versions, 2 hashes, 3 maintainers of which the log redacts one into another |
| Inbox.cfg | `TypeOK`, `ApprovalsHaveTheirRun`, `StandingBlockRefuses`, `ReviewsAgreeUnlessRaced` | 2 processes, 1 run of four kinds, 2 artifacts, 1 model, 3 events |
| InboxRuns.cfg | `ReviewsAreAnswers`, `ListFollowsDecisions` | 1 process, 2 runs of two kinds, 1 artifact, 1 model, 3 events, lists of 1 and of 2 lines |
| Notify.cfg | `TypeOK`, `RecordedUnlessFailed`, `ImplementsOutbox` (the refinement) and, under fairness, `EveryCallEnds` | 2 processes, 1 run with 2 digests, 4 events in lines of their own, 2 requests taken or redirected or marks |
| Scan.cfg | `TypeOK`, `UsedAnswersAreRecent`, `NoEntryLost`, `RecordedScanIsBacked`, `SkipsAddUp`, `HandedFilesWereThere` | 1 scan and 1 guard run, 2 versions, time and clock move by 1 with a TTL of 0; 4 files, 2 replacements, one tool of each way to be given files |

**Why the bounds are enough.** A lost update needs two calls, and the third makes
it visible that a record was replaced or that a revoke lies between two adds; two
hashes tell "this record" from "all of the package". One cut write needs two
appends to be glued and a third to be unharmed; the fourth is cut again. A search
needs one version per reason to pass it over and one to select: with three, every
pass is entered after another has failed. A pipeline never relates more than the
named package and one dependency; what several runs do to each other is in LocalHistory.cfg, and the
theorems about Preflight hold for any number of them. A hash is trusted first by one run, or by two that
race, and a third run comes after; the earlier one makes the package known. A review needs the report, an event and one more
to change what is latest. Two runs and a list of one line are what it takes for one run to push another off the
list, and the third event, or an approval, settles the newer one. A notification needs
a report, a plan and a sent event; the fourth lets a second report change the
digest, or a second call repeat the first, and cut or lost events count for nothing, so there may be any number of
them. The second request lets a notification be posted twice, or redirected once and posted once. An entry of the cache is fresh at age 0 and stale at
age 1 when the TTL is 0, and one step back of the clock makes it fresh again; only the
comparison of the two matters. A file is looked at three times, so two replacements
lie in every way between the looks, the second of which can undo the first. In
Scan.cfg either the files change, with nothing in the cache, or the guard and the clock move (`FilesMayChange`, `OthersMayMove`),
not both in one behaviour: the queries read no file of a tool and the tools neither read
the cache nor the clock. The proofs do not depend on these bounds where there are
theorems (section 4).

**Deadlock** is checked, except where calls or events are bounded and the processes
may all have stopped (`CHECK_DEADLOCK FALSE` in the runs of the store, the log,
notifications and scans). Resolver and Preflight have an explicit `Finished` step. The processes of the
inbox can always fail, and approvals can always be added.

**Fairness.** The runs of the store and of the notifications assume some, each in its `FairSpec`.
For the store it is weak fairness of every step of a
process that has not failed, which is that the operating system keeps running it and
that its file operations end. The lock needs no fairness of its own because the
number of calls is bounded; with unboundedly many other calls `flock` itself promises
no order, and a waiting call could in principle be overtaken for ever. For
notifications it is weak fairness of the steps a process takes by itself (`Step`) once its call has
begun: it is scheduled, and the timer of its HTTP client runs out. Nothing is assumed of
the network, the webhook or the user, so `EveryCallEnds` rests on the timeout. Errors and
deaths are never assumed to happen or not to happen.

**Symmetry.** Processes, hashes, runs, models and packages are permuted only in runs
without liveness.

### Where the code and its documentation differ

Three runs each violate one property that states what a document says. The details
and the quoted lines are under "findings" in `PROJECT.json`.

| Run | Property | What happens |
|---|---|---|
| ResolverRefresh.cfg | `RefreshFailureBlocks` | a failed refresh of the mature version is dropped when the search moves to the too-new versions |
| PreflightUnlisted.cfg | `EveryStagedFileApproved` | a wheel that could not be read is no artifact, and approvals of the others allow the install |
| ScanRoots.cfg | `RootsAreQueried` | the roots for syft and cargo-vet are revalidated as regular files, so they are all rejected and the tools are never run |

What the models also contain, without a run that singles it out:

- a report counts as history whether its run was allowed, blocked or refused, and also when it only names a package: a project install of a lockfile, which stages nothing, makes its packages seen (`PackageSeen`; docs/technical-overview.md:189 speaks of "previous staged package history");
- a new maintainer does not prompt while the history has no maintainers of the package, for instance after it was only a dependency (`OwnerDrift`; docs/technical-overview.md:190 lists all maintainers not seen for a package);
- a report that names several packages lends the maintainers of the first to all of them (`OwnersRecorded`): `pipx install A B` is blocked only after those of A were fetched, and `python -m pip download A B`, which is not blocked as a batch (classify.go:632), may even have no finding;
- a maintainer whose text the log redacts differs from its own record, so every later run of that package prompts (`Redacted`);
- two racing adds of one record leave two rows in the SQLite mirror (it is written outside the lock, and nobody reads it);
- a publish time a day or more ahead of the local clock is a negative age, which is not inside the maturity window: the theorem `SilentRunsAreAudited` excludes it by an assumption;
- the docker fixture judges an allowlisted run again and returns it to a prompt (`FixtureAttached`);
- `pip-audit` is accepted with any exit status when its output parses and has findings (`Accepts`);
- a pip command whose version the registry did not have is executed as it was typed (`Unrewritten`; preflight_rewrite.go:22-24), without `--no-index` and the staged directory, although its wheels were staged, audited and approved: docs/technical-overview.md:203 says that PyPI installs "install only from the staged wheelhouse". `AllowlistCoversInstall` leaves this command out;
- a reply of OSV with fewer results than queries is no error (advisory.go:126-140): the versions it leaves out count as clean, are cached as clean for later guards and scans, and the scan is complete. `UsedAnswersAreRecent` and `RecordedScanIsBacked` say what holds of such a clean;
- a scan with network mode off is recorded as complete with its inventory and no answer about any of it (scan.go:112-153);
- a webhook that redirects a request so that it is followed as a GET, and answers that with a status below 300, settles the notification without a delivery (`Redirected`; notify.go:22-38);
- an event cut just before its newline is read until the next write is glued to it (`loose`): a notification may be pending, or settled, for a while and then no longer be.

Limits that hold by design and are stated, not refuted: a review recorded between the
check and the additions of an `approve-once` does not stop it (`StandingBlockRefuses`
says what holds instead); a later review of *another* model lifts the block of an earlier
one; a notification that was delivered and not recorded is posted again by whoever sends what is
listed; an answer is recent by the wall clock, so setting that back keeps it fresh for as long
(`UsedAnswersAreRecent` has the term). A list of limited length shows the newest runs only: an older one
comes back when a newer one is settled (`ListFollowsDecisions`).

## 4. What is proved

TLAPS checks every theorem for any number of processes, packages, runs, events and
versions. The named assumptions on constants are `ApprovalStoreAssumption`,
`EventLogAssumption`, `ConstantsAssumption` (one each in Resolver, Preflight and LocalHistory),
`InboxAssumption`, `NotifyAssumption`, `AdvisoryCacheAssumption` and `ScanAssumption`; they only say
that the special values differ from the others, that bounds are numbers and that the
choices are of the right kind. TLC evaluates each in a run.

**ApprovalStoreProofs.** `TypeCorrect`; `NoStaleSave` (`LoadedIsCurrent`);
`FileAlwaysReadable` (`FileNeverTorn`, `ExactRecordsUnique`); `NothingLostNothingResurrected`;
`AtomicStore` (the refinement); `MirrorIsCurrent` (`MirrorFollowsFile`). The invariant has two parts. `LockInv`: whoever is inside
the critical section is the one holder, hence what it loaded is still the file. It needs
`LockIsExclusive`, which is an explicit assumption of the theorems that use it. `FileInv`:
what is about to be renamed is a complete list computed from what was loaded, and
uniqueness carries over from there. It needs no lock, so `FileAlwaysReadable` also covers
the Windows build, for which there is no run. With both, `Rename` is the abstract effect and every other step a stutter or a
change of a call's stage. `LoadedIsCurrent` alone is not inductive: nothing in it keeps
a second process out. `MirrorInv` is a third invariant, for the SQLite mirror: while nothing has overlapped or failed
there is one call at a time, and the mirror is behind the file by exactly what that call still has
to do to it. One call at a time needs no lock, so `MirrorIsCurrent` also covers the Windows build.

**EventLogProofs.** `TypeCorrect`; `AckedEventsSurvive` (`AckedReadable`); `CutsCostOne`
(`OneLossPerCut`); `ReadableEventsStay`; `ReadsAreSnapshots`; `AtomicAppends` (the refinement). Acknowledgement is far away from the write that decides about it, so the
invariant follows an event all the way: event numbers belong to one process (`NumberInv`),
an unfinished last line holds only cut events and the current writer's (`TailInv`), no line has
two uncut events (`LineInv`), and an event that was written whole has landed in a line
that is readable or has a cut event (`AckInv`). A reader has the events of exactly the lines it has
passed (`ReadInv`), and these do not change under it, because it holds the flock (`ReadersAlone`).
For the refinement `WriteIsSeen` says what one write looks like to readers: the event becomes the last one,
or nothing changes, or, behind bytes that nobody goes on with, what they held is lost. That no other line is
involved needs `PlaceInv`: an event is in one line only. `StepIsAtomic` then goes through the actions; a step
changes the call of its own process alone (`OthersKeepTheirCall`).

**ResolverProofs.** `TypeCorrect`; `AlwaysChecked`; `AnswersAreKept`;
`AllowedVersionIsMatureAndClean`; `NewestSafeIsChosen` (`NewestSafeVersionWins`); `FailedRefreshesAreNoticed`.
The first invariants say that a pass never looks back at a
version already asked about (`MaturePassAhead`) and that the age recorded at the choice is
the age then (`AgeIsPast`). `SearchInv` says what each pass leaves behind: the mature pass has passed
over refused versions only, and what it had not come to when it ended lies behind a check that failed. That
the fallback, too, keeps the newest old version rests on `NewestMatureExists` and `OlderIsMature`: any
set of versions has a newest one, and versions only get older. `FailedRefreshesAreNoticed` is what holds
instead of `RefreshFailureBlocks` (section 3): while no half day passes, a run with a failed check is at
least prompted for, unless its version was removed from the registry (the pinned one, or the registry's latest when
no version is old enough). Its invariant is `QuietInv`. The theorems about what is allowed assume
`ClockNearlyRight` (the local clock is at most a day behind the registry's); a larger lag makes ages negative.

**InboxProofs.** `TypeCorrect`; `ReviewsAreGiven`; `ApprovalsComeFromTheirRun`; `StandingBlock`;
`ReviewsAgree`; `ListIsFaithful` (`ListFollowsDecisions`). Everything a process has read is used later, so the invariant says what
is still true of it: its run is recorded and unblocked, its artifacts are the run's (`JobInv`), its
answer was given (`AnswerInv`), the log has not become shorter (`BeforeInv`). These stay
true because the log only grows (`LogKeeps`, `PrefixStays`). `ReviewsAgree` adds
`AgreeInv`: while one process alone asks for a review, the cache has none, and when it
goes on to record it, the cache has that one. This is the reason for storing before
recording. `ListIsFaithful` needs only the types: `PendingFollows` says that a run awaits a decision from when it is
raised until it is settled, `NewerFollows` that one run gets ahead of another only by its own report; so the runs ahead
of a run, of which the limit counts those that await a decision, change in number only when one of them is raised or
settled.

**PreflightProofs.** First about Policy: `EvaluateIsWorst` (the early returns hide no signal),
`EvaluateMonotone` (judging again with more signals never softens), `ReviewOnlyEscalates`. Then
`TypeCorrect`; `BlockedNeverRuns`; `ExecutedIsRecorded`; `SilentRunsWereSeen`;
`ApprovalsCoverInstalls`; `SilentRunsAreAudited`; `OnlyApprovalsRelaxVerdicts`. Each property looks back
from the executed command over the dozen stages, so the invariant says, stage by stage,
what has been established: which files there are (`FilesOK`), what was asked about (`AskedOK`), that the
verdict is that of the signals unless approvals gave it (`VerdictOK`), and what the log held
when the reputation was looked up (`LogOK`). Most of it holds *or the report is* `Loud`: a guard is
skipped only because of a signal, nothing removes a signal (`LoudStays`), and a loud report is not
executed silently (`EvaluateIsWorst`). One lemma per stage shows what its operator does to each
part; `StageKeeps` turns them into steps. That the fixture cannot soften a verdict is
`EvaluateMonotone`. `ApprovalsCoverInstalls` rests on `PromotionInv`: a decided npm command whose
tarballs were identified can be promoted to them, or is blocked, so it is not executed as it was typed. `SilentRunsAreAudited` assumes
that ages are not negative.

**LocalHistoryProofs.** `TypeCorrect`; `TrustIsGivenOnce` (`TrustedOnFirstUseOnce`). The property is inductive once
`RunInv` says what a run without a finding knows: it compared every package with reports that are still
on record, and nothing differed (`Unsuspicious`). When such a run goes on record with another hash than a silent
run before it, either it looked before that one was recorded, and they raced; or its own hash was
on record when it looked (`OnRecord`): by a run that had a finding, or lent by another package, or by
a silent run that brought it itself, about which the property is already known.

**NotifyProofs.** `TypeCorrect`; `DeliveriesAreRecorded` (`RecordedUnlessFailed`); `Refinement`
(`ImplementsOutbox`). `NotifyInv` adds to the types what a call may rely on between its steps, which is not in the
log, because an event that was read may be lost: a payload that is to be planned was written, a notification that is
posted or marked was found planned by somebody (`planned`), and one that is to be recorded as sent was delivered,
redirected or marked. What readers find planned or sent is among `planned`, and that among what was handed out
(`LogInv`). `WriteMoves` is the heart of the refinement: a write, cut or not, to a log that ends in a line moves the
notification of its event, for good or not; on any other log it takes back the move that was not for good, and does
nothing else.

**ScanProofs.** For the cache: `AnswersAreRecent` and `EntriesAreKept`, from `CacheInv`: who is in the
critical section holds the lock and has loaded what is still there, and every entry, and every
answer on its way to one, was given by OSV at the time its stamp says, as the clock was then, or is the clean that a reply
at that time left open. For the scan:
`TypeCorrect`, `ScansAreBacked`, `SkipsAreCounted`, `HandedFilesAreRegular`, from `ScanInv`: what the counters
add up to, what was seen at each look, and that a scan without a diagnostic was answered. Every step of a scan is a step of the cache or leaves it
alone (`ScanStepIsCacheStep`), which carries the first into the second. `RootsAreNeverQueried` shows that the
finding of ScanRoots.cfg is no matter of its bounds: whatever roots there are and whatever is installed, syft
and cargo-vet are not run while no file is replaced, since they get no further than the second look at
directories (`RootInv`).

## 5. Only model-checked

`EveryCallReturns` and `EveryCallEnds`: liveness under fairness is out of the prover's reach. Every other property
of a passing run is the statement of a theorem.

## 6. Not modelled

- Text: argument parsing, the grammars of lockfiles and requirements, the patterns of the static scanner, redaction, SBOM and report formats. The tests cover them by examples.
- Running docker, Ollama, advisory tools and package managers: their answers are chosen.
- Loss of power: nothing is synced, so what survives is up to the file system. Processes die in the models, the machine does not.
- The SQLite tables other than `approvals`: written best-effort after the file, read by nobody.
- The limit of `lsec notify list`, whose lines do not depend on each other; that of `lsec inbox` is modelled.
- Times in events: every modelled reader takes the order of the lines, though the time of an event is taken before the log is locked.
- Changes of `package-lock.json` or a requirements file by the user during a run. Packages named next to `-r` are replaced by those of the file, in the model as in the code.
- The budgets of an extraction and the limits on a tool's inputs and output: arithmetic inside one call. Going beyond one is a way to fail.
- The remote sandbox: a request and a response file, each written once and checked against the other; nothing is shared or repeated.
- In a history, the counts and times (`FirstSeen`, `LastSeen`, `InstallCount`): nothing is decided on them. Reports that a cut write took out of the log (EventLog bounds those).
- `python -m pip` with another subcommand than `install`: the pipeline treats it like an install of the first package named, and Preflight has the install forms only. In LocalHistory it is a report with several packages and maintainers.
- Status, history, packages and show: views of one snapshot of the log and the approvals.

## 7. Plan

In this order, the most important first:

1. **ArchiveBudget**: the shared budgets of an extraction as a function of the entries.
2. **RemoteSandbox**: request and response files, as a refinement of the step `AttachFixture`.
