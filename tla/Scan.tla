-------------------------------- MODULE Scan --------------------------------
(***************************************************************************)
(* `lsec scan` (scan*.go): the inventory of the given roots, the advisories*)
(* about its exact components through the shared cache (AdvisoryCache), the*)
(* external tools one after another, then the bundle, the event and the    *)
(* output, while guard runs use the cache and the scanned files change.    *)
(*                                                                         *)
(* A process in Scanners makes one scan.  What files contain is chosen; a  *)
(* file is the object its path leads to.  A tool that hangs is killed at   *)
(* its timeout, and output beyond the limit is cut, which both are ways to *)
(* fail.  Appending the event is one step, as EventLog shows.              *)
(***************************************************************************)
EXTENDS AdvisoryCache, Sequences

CONSTANTS
  Files,        \* paths under the roots that a tool may be given
  Candidates,   \* the files (for syft and cargo-vet: the roots) each tool looks at
  Installed,    \* the tools that are installed
  MaxChanges    \* bound on the changes of files

AllTools == <<"osv-scanner", "pip-audit", "grype", "syft", "cargo-vet", "bumblebee">>
ToolSet == {AllTools[i] : i \in DOMAIN AllTools}

ASSUME ScanAssumption ==
  /\ Candidates \in [ToolSet -> SUBSET Files] /\ IsFiniteSet(Files)
  /\ Installed \subseteq ToolSet
  /\ MaxChanges \in Nat

\* osv-scanner is run once on all of its files, pip-audit and grype on one at a
\* time; syft and cargo-vet get a root itself; bumblebee is only probed.
CopiesAll == {"osv-scanner"}
CopiesOne == {"pip-audit", "grype"}
GetsRoot  == {"syft", "cargo-vet"}
Probed    == {"bumblebee"}

\* What Lstat tells apart: a regular file with one link, a symbolic link, and a
\* directory.  Where nothing is, a file is refused as a directory is.
Kinds    == {"plain", "link", "folder"}
Object   == [kind : Kinds, made : 0 .. MaxChanges]
\* What a link leads to: a regular file somewhere else.
Foreign  == [kind |-> "plain", made |-> -1]
NoObject == [kind |-> "none", made |-> -1]

VARIABLES
  file,         \* the object at each path
  changes,      \* changes made to files
  stage,        \* where each scan is
  components,   \* exact components of its inventory
  online,       \* whether its network mode is "advisories" (else "off")
  partial,      \* whether it has diagnostics
  tool,         \* the work on the tool whose turn it is
  failed,       \* history: whether OSV or a tool could not be asked
  written,      \* how much of its bundle is written
  events        \* the scan events in the log

scanVars == <<file, changes, stage, components, online, partial, tool, failed, written, events>>
vars == <<cacheVars, scanVars>>

Tool == [turn : 1 .. Len(AllTools) + 1,
         at : {"collect", "revalidate", "copy", "open", "confirm", "run"},
         accepted : SUBSET Files, todo : SUBSET Files, skips : Nat, queried : Nat,
         cur : Files \cup {None}, before : Object \cup {NoObject},
         opened : Object \cup {NoObject, Foreign}, copied : SUBSET (Object \cup {Foreign})]
ToolAt(turn) == [turn |-> turn, at |-> "collect", accepted |-> {}, todo |-> {}, skips |-> 0,
                 queried |-> 0, cur |-> None, before |-> NoObject, opened |-> NoObject,
                 copied |-> {}]

ScanEvent == [scan : Scanners, online : BOOLEAN, status : {"complete", "partial"},
              unanswered : SUBSET Packages, failed : BOOLEAN]

TypeOK ==
  /\ CacheTypeOK
  /\ file \in [Files -> Object] /\ changes \in 0 .. MaxChanges
  /\ stage \in [Scanners -> {"off", "advisories", "tools", "bundle", "event", "done"}]
  /\ components \in [Scanners -> SUBSET Packages]
  /\ online \in [Scanners -> BOOLEAN]
  /\ partial \in [Scanners -> BOOLEAN]
  /\ tool \in [Scanners -> Tool]
  /\ failed \in [Scanners -> BOOLEAN]
  /\ written \in [Scanners -> {"nothing", "some", "all"}]
  /\ events \subseteq ScanEvent

\* A root that syft or cargo-vet look at is a directory.
InitialKind(f) ==
  IF \E t \in GetsRoot : f \in Candidates[t] THEN "folder" ELSE "plain"

Init ==
  /\ CacheInit
  /\ file = [f \in Files |-> [kind |-> InitialKind(f), made |-> 0]] /\ changes = 0
  /\ stage = [s \in Scanners |-> "off"]
  /\ components = [s \in Scanners |-> {}]
  /\ online = [s \in Scanners |-> FALSE]
  /\ partial = [s \in Scanners |-> FALSE]
  /\ tool = [s \in Scanners |-> ToolAt(1)]
  /\ failed = [s \in Scanners |-> FALSE]
  /\ written = [s \in Scanners |-> "nothing"]
  /\ events = {}

\* A bound: files change, or guards run, the clock moves and answers are cached.
\* The queries read no file of a tool, and the tools neither cache nor clock.
FilesMayChange == calls + time + back = 0 /\ cache = NoContent
OthersMayMove  == changes = 0

\* The user, or another program, replaces what is at a path while tools are run.
Change(f) ==
  /\ FilesMayChange /\ \E s \in Scanners : stage[s] = "tools"
  /\ changes < MaxChanges /\ changes' = changes + 1
  /\ \E kind \in Kinds : file' = [file EXCEPT ![f] = [kind |-> kind, made |-> changes + 1]]
  /\ UNCHANGED <<cacheVars, stage, components, online, partial, tool, failed, written, events>>
-----------------------------------------------------------------------------
(***************************************************************************)
(* Inventory and advisories.                                               *)
(***************************************************************************)
\* runScan up to the network mode: whatever the roots hold, and whether or not a
\* root, a file or a catalog could not be read.
TakeInventory(s, found, network) ==
  /\ stage[s] = "off"
  /\ components' = [components EXCEPT ![s] = found]
  /\ online' = [online EXCEPT ![s] = network]
  /\ \E unreadable \in BOOLEAN : partial' = [partial EXCEPT ![s] = unreadable]
  /\ UNCHANGED <<file, changes, tool, failed, written, events>>

\* --network advisories, up to queryScanAdvisories.
StartScan(s) ==
  /\ \E found \in SUBSET Packages : TakeInventory(s, found, TRUE) /\ BeginQuery(s, found)
  /\ stage' = [stage EXCEPT ![s] = "advisories"]

\* --network off: the same inventory, and neither advisories nor tools.
StartOffline(s) ==
  /\ \E found \in SUBSET Packages : TakeInventory(s, found, FALSE)
  /\ stage' = [stage EXCEPT ![s] = "bundle"]
  /\ UNCHANGED cacheVars

\* Wrong variant: a failed query leaves no diagnostic.
Advised_Silently(s) ==
  /\ stage[s] = "advisories" /\ pc[s] = "answered"
  /\ failed' = [failed EXCEPT ![s] = job[s].failed]
  /\ stage' = [stage EXCEPT ![s] = "tools"]
  /\ UNCHANGED <<cacheVars, file, changes, components, online, partial, tool, written, events>>

\* The diagnostic provider_unavailable, when OSV could not be asked.
Advised(s) ==
  /\ stage[s] = "advisories" /\ pc[s] = "answered"
  /\ partial' = [partial EXCEPT ![s] = @ \/ job[s].failed]
  /\ failed' = [failed EXCEPT ![s] = job[s].failed]
  /\ stage' = [stage EXCEPT ![s] = "tools"]
  /\ UNCHANGED <<cacheVars, file, changes, components, online, tool, written, events>>
-----------------------------------------------------------------------------
(***************************************************************************)
(* The tools.  providerInputSelection: `accepted` shrinks and `skips` grows*)
(* as files are looked at again before they are used.                      *)
(***************************************************************************)
Rejected(f) == file[f].kind # "plain"

\* Which candidates a tool may take at first; requirements that are not pinned
\* and hashed, and files beyond the limits, are left out.
Takes(t, f) == IF t \in GetsRoot THEN file[f].kind = "folder" ELSE ~Rejected(f)

Name(s) == AllTools[tool[s].turn]

NextTool(s) == tool' = [tool EXCEPT ![s] = ToolAt(@.turn + 1)]

AtTool(s, at) == stage[s] = "tools" /\ tool[s].turn \in DOMAIN AllTools /\ tool[s].at = at

OnlyTool == UNCHANGED <<cacheVars, file, changes, stage, components, online, partial, failed,
                        written, events>>

\* It is not installed (not_available), or nothing it could be given is there
\* (not_applicable).
SkipTool(s) ==
  /\ AtTool(s, "collect") /\ Name(s) \notin Probed \cap Installed
  /\ NextTool(s)
  /\ OnlyTool

Collect(s) ==
  /\ AtTool(s, "collect") /\ Name(s) \in Installed
  /\ \E acc \in SUBSET {f \in Candidates[Name(s)] : Takes(Name(s), f)} :
        /\ acc # {} \/ Name(s) \in Probed
        /\ tool' = [tool EXCEPT ![s].accepted = acc, ![s].todo = acc,
                      ![s].skips = Cardinality(Candidates[Name(s)] \ acc),
                      ![s].at = IF Name(s) \in Probed THEN "run" ELSE "revalidate"]
  /\ OnlyTool

\* Wrong variant: the file is counted as skipped, and stays accepted.
Without_KeepsFile(r, f) == [r EXCEPT !.skips = @ + 1, !.todo = @ \ {f}]

\* rejectAcceptedPath
Without(r, f) == [r EXCEPT !.accepted = @ \ {f}, !.skips = @ + 1, !.todo = @ \ {f}]

\* revalidate, before the copies that osv-scanner gets are made.
RevalidateAll(s) ==
  /\ AtTool(s, "revalidate") /\ Name(s) \in CopiesAll
  /\ LET bad == {f \in tool[s].accepted : Rejected(f)}
     IN IF bad = tool[s].accepted THEN NextTool(s)
        ELSE tool' = [tool EXCEPT ![s].accepted = @ \ bad, ![s].todo = @ \ bad,
                        ![s].skips = @ + Cardinality(bad), ![s].at = "copy"]
  /\ OnlyTool

\* revalidatePath, before the others get a path.  It wants a regular file, so
\* that it rejects every root.
RevalidateOne(s) ==
  /\ AtTool(s, "revalidate") /\ Name(s) \notin CopiesAll
  /\ \E f \in tool[s].todo :
       tool' = [tool EXCEPT ![s] =
                  IF Rejected(f) THEN Without(@, f)
                  ELSE [@ EXCEPT !.cur = f, !.at = IF Name(s) \in GetsRoot THEN "run" ELSE "copy"]]
  /\ OnlyTool

\* Every file was given to the tool or rejected.
ToolDone(s) ==
  /\ AtTool(s, "revalidate") /\ Name(s) \notin CopiesAll /\ tool[s].todo = {}
  /\ NextTool(s)
  /\ OnlyTool

\* Where the work goes on when an attempt to copy a file is over: osv-scanner
\* is run once, when all were tried and one is left.
Onwards(s, r) ==
  IF Name(s) \notin CopiesAll \/ r.accepted = {} THEN "revalidate"
  ELSE IF r.todo # {} THEN "copy" ELSE "run"

Drop(s, f) ==
  LET r == Without([tool[s] EXCEPT !.cur = None, !.before = NoObject, !.opened = NoObject], f)
  IN tool' = [tool EXCEPT ![s] = [r EXCEPT !.at = Onwards(s, r)]]

LedTo(f) == IF file[f].kind = "link" THEN Foreign ELSE file[f]

CopyOf(s) == IF Name(s) \in CopiesAll THEN tool[s].todo ELSE {tool[s].cur}

\* Wrong variant: the first look follows links (Stat instead of Lstat).
Look_FollowsLinks(s) ==
  /\ AtTool(s, "copy")
  /\ \E f \in CopyOf(s) :
       IF LedTo(f).kind # "plain" THEN Drop(s, f)
       ELSE tool' = [tool EXCEPT ![s].cur = f, ![s].before = LedTo(f), ![s].at = "open"]
  /\ OnlyTool

\* copyProviderInputFile: Lstat, then Open and Stat, then Lstat again.
Look(s) ==
  /\ AtTool(s, "copy")
  /\ \E f \in CopyOf(s) :
       IF Rejected(f) THEN Drop(s, f)
       ELSE tool' = [tool EXCEPT ![s].cur = f, ![s].before = file[f], ![s].at = "open"]
  /\ OnlyTool

Open(s) ==
  /\ AtTool(s, "open")
  /\ LET f == tool[s].cur
     IN IF LedTo(f).kind = "plain"
        THEN tool' = [tool EXCEPT ![s].opened = LedTo(f), ![s].at = "confirm"]
        ELSE Drop(s, f)
  /\ OnlyTool

\* Wrong variant: what was opened is not compared with what is at the path.
Same_Unchecked(s, f) == TRUE

\* os.SameFile, for both Lstats.
Same(s, f) == tool[s].before = tool[s].opened /\ file[f] = tool[s].opened

Confirm(s) ==
  /\ AtTool(s, "confirm")
  /\ LET f == tool[s].cur
         r == [tool[s] EXCEPT !.before = NoObject, !.opened = NoObject, !.todo = @ \ {f},
                 !.copied = @ \cup {tool[s].opened}]
     IN IF Rejected(f) \/ ~Same(s, f) THEN Drop(s, f)
        ELSE tool' = [tool EXCEPT ![s] =
               IF Name(s) \in CopiesAll THEN [r EXCEPT !.cur = None, !.at = Onwards(s, r)]
                                        ELSE [r EXCEPT !.at = "run"]]
  /\ OnlyTool

\* How a tool may end.  One that is killed at its timeout has another exit, and
\* one whose output is cut has output that cannot be parsed.
Outcome == [exit : {"zero", "one", "other"}, parsed : BOOLEAN, findings : BOOLEAN]

Accepts(t, o) ==
  \/ o.exit = "zero" /\ (o.parsed \/ t \in Probed)
  \/ t = "osv-scanner" /\ o.exit = "one" /\ o.parsed /\ o.findings
  \/ t = "pip-audit" /\ o.parsed /\ o.findings

\* The tool on its inputs.  A failure ends the work on the tool, keeps what was
\* found before, and leaves the diagnostic provider_failed.
Run(s) ==
  /\ AtTool(s, "run")
  /\ \E o \in Outcome :
       IF Accepts(Name(s), o)
       THEN /\ IF Name(s) \in CopiesAll \cup Probed THEN NextTool(s)
               ELSE tool' = [tool EXCEPT ![s].todo = @ \ {tool[s].cur}, ![s].cur = None,
                               ![s].copied = {}, ![s].queried = @ + 1, ![s].at = "revalidate"]
            /\ UNCHANGED <<partial, failed>>
       ELSE /\ NextTool(s)
            /\ partial' = [partial EXCEPT ![s] = TRUE]
            /\ failed' = [failed EXCEPT ![s] = TRUE]
  /\ UNCHANGED <<cacheVars, file, changes, stage, components, online, written, events>>

\* The directory of the copies, or a copy in it, cannot be made.
CopyFails(s) ==
  /\ AtTool(s, "copy") \/ AtTool(s, "confirm")
  /\ NextTool(s)
  /\ partial' = [partial EXCEPT ![s] = TRUE]
  /\ failed' = [failed EXCEPT ![s] = TRUE]
  /\ UNCHANGED <<cacheVars, file, changes, stage, components, online, written, events>>

\* cargo has no subcommand vet, which counts as not installed.
NoSubcommand(s) ==
  /\ AtTool(s, "run") /\ Name(s) = "cargo-vet"
  /\ NextTool(s)
  /\ OnlyTool

ToolsDone(s) ==
  /\ stage[s] = "tools" /\ tool[s].turn > Len(AllTools)
  /\ stage' = [stage EXCEPT ![s] = "bundle"]
  /\ UNCHANGED <<cacheVars, file, changes, components, online, partial, tool, failed, written, events>>
-----------------------------------------------------------------------------
(***************************************************************************)
(* writeScanBundle, the event, and the output (which changes nothing).     *)
(***************************************************************************)
\* Seven files, each replaced by a rename: the first of them, then the others.
WriteFiles(s) ==
  /\ stage[s] = "bundle"
  /\ written' = [written EXCEPT ![s] = IF @ = "nothing" THEN "some" ELSE "all"]
  /\ stage' = [stage EXCEPT ![s] = IF written[s] = "nothing" THEN "bundle" ELSE "event"]
  /\ UNCHANGED <<cacheVars, file, changes, components, online, partial, tool, failed, events>>

RecordScan(s) ==
  /\ stage[s] = "event"
  /\ events' = events \cup
       {[scan |-> s, online |-> online[s], status |-> IF partial[s] THEN "partial" ELSE "complete",
         unanswered |-> {pkg \in components[s] : job[s].got[pkg] = "none"},
         failed |-> failed[s]]}
  /\ stage' = [stage EXCEPT ![s] = "done"]
  /\ UNCHANGED <<cacheVars, file, changes, components, online, partial, tool, failed, written>>

\* A file of the bundle or the event cannot be written, or the process dies.
Stop(s) ==
  /\ stage[s] \notin {"off", "done"}
  /\ stage' = [stage EXCEPT ![s] = "done"]
  /\ IF pc[s] = "idle" THEN UNCHANGED cacheVars ELSE Crash(s)
  /\ UNCHANGED <<file, changes, components, online, partial, tool, failed, written, events>>
-----------------------------------------------------------------------------
ToolStep(s) ==
  \/ SkipTool(s) \/ Collect(s) \/ RevalidateAll(s) \/ RevalidateOne(s) \/ ToolDone(s)
  \/ Look(s) \/ Open(s) \/ Confirm(s) \/ Run(s) \/ CopyFails(s)
  \/ NoSubcommand(s) \/ ToolsDone(s)

\* The steps of every query, and what guards and the clock begin.
Queries ==
  /\ \/ \E p \in Guards : Return(p) \/ Crash(p)
     \/ \E p \in Procs : QueryStep(p)
  /\ UNCHANGED scanVars

Others ==
  /\ OthersMayMove
  /\ (\E p \in Guards : BeginRefresh(p)) \/ Tick \/ SetClockBack
  /\ UNCHANGED scanVars

Next ==
  \/ Queries \/ Others
  \/ \E f \in Files : Change(f)
  \/ \E s \in Scanners :
       \/ StartScan(s) \/ StartOffline(s) \/ Advised(s) \/ ToolStep(s)
       \/ WriteFiles(s) \/ RecordScan(s) \/ Stop(s)

Spec == Init /\ [][Next]_vars
-----------------------------------------------------------------------------
(***************************************************************************)
(* Properties.                                                             *)
(***************************************************************************)
\* OSV was asked about the version, in this scan or by whoever filled the cache,
\* and replied: with an answer, or leaving the version out.
Asked(pkg) == (\E answer \in Answers : given[<<pkg, answer>>] # Never) \/ omitted[pkg] # Never

\* A scan whose event is in the log has its whole bundle.  One recorded as
\* complete with network mode "advisories" holds an answer about every exact
\* component OSV was asked about, and every tool it ran ended well, whatever
\* failed and whoever else used the cache.  One with network mode "off" is
\* recorded as complete too, and then holds none (scan.go:112-153).
RecordedScanIsBacked ==
  \A e \in events :
    /\ written[e.scan] = "all"
    /\ e.online /\ e.status = "complete" =>
         e.unanswered = {} /\ ~e.failed /\ \A pkg \in components[e.scan] : Asked(pkg)
    /\ ~e.online => e.unanswered = components[e.scan]

\* A candidate is accepted or counted once as skipped, at whichever of the four
\* looks at it the file turned out to have been replaced.
SkipsAddUp ==
  \A s \in Scanners : stage[s] = "tools" /\ tool[s].at # "collect" =>
    /\ Cardinality(Candidates[Name(s)]) = Cardinality(tool[s].accepted) + tool[s].skips
    /\ tool[s].todo \subseteq tool[s].accepted

\* What a tool is given is a copy of a regular file that was itself at the
\* path, also when paths are replaced between the looks at them.
HandedFilesWereThere ==
  \A s \in Scanners : Foreign \notin tool[s].copied /\ \A o \in tool[s].copied : o.kind = "plain"

\* What docs/roadmap.md and the comment on the providers say: an installed tool
\* is run on the roots.  The code rejects every root as not a regular file.
RootsAreQueried ==
  \A s \in Scanners :
    stage[s] = "tools" /\ tool[s].at = "revalidate" /\ tool[s].todo = {} /\ changes = 0
      /\ Name(s) \in GetsRoot
    => tool[s].queried > 0
=============================================================================
