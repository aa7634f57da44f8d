---------------------------- MODULE ApprovalStore ----------------------------
(***************************************************************************)
(* The persistent approvals of lsec (storage_approvals.go): approvals.json *)
(* behind the lock file approvals.json.lock, replaced by writing a         *)
(* temporary file and renaming it over the old one (storage_files.go), and *)
(* the best-effort mirror of it in the SQLite table `approvals`, which is  *)
(* updated after the lock has been given back.                             *)
(*                                                                         *)
(* A file that does not exist reads as an empty list: both are the same    *)
(* state here.  Every process is one invocation of the CLI; a process may    *)
(* die at any step, after which the slot runs a new invocation.            *)
(*                                                                         *)
(* The list in approvals.json is modelled as a set: nothing but the order  *)
(* in which `approvals list` prints depends on positions.                  *)
(***************************************************************************)
EXTENDS Naturals, FiniteSets

CONSTANTS
  Procs, Packages, Hashes, AnyHash,
  LockIsExclusive, \* TRUE: flock (Unix); FALSE: the no-op lock of Windows
  MaxCalls         \* bound on the number of calls made

ASSUME ApprovalStoreAssumption ==
  /\ AnyHash \notin Hashes
  /\ LockIsExclusive \in BOOLEAN
  /\ MaxCalls \in Nat

VARIABLES
  file,       \* approvals.json: its list, and whether it is complete JSON
  holders,    \* the processes inside withPathLock's critical section
  temp,       \* the temporary file of each process
  loaded,     \* the approvals a process has read
  pc,         \* where each process is
  op,         \* the operation of each process
  mirror,     \* rows of the SQLite table `approvals`
  clock,      \* number of calls started; stamps the approvals
  disturbed   \* history: did calls overlap, did a process or a mirror step fail

vars == <<file, holders, temp, loaded, pc, op, mirror, clock, disturbed>>

\* The abstract store: the file is the set, the call is "done" once renamed.
Stage(p) ==
  IF pc[p] = "idle" THEN "idle"
  ELSE IF pc[p] = "abort" THEN "failed"
  ELSE IF pc[p] \in {"unlock", "delete", "insert"} THEN "done"
  ELSE "pending"

Times == 0 .. MaxCalls

Abstract == INSTANCE ApprovalSpec WITH
  Times <- Times,
  approved <- file.list,
  call <- [p \in Procs |-> [stage |-> Stage(p), op |-> op[p]]]

Approval == [pkg : Packages, hash : Hashes, at : Times]
Content  == [whole : BOOLEAN, list : SUBSET Approval]
Torn     == [whole |-> FALSE, list |-> {}]
Whole(s) == [whole |-> TRUE, list |-> s]
Places   == {"idle", "lock", "load", "create", "write", "rename",
             "unlock", "abort", "delete", "insert"}

TypeOK ==
  /\ file \in Content
  /\ holders \in SUBSET Procs
  /\ temp \in [Procs -> Content]
  /\ loaded \in [Procs -> SUBSET Approval]
  /\ pc \in [Procs -> Places]
  /\ op \in [Procs -> Abstract!Op \cup {Abstract!NoOp}]
  /\ mirror \subseteq Approval
  /\ clock \in Times
  /\ disturbed \subseteq {"overlap", "failure"}

Init ==
  /\ file = Whole({})
  /\ holders = {}
  /\ temp = [p \in Procs |-> Torn]
  /\ loaded = [p \in Procs |-> {}]
  /\ pc = [p \in Procs |-> "idle"]
  /\ op = [p \in Procs |-> Abstract!NoOp]
  /\ mirror = {}
  /\ clock = 0
  /\ disturbed = {}

Goto(p, place) == pc' = [pc EXCEPT ![p] = place]
Moves(p, from, to) == pc[p] = from /\ Goto(p, to)

(***************************************************************************)
(* The list transformations inside the critical sections.                  *)
(***************************************************************************)
\* sameApprovalTarget for an add, the filter of RevokeApproval for a revoke.
SameTarget(r, o) == r.pkg = o.pkg /\ (o.hash = AnyHash \/ r.hash = o.hash)
Matching(s, o) == {r \in s : SameTarget(r, o)}

\* Wrong variants of a definition (named after the definition, with a suffix)
\* stand before it: each is a bug the properties below must notice.
Added_AppendOnly(s, o) == s \cup {[pkg |-> o.pkg, hash |-> o.hash, at |-> o.at]}
Added_KeepsRequest(s, o) == s \cup {o}

\* AddApproval replaces the first record with the same target, or appends.
Added(s, o) ==
  LET new == [pkg |-> o.pkg, hash |-> o.hash, at |-> o.at]
  IN  IF Matching(s, o) = {} THEN s \cup {new}
      ELSE (s \ {CHOOSE r \in Matching(s, o) : TRUE}) \cup {new}

Kept_WholePackage(s, o) == {r \in s : r.pkg # o.pkg}

\* RevokeApproval keeps the records that do not match.
Kept(s, o) == s \ Matching(s, o)

Saved(s, o) == IF o.kind = "add" THEN Added(s, o) ELSE Kept(s, o)

(***************************************************************************)
(* The steps of a call.                                                    *)
(***************************************************************************)
\* CreatedAt is taken before the lock is asked for.
Begin(p) ==
  /\ Moves(p, "idle", "lock")
  /\ clock < MaxCalls
  /\ clock' = clock + 1
  /\ op' \in {[op EXCEPT ![p] = o] : o \in
        [kind : {"add"}, pkg : Packages, hash : Hashes, at : {clock}] \cup
        [kind : {"revoke"}, pkg : Packages, hash : Hashes \cup {AnyHash}, at : {clock}]}
  /\ disturbed' = disturbed \cup {why \in {"overlap"} : \E q \in Procs \ {p} : pc[q] # "idle"}
  /\ UNCHANGED <<file, holders, temp, loaded, mirror>>

\* lockFile: flock(LOCK_EX) waits for the holder; the Windows lock never waits.
Acquire(p) ==
  /\ Moves(p, "lock", "load")
  /\ LockIsExclusive => holders = {}
  /\ holders' = holders \cup {p}
  /\ UNCHANGED <<file, temp, loaded, op, mirror, clock, disturbed>>

\* LoadApprovals inside the lock; JSON that does not parse is an error (SaveFails).
Load(p) ==
  /\ file.whole
  /\ Moves(p, "load", "create")
  /\ loaded' = [loaded EXCEPT ![p] = file.list]
  /\ UNCHANGED <<file, holders, temp, op, mirror, clock, disturbed>>

\* writeFileAtomic: CreateTemp, Write (Chmod, Close), Rename.
CreateTemp(p) ==
  /\ Moves(p, "create", "write")
  /\ temp' = [temp EXCEPT ![p] = Torn]
  /\ UNCHANGED <<file, holders, loaded, op, mirror, clock, disturbed>>

WriteTemp(p) ==
  /\ Moves(p, "write", "rename")
  /\ temp' = [temp EXCEPT ![p] = Whole(Saved(loaded[p], op[p]))]
  /\ UNCHANGED <<file, holders, loaded, op, mirror, clock, disturbed>>

Rename(p) ==
  /\ Moves(p, "rename", "unlock")
  /\ file' = temp[p]
  /\ UNCHANGED <<holders, temp, loaded, op, mirror, clock, disturbed>>

SaveFails_Ignored(p) ==
  /\ pc[p] \in {"load", "create", "write", "rename"}
  /\ Goto(p, "unlock")
  /\ UNCHANGED <<file, holders, temp, loaded, op, mirror, clock, disturbed>>

\* Any step of the critical section may return an error, and so may the lock.
SaveFails(p) ==
  /\ pc[p] \in {"load", "create", "write", "rename"}
  /\ Goto(p, "abort")
  /\ UNCHANGED <<file, holders, temp, loaded, op, mirror, clock, disturbed>>

LockFails(p) ==
  /\ pc[p] = "lock"
  /\ Goto(p, "abort")
  /\ UNCHANGED <<file, holders, temp, loaded, op, mirror, clock, disturbed>>

\* The deferred unlock; only a call that saved goes on to the mirror.
Release(p) ==
  /\ holders' = holders \ {p}
  /\ \/ Moves(p, "unlock", "delete") /\ UNCHANGED op
     \/ Moves(p, "abort", "idle") /\ op' = [op EXCEPT ![p] = Abstract!NoOp]
  /\ UNCHANGED <<file, temp, loaded, mirror, clock, disturbed>>

MirrorDelete_SkippedForAdd(p) ==
  /\ pc[p] = "delete"
  /\ IF op[p].kind = "add"
     THEN Goto(p, "insert") /\ UNCHANGED <<op, mirror>>
     ELSE /\ mirror' = Kept(mirror, op[p])
          /\ Goto(p, "idle") /\ op' = [op EXCEPT ![p] = Abstract!NoOp]
  /\ UNCHANGED <<file, holders, temp, loaded, clock, disturbed>>

\* deleteApprovalSQLite: best effort, outside the lock, errors are ignored.
MirrorDelete(p) ==
  /\ pc[p] = "delete"
  /\ \/ mirror' = Kept(mirror, op[p]) /\ UNCHANGED disturbed
     \/ UNCHANGED mirror /\ disturbed' = disturbed \cup {"failure"}
  /\ IF op[p].kind = "add"
     THEN Goto(p, "insert") /\ UNCHANGED op
     ELSE Goto(p, "idle") /\ op' = [op EXCEPT ![p] = Abstract!NoOp]
  /\ UNCHANGED <<file, holders, temp, loaded, clock>>

\* The INSERT of AddApproval: best effort as well.
MirrorInsert(p) ==
  /\ Moves(p, "insert", "idle")
  /\ \/ /\ mirror' = mirror \cup {[pkg |-> op[p].pkg, hash |-> op[p].hash, at |-> op[p].at]}
        /\ UNCHANGED disturbed
     \/ UNCHANGED mirror /\ disturbed' = disturbed \cup {"failure"}
  /\ op' = [op EXCEPT ![p] = Abstract!NoOp]
  /\ UNCHANGED <<file, holders, temp, loaded, clock>>

Crash_KeepsLock(p) ==
  /\ pc[p] # "idle"
  /\ Goto(p, "idle")
  /\ op' = [op EXCEPT ![p] = Abstract!NoOp]
  /\ disturbed' = disturbed \cup {"failure"}
  /\ UNCHANGED <<file, holders, temp, loaded, mirror, clock>>

\* The process dies: the kernel closes the lock file and so gives back the
\* flock; a temporary file stays behind, which nobody reads.
Crash(p) ==
  /\ pc[p] # "idle"
  /\ Goto(p, "idle")
  /\ holders' = holders \ {p}
  /\ op' = [op EXCEPT ![p] = Abstract!NoOp]
  /\ disturbed' = disturbed \cup {"failure"}
  /\ UNCHANGED <<file, temp, loaded, mirror, clock>>

Step(p) ==
  \/ Acquire(p) \/ Load(p) \/ CreateTemp(p) \/ WriteTemp(p)
  \/ Rename(p) \/ Release(p) \/ MirrorDelete(p) \/ MirrorInsert(p)

Next == \E p \in Procs : Begin(p) \/ Step(p) \/ SaveFails(p) \/ LockFails(p) \/ Crash(p)

Spec == Init /\ [][Next]_vars

\* The operating system keeps running every process that can run.
FairSpec == Spec /\ \A p \in Procs : WF_vars(Step(p))

(***************************************************************************)
(* Properties.                                                             *)
(***************************************************************************)
\* approvals.json is never seen half written, whatever step a writer dies or
\* fails at: the content only ever changes by renaming a complete file.
FileNeverTorn == file.whole

\* Exact records are unique: "adding the same exact record updates it instead
\* of duplicating it" (docs/technical-overview.md), even when calls race.
ExactRecordsUnique ==
  \A r, s \in file.list : r.pkg = s.pkg /\ r.hash = s.hash => r = s

\* While a process is between its load and its rename the file is what it has
\* loaded: no other process can slip a change in between.
LoadedIsCurrent ==
  \A p \in Procs : pc[p] \in {"create", "write", "rename"} => loaded[p] = file.list

\* No approval is lost: a record leaves the file only when a call that revokes
\* or replaces exactly that record is being saved (AddApproval, RevokeApproval).
NoLostApproval ==
  [][\A r \in file.list \ file.list' :
       \E p \in Procs : pc[p] = "rename" /\ pc'[p] = "unlock" /\ SameTarget(r, op[p])]_vars

\* No revoked approval comes back: a record enters the file only as the
\* record of an add that is being saved at this very step.
NoResurrectedApproval ==
  [][\A r \in file.list' \ file.list :
       \E p \in Procs : /\ pc[p] = "rename" /\ pc'[p] = "unlock"
                        /\ op[p].kind = "add" /\ r.at = op[p].at]_vars

\* The store implements the atomic one.
ImplementsAtomicStore == Abstract!Spec

\* When no calls overlapped and none was cut short, the SQLite mirror ends up
\* holding exactly the approvals of the file.
MirrorFollowsFile ==
  disturbed = {} /\ (\A p \in Procs : pc[p] = "idle") => mirror = file.list

\* Every call returns, even when a process dies while it holds the lock:
\* the lock of a dead process is not waited for.
EveryCallReturns == \A p \in Procs : pc[p] # "idle" ~> pc[p] = "idle"
=============================================================================
