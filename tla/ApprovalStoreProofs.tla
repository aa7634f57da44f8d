------------------------- MODULE ApprovalStoreProofs -------------------------
(***************************************************************************)
(* Proofs about ApprovalStore, for any processes, packages, hashes and     *)
(* number of calls.                                                        *)
(***************************************************************************)
EXTENDS ApprovalStore, TLAPS

(***************************************************************************)
(* Type correctness.                                                       *)
(***************************************************************************)
\* What a process is doing it does for an operation; only an add inserts a row.
OpInv ==
  \A p \in Procs :
    /\ pc[p] \notin {"idle", "abort"} => op[p] \in Abstract!Op
    /\ pc[p] = "insert" => op[p].kind = "add"

TypeInv == TypeOK /\ OpInv

LEMMA SavedType ==
  ASSUME NEW s \in SUBSET Approval, NEW o \in Abstract!Op
  PROVE  Saved(s, o) \in SUBSET Approval
<1>1. CASE o.kind = "add"
  <2>1. [pkg |-> o.pkg, hash |-> o.hash, at |-> o.at] \in Approval
    BY <1>1 DEF Approval, Abstract!Op, Abstract!AddOp, Abstract!RevokeOp
  <2> QED
    BY <1>1, <2>1 DEF Saved, Added
<1>2. CASE o.kind # "add"
  BY <1>2 DEF Saved, Kept
<1> QED
  BY <1>1, <1>2

LEMMA InitType == Init => TypeInv
BY ApprovalStoreAssumption DEF Init, TypeInv, TypeOK, OpInv, Content, Torn, Whole, Places, Times

LEMMA NextType == TypeInv /\ [Next]_vars => TypeInv'
<1> SUFFICES ASSUME TypeInv, [Next]_vars PROVE TypeInv'
  OBVIOUS
<1> USE DEF TypeInv, TypeOK, OpInv
<1> Places = {"idle", "lock", "load", "create", "write", "rename",
              "unlock", "abort", "delete", "insert"}
  BY DEF Places
<1>1. ASSUME NEW p \in Procs, Begin(p) PROVE TypeInv'
  <2>1. PICK o \in [kind : {"add"}, pkg : Packages, hash : Hashes, at : {clock}] \cup
        [kind : {"revoke"}, pkg : Packages, hash : Hashes \cup {AnyHash}, at : {clock}] :
          op' = [op EXCEPT ![p] = o]
    BY <1>1 DEF Begin
  <2>2. o \in Abstract!Op
    BY <2>1 DEF Abstract!Op, Abstract!AddOp, Abstract!RevokeOp
  <2>3. clock' \in Times
    BY <1>1, ApprovalStoreAssumption DEF Begin, Times
  <2> QED
    BY <1>1, <2>1, <2>2, <2>3 DEF Begin, Moves, Goto
<1>2. ASSUME NEW p \in Procs, Acquire(p) PROVE TypeInv'
  BY <1>2 DEF Acquire, Moves, Goto
<1>3. ASSUME NEW p \in Procs, Load(p) PROVE TypeInv'
  <2>1. file.list \in SUBSET Approval
    BY DEF Content
  <2> QED
    BY <1>3, <2>1 DEF Load, Moves, Goto
<1>4. ASSUME NEW p \in Procs, CreateTemp(p) PROVE TypeInv'
  BY <1>4 DEF CreateTemp, Moves, Goto, Torn, Content
<1>5. ASSUME NEW p \in Procs, WriteTemp(p) PROVE TypeInv'
  <2>1. op[p] \in Abstract!Op
    BY <1>5 DEF WriteTemp, Moves
  <2>2. Saved(loaded[p], op[p]) \in SUBSET Approval
    BY <2>1, SavedType
  <2> QED
    BY <1>5, <2>2 DEF WriteTemp, Moves, Goto, Content, Whole
<1>6. ASSUME NEW p \in Procs, Rename(p) PROVE TypeInv'
  BY <1>6 DEF Rename, Moves, Goto
<1>7. ASSUME NEW p \in Procs, Release(p) PROVE TypeInv'
  BY <1>7 DEF Release, Moves, Goto
<1>8. ASSUME NEW p \in Procs, MirrorDelete(p) PROVE TypeInv'
  <2>1. Kept(mirror, op[p]) \subseteq Approval
    BY DEF Kept
  <2> QED
    BY <1>8, <2>1 DEF MirrorDelete, Goto
<1>9. ASSUME NEW p \in Procs, MirrorInsert(p) PROVE TypeInv'
  <2>1. op[p] \in Abstract!AddOp
    BY <1>9 DEF MirrorInsert, Moves, Abstract!Op, Abstract!AddOp, Abstract!RevokeOp
  <2>2. [pkg |-> op[p].pkg, hash |-> op[p].hash, at |-> op[p].at] \in Approval
    BY <2>1 DEF Approval, Abstract!AddOp
  <2> QED
    BY <1>9, <2>2 DEF MirrorInsert, Moves, Goto
<1>10. ASSUME NEW p \in Procs, SaveFails(p) \/ LockFails(p) PROVE TypeInv'
  BY <1>10 DEF SaveFails, LockFails, Goto
<1>11. ASSUME NEW p \in Procs, Crash(p) PROVE TypeInv'
  BY <1>11 DEF Crash, Goto
<1>12. CASE UNCHANGED vars
  BY <1>12 DEF vars
<1> QED
  BY <1>1, <1>2, <1>3, <1>4, <1>5, <1>6, <1>7, <1>8, <1>9, <1>10, <1>11, <1>12 DEF Next, Step

\* Every variable keeps its type, for every instance.
THEOREM TypeCorrect == Spec => []TypeOK
<1>1. Spec => []TypeInv
  BY InitType, NextType, PTL DEF Spec
<1>2. TypeInv => TypeOK
  BY DEF TypeInv
<1> QED
  BY <1>1, <1>2, PTL

(***************************************************************************)
(* Mutual exclusion, and with it what a process knows between its load and *)
(* its rename.                                                             *)
(***************************************************************************)
InSection(p) == pc[p] \in {"load", "create", "write", "rename", "unlock"}

SectionInv ==
  /\ \A p \in Procs : InSection(p) => p \in holders
  /\ \A p, q \in holders : p = q

TempInv == \A p \in Procs : pc[p] = "rename" => temp[p] = Whole(Saved(loaded[p], op[p]))

UniqueIn(s) == \A r, t \in s : r.pkg = t.pkg /\ r.hash = t.hash => r = t

\* Uniqueness carries from what was loaded to what will be renamed.
UniqueInv == UniqueIn(file.list) /\ \A p \in Procs : UniqueIn(loaded[p])

LockInv == SectionInv /\ LoadedIsCurrent

FileInv == TempInv /\ FileNeverTorn /\ UniqueInv

\* An add stores the new record and drops exactly the record it replaces.
LEMMA AddedIsEffect ==
  ASSUME NEW s \in SUBSET Approval, UniqueIn(s), NEW o \in Abstract!Op
  PROVE  /\ Saved(s, o) = Abstract!Effect(s, o)
         /\ UniqueIn(Saved(s, o))
<1>1. CASE o.kind = "add"
  <2>1. o.hash # AnyHash
    BY <1>1, ApprovalStoreAssumption DEF Abstract!Op, Abstract!AddOp, Abstract!RevokeOp
  <2>2. \A r, t \in Matching(s, o) : r = t
    BY <2>1 DEF UniqueIn, Matching, SameTarget
  <2>3. Matching(s, o) = {} \/ Matching(s, o) = {CHOOSE r \in Matching(s, o) : TRUE}
    BY <2>2
  <2>4. Matching(s, o) = Abstract!Targets(s, o)
    BY DEF Matching, SameTarget, Abstract!Targets, Abstract!IsTarget
  <2>5. Saved(s, o) = (s \ Matching(s, o)) \cup {[pkg |-> o.pkg, hash |-> o.hash, at |-> o.at]}
    BY <1>1, <2>3 DEF Saved, Added
  <2>6. Saved(s, o) = Abstract!Effect(s, o)
    BY <1>1, <2>4, <2>5 DEF Abstract!Effect, Abstract!NewApproval
  <2>7. UniqueIn(Saved(s, o))
    BY <2>1, <2>5 DEF UniqueIn, Matching, SameTarget
  <2> QED
    BY <2>6, <2>7
<1>2. CASE o.kind # "add"
  BY <1>2 DEF Saved, Kept, Matching, SameTarget, UniqueIn,
              Abstract!Effect, Abstract!Targets, Abstract!IsTarget
<1> QED
  BY <1>1, <1>2

LEMMA LockInvInit == Init => LockInv
BY DEF Init, LockInv, SectionInv, InSection, LoadedIsCurrent

LEMMA LockInvNext ==
  ASSUME LockIsExclusive, TypeInv, LockInv, [Next]_vars
  PROVE  LockInv'
<1> USE DEF TypeInv, TypeOK, LockInv, SectionInv, InSection, LoadedIsCurrent
<1>1. ASSUME NEW p \in Procs, Begin(p) PROVE LockInv'
  BY <1>1 DEF Begin, Moves, Goto
<1>2. ASSUME NEW p \in Procs, Acquire(p) PROVE LockInv'
  BY <1>2, LockIsExclusive DEF Acquire, Moves, Goto
<1>3. ASSUME NEW p \in Procs, Load(p) PROVE LockInv'
  BY <1>3 DEF Load, Moves, Goto
<1>4. ASSUME NEW p \in Procs, CreateTemp(p) PROVE LockInv'
  BY <1>4 DEF CreateTemp, Moves, Goto
<1>5. ASSUME NEW p \in Procs, WriteTemp(p) PROVE LockInv'
  BY <1>5 DEF WriteTemp, Moves, Goto
<1>6. ASSUME NEW p \in Procs, Rename(p) PROVE LockInv'
  BY <1>6 DEF Rename, Moves, Goto
<1>7. ASSUME NEW p \in Procs, Release(p) PROVE LockInv'
  BY <1>7 DEF Release, Moves, Goto
<1>8. ASSUME NEW p \in Procs, MirrorDelete(p) \/ MirrorInsert(p) PROVE LockInv'
  BY <1>8 DEF MirrorDelete, MirrorInsert, Moves, Goto
<1>9. ASSUME NEW p \in Procs, SaveFails(p) \/ LockFails(p) PROVE LockInv'
  BY <1>9 DEF SaveFails, LockFails, Goto
<1>10. ASSUME NEW p \in Procs, Crash(p) PROVE LockInv'
  BY <1>10 DEF Crash, Goto
<1>11. CASE UNCHANGED vars
  BY <1>11 DEF vars
<1> QED
  BY <1>1, <1>2, <1>3, <1>4, <1>5, <1>6, <1>7, <1>8, <1>9, <1>10, <1>11, [Next]_vars DEF Next, Step

\* With a lock that excludes, the file a process is about to replace is the
\* file it has read, so no change of another process is overwritten.
THEOREM NoStaleSave == ASSUME LockIsExclusive PROVE Spec => []LoadedIsCurrent
<1>1. TypeInv /\ LockInv /\ [Next]_vars => LockInv'
  BY LockInvNext, LockIsExclusive
<1>2. LockInv => LoadedIsCurrent
  BY DEF LockInv
<1> QED
  BY <1>1, <1>2, InitType, NextType, LockInvInit, PTL DEF Spec

(***************************************************************************)
(* The file itself.  None of this needs the lock.                          *)
(***************************************************************************)
LEMMA FileInvInit == Init => FileInv
BY DEF Init, FileInv, TempInv, FileNeverTorn, UniqueInv, UniqueIn, Whole

LEMMA FileInvNext == TypeInv /\ FileInv /\ [Next]_vars => FileInv'
<1> SUFFICES ASSUME TypeInv, FileInv, [Next]_vars PROVE FileInv'
  OBVIOUS
<1> USE DEF TypeInv, TypeOK, FileInv, TempInv, FileNeverTorn, UniqueInv, UniqueIn
<1>1. ASSUME NEW p \in Procs, Begin(p) PROVE FileInv'
  BY <1>1 DEF Begin, Moves, Goto
<1>2. ASSUME NEW p \in Procs, Acquire(p) PROVE FileInv'
  BY <1>2 DEF Acquire, Moves, Goto
<1>3. ASSUME NEW p \in Procs, Load(p) PROVE FileInv'
  BY <1>3 DEF Load, Moves, Goto
<1>4. ASSUME NEW p \in Procs, CreateTemp(p) PROVE FileInv'
  BY <1>4 DEF CreateTemp, Moves, Goto
<1>5. ASSUME NEW p \in Procs, WriteTemp(p) PROVE FileInv'
  BY <1>5 DEF WriteTemp, Moves, Goto
<1>6. ASSUME NEW p \in Procs, Rename(p) PROVE FileInv'
  <2>1. /\ file' = Whole(Saved(loaded[p], op[p]))
        /\ op[p] \in Abstract!Op
    BY <1>6 DEF Rename, Moves, OpInv
  <2>2. UniqueIn(Saved(loaded[p], op[p]))
    BY <2>1, AddedIsEffect
  <2>3. UniqueIn(file'.list) /\ file'.whole
    BY <2>1, <2>2 DEF Whole
  <2> QED
    BY <1>6, <2>3 DEF Rename, Moves, Goto
<1>7. ASSUME NEW p \in Procs, Release(p) PROVE FileInv'
  BY <1>7 DEF Release, Moves, Goto
<1>8. ASSUME NEW p \in Procs, MirrorDelete(p) \/ MirrorInsert(p) PROVE FileInv'
  BY <1>8 DEF MirrorDelete, MirrorInsert, Moves, Goto
<1>9. ASSUME NEW p \in Procs, SaveFails(p) \/ LockFails(p) PROVE FileInv'
  BY <1>9 DEF SaveFails, LockFails, Goto
<1>10. ASSUME NEW p \in Procs, Crash(p) PROVE FileInv'
  BY <1>10 DEF Crash, Goto
<1>11. CASE UNCHANGED vars
  BY <1>11 DEF vars
<1> QED
  BY <1>1, <1>2, <1>3, <1>4, <1>5, <1>6, <1>7, <1>8, <1>9, <1>10, <1>11 DEF Next, Step

\* With or without a working lock, and wherever writers die, readers find a
\* complete file that holds at most one record per package and hash.
THEOREM FileAlwaysReadable == Spec => [](FileNeverTorn /\ ExactRecordsUnique)
<1>1. FileInv => FileNeverTorn /\ ExactRecordsUnique
  BY DEF FileInv, UniqueInv, UniqueIn, ExactRecordsUnique
<1> QED
  BY <1>1, InitType, NextType, FileInvInit, FileInvNext, PTL DEF Spec

(***************************************************************************)
(* The store implements the atomic one, step by step.                      *)
(***************************************************************************)
\* What a save does when nothing came in between: exactly the effect of its
\* operation on the current file.
LEMMA SaveIsEffect ==
  ASSUME TypeInv, FileInv, NEW p \in Procs, Rename(p), loaded[p] = file.list
  PROVE  /\ op[p] \in Abstract!Op
         /\ file'.list = Abstract!Effect(file.list, op[p])
<1>1. /\ pc[p] = "rename" /\ op[p] \in Abstract!Op
      /\ file' = Whole(Saved(loaded[p], op[p]))
  BY DEF Rename, Moves, TypeInv, OpInv, FileInv, TempInv
<1>2. file.list \in SUBSET Approval /\ UniqueIn(file.list)
  BY DEF TypeInv, TypeOK, Content, FileInv, UniqueInv
<1> QED
  BY <1>1, <1>2, AddedIsEffect DEF Whole

\* With a lock that excludes nothing can come in between.
LEMMA RenameIsEffect ==
  ASSUME TypeInv, LockInv, FileInv, NEW p \in Procs, Rename(p)
  PROVE  /\ op[p] \in Abstract!Op
         /\ file'.list = Abstract!Effect(file.list, op[p])
<1>1. loaded[p] = file.list
  BY DEF Rename, Moves, LockInv, LoadedIsCurrent
<1> QED
  BY <1>1, SaveIsEffect

\* Only a save changes the list.
LEMMA OnlyRenameChangesList ==
  ASSUME [Next]_vars, file'.list # file.list
  PROVE  \E p \in Procs : Rename(p)
BY DEF Next, Step, Begin, Acquire, Load, CreateTemp, WriteTemp, Release, MirrorDelete,
       MirrorInsert, SaveFails, LockFails, Crash, vars

\* No approval is lost and none comes back, for any number of processes.
THEOREM NothingLostNothingResurrected ==
  ASSUME LockIsExclusive
  PROVE  Spec => NoLostApproval /\ NoResurrectedApproval
<1> DEFINE Lost == \A r \in file.list \ file.list' :
                     \E p \in Procs : pc[p] = "rename" /\ pc'[p] = "unlock" /\ SameTarget(r, op[p])
           Back == \A r \in file.list' \ file.list :
                     \E p \in Procs : /\ pc[p] = "rename" /\ pc'[p] = "unlock"
                                      /\ op[p].kind = "add" /\ r.at = op[p].at
<1>1. TypeInv /\ LockInv /\ FileInv /\ [Next]_vars => [Lost /\ Back]_vars
  <2> SUFFICES ASSUME TypeInv, LockInv, FileInv, [Next]_vars, file'.list # file.list
               PROVE  Lost /\ Back
    OBVIOUS
  <2>1. PICK p \in Procs : Rename(p)
    BY OnlyRenameChangesList
  <2>2. op[p] \in Abstract!Op /\ file'.list = Abstract!Effect(file.list, op[p])
    BY <2>1, RenameIsEffect
  <2>3. pc[p] = "rename" /\ pc'[p] = "unlock"
    BY <2>1 DEF Rename, Moves, Goto, TypeInv, TypeOK
  <2>4. \A r \in file.list \ file.list' : SameTarget(r, op[p])
    BY <2>2 DEF Abstract!Effect, Abstract!Targets, Abstract!IsTarget, SameTarget
  <2>5. \A r \in file.list' \ file.list : op[p].kind = "add" /\ r.at = op[p].at
    BY <2>2 DEF Abstract!Effect, Abstract!Targets, Abstract!NewApproval
  <2> QED
    BY <2>3, <2>4, <2>5
<1>2. TypeInv /\ LockInv /\ [Next]_vars => LockInv'
  BY LockInvNext, LockIsExclusive
<1>3. Spec => [][Lost /\ Back]_vars
  BY <1>1, <1>2, InitType, NextType, LockInvInit, FileInvInit, FileInvNext, PTL DEF Spec
<1>4. [][Lost /\ Back]_vars => [][Lost]_vars /\ [][Back]_vars
  BY PTL
<1> QED
  BY <1>3, <1>4 DEF NoLostApproval, NoResurrectedApproval

\* Seen from outside, every call takes effect in one step or not at all.
THEOREM AtomicStore == ASSUME LockIsExclusive PROVE Spec => ImplementsAtomicStore
<1>1. Init => Abstract!SpecInit
  BY DEF Init, Abstract!SpecInit, Stage, Whole
<1>2. TypeInv /\ LockInv /\ FileInv /\ [Next]_vars => [Abstract!SpecNext]_(Abstract!specVars)
  <2> SUFFICES ASSUME TypeInv, LockInv, FileInv, [Next]_vars
               PROVE  [Abstract!SpecNext]_(Abstract!specVars)
    OBVIOUS
  <2> DEFINE calls == [p \in Procs |-> [stage |-> Stage(p), op |-> op[p]]]
  <2> USE DEF TypeInv, TypeOK, Abstract!SpecNext, Abstract!specVars
  <2>1. ASSUME NEW p \in Procs, Begin(p) PROVE Abstract!Start(p)
    <3>1. PICK o \in Abstract!Op : op' = [op EXCEPT ![p] = o]
      <4>1. {clock} \subseteq Times
        OBVIOUS
      <4> QED
        BY <2>1, <4>1 DEF Begin, Abstract!Op, Abstract!AddOp, Abstract!RevokeOp
    <3>2. calls' = [calls EXCEPT ![p] = [stage |-> "pending", op |-> o]]
      BY <2>1, <3>1 DEF Begin, Moves, Goto, Stage
    <3>3. calls[p].stage = "idle" /\ file'.list = file.list
      BY <2>1 DEF Begin, Moves, Stage
    <3> QED
      BY <3>2, <3>3 DEF Abstract!Start
  <2>2. ASSUME NEW p \in Procs, Acquire(p) \/ Load(p) \/ CreateTemp(p) \/ WriteTemp(p)
        PROVE  UNCHANGED Abstract!specVars
    <3>1. \A q \in Procs : Stage(q)' = Stage(q) /\ op'[q] = op[q]
      BY <2>2 DEF Acquire, Load, CreateTemp, WriteTemp, Moves, Goto, Stage
    <3>2. file' = file
      BY <2>2 DEF Acquire, Load, CreateTemp, WriteTemp
    <3> QED
      BY <3>1, <3>2
  <2>3. ASSUME NEW p \in Procs, Rename(p) PROVE Abstract!TakeEffect(p)
    <3>1. file'.list = Abstract!Effect(file.list, op[p])
      BY <2>3, RenameIsEffect
    <3>2. calls[p].stage = "pending" /\ calls[p].op = op[p]
      BY <2>3 DEF Rename, Moves, Stage
    <3>3. calls' = [calls EXCEPT ![p].stage = "done"]
      BY <2>3 DEF Rename, Moves, Goto, Stage
    <3> QED
      BY <3>1, <3>2, <3>3 DEF Abstract!TakeEffect
  <2>4. ASSUME NEW p \in Procs, SaveFails(p) \/ LockFails(p) PROVE Abstract!Refuse(p)
    <3>1. calls[p].stage = "pending" /\ file' = file
      BY <2>4 DEF SaveFails, LockFails, Stage
    <3>2. calls' = [calls EXCEPT ![p].stage = "failed"]
      BY <2>4 DEF SaveFails, LockFails, Goto, Stage
    <3> QED
      BY <3>1, <3>2 DEF Abstract!Refuse
  <2>5. ASSUME NEW p \in Procs, pc[p] \in {"unlock", "delete"}, op' = op, file' = file,
               pc' = [pc EXCEPT ![p] = "delete"] \/ pc' = [pc EXCEPT ![p] = "insert"]
        PROVE  UNCHANGED Abstract!specVars
    <3>1. \A q \in Procs : Stage(q)' = Stage(q) /\ op'[q] = op[q]
      BY <2>5 DEF Stage
    <3> QED
      BY <3>1, <2>5
  <2>6. ASSUME NEW p \in Procs, pc[p] # "idle", pc' = [pc EXCEPT ![p] = "idle"],
               op' = [op EXCEPT ![p] = Abstract!NoOp], file' = file
        PROVE  Abstract!Leave(p)
    <3>1. calls[p].stage # "idle"
      BY <2>6 DEF Stage
    <3>2. calls' = [calls EXCEPT ![p] = [stage |-> "idle", op |-> Abstract!NoOp]]
      BY <2>6 DEF Stage
    <3> QED
      BY <3>1, <3>2, <2>6 DEF Abstract!Leave
  <2>7. ASSUME NEW p \in Procs,
               Release(p) \/ MirrorDelete(p) \/ MirrorInsert(p) \/ Crash(p)
        PROVE  UNCHANGED Abstract!specVars \/ Abstract!Leave(p)
    <3>1. CASE Release(p)
      BY <3>1, <2>5, <2>6 DEF Release, Moves, Goto
    <3>2. CASE MirrorDelete(p)
      BY <3>2, <2>5, <2>6 DEF MirrorDelete, Goto
    <3>3. CASE MirrorInsert(p)
      BY <3>3, <2>6 DEF MirrorInsert, Moves, Goto
    <3>4. CASE Crash(p)
      BY <3>4, <2>6 DEF Crash, Goto
    <3> QED
      BY <2>7, <3>1, <3>2, <3>3, <3>4
  <2>8. CASE UNCHANGED vars
    <3>1. \A q \in Procs : Stage(q)' = Stage(q) /\ op'[q] = op[q]
      BY <2>8 DEF vars, Stage
    <3> QED
      BY <3>1, <2>8 DEF vars
  <2> HIDE DEF calls
  <2> QED
    BY <2>1, <2>2, <2>3, <2>4, <2>7, <2>8 DEF Next, Step
<1>3. TypeInv /\ LockInv /\ [Next]_vars => LockInv'
  BY LockInvNext, LockIsExclusive
<1> QED
  BY <1>1, <1>2, <1>3, InitType, NextType, LockInvInit, FileInvInit, FileInvNext, PTL
     DEF Spec, ImplementsAtomicStore, Abstract!Spec

(***************************************************************************)
(* The SQLite mirror.  None of this needs the lock: calls that overlap are *)
(* what `disturbed` records.                                               *)
(***************************************************************************)
\* The file is saved and the mirror has yet to follow.
MirrorOwes(p) == pc[p] \in {"unlock", "delete", "insert"}

\* While nothing has overlapped or failed: there is one call at a time, it
\* replaces what it has read, and the mirror is behind the file by exactly
\* what that call has still to do to it.
MirrorInv ==
  disturbed = {} =>
    /\ \A p, q \in Procs : pc[p] # "idle" /\ pc[q] # "idle" => p = q
    /\ LoadedIsCurrent
    /\ (\A p \in Procs : ~MirrorOwes(p)) => mirror = file.list
    /\ \A p \in Procs : pc[p] \in {"unlock", "delete"} =>
         file.list = Abstract!Effect(mirror, op[p])
    /\ \A p \in Procs : pc[p] = "insert" =>
         file.list = mirror \cup {Abstract!NewApproval(op[p])}

LEMMA MirrorInvInit == Init => MirrorInv
BY DEF Init, MirrorInv, MirrorOwes, LoadedIsCurrent, Whole

LEMMA MirrorInvNext == TypeInv /\ FileInv /\ MirrorInv /\ [Next]_vars => MirrorInv'
<1> SUFFICES ASSUME TypeInv, FileInv, MirrorInv, [Next]_vars, disturbed' = {}
             PROVE  MirrorInv'
  BY DEF MirrorInv
<1> USE DEF TypeInv, TypeOK, MirrorInv, MirrorOwes, LoadedIsCurrent
<1>0. disturbed = {}
  BY DEF Next, Step, Begin, Acquire, Load, CreateTemp, WriteTemp, Rename, Release,
         MirrorDelete, MirrorInsert, SaveFails, LockFails, Crash, vars
<1>1. ASSUME NEW p \in Procs, Begin(p) PROVE MirrorInv'
  <2>1. \A q \in Procs : pc[q] = "idle"
    BY <1>1 DEF Begin, Moves
  <2> QED
    BY <1>0, <1>1, <2>1 DEF Begin, Moves, Goto
<1>2. ASSUME NEW p \in Procs, Acquire(p) PROVE MirrorInv'
  BY <1>0, <1>2 DEF Acquire, Moves, Goto
<1>3. ASSUME NEW p \in Procs, Load(p) PROVE MirrorInv'
  BY <1>0, <1>3 DEF Load, Moves, Goto
<1>4. ASSUME NEW p \in Procs, CreateTemp(p) PROVE MirrorInv'
  BY <1>0, <1>4 DEF CreateTemp, Moves, Goto
<1>5. ASSUME NEW p \in Procs, WriteTemp(p) PROVE MirrorInv'
  BY <1>0, <1>5 DEF WriteTemp, Moves, Goto
<1>6. ASSUME NEW p \in Procs, Rename(p) PROVE MirrorInv'
  <2>1. \A q \in Procs \ {p} : pc[q] = "idle"
    BY <1>0, <1>6 DEF Rename, Moves
  <2>2. mirror = file.list
    BY <1>0, <1>6, <2>1 DEF Rename, Moves
  <2>3. loaded[p] = file.list
    BY <1>0, <1>6 DEF Rename, Moves
  <2>4. file'.list = Abstract!Effect(file.list, op[p])
    BY <1>6, <2>3, SaveIsEffect
  <2>5. file'.list = Abstract!Effect(mirror, op[p])
    BY <2>2, <2>4
  <2> QED
    BY <1>0, <1>6, <2>1, <2>5 DEF Rename, Moves, Goto
<1>7. ASSUME NEW p \in Procs, Release(p) PROVE MirrorInv'
  BY <1>0, <1>7 DEF Release, Moves, Goto
<1>8. ASSUME NEW p \in Procs, MirrorDelete(p) PROVE MirrorInv'
  <2>1. \A q \in Procs \ {p} : pc[q] = "idle"
    BY <1>0, <1>8 DEF MirrorDelete
  <2>2. mirror' = mirror \ Abstract!Targets(mirror, op[p])
    BY <1>0, <1>8 DEF MirrorDelete, Kept, Matching, SameTarget, Abstract!Targets,
                      Abstract!IsTarget
  <2>3. file' = file /\ file.list = Abstract!Effect(mirror, op[p])
    BY <1>0, <1>8 DEF MirrorDelete
  <2>4. CASE op[p].kind = "add"
    <3>1. file.list = mirror' \cup {Abstract!NewApproval(op[p])}
      BY <2>2, <2>3, <2>4 DEF Abstract!Effect
    <3> QED
      BY <1>8, <2>1, <2>3, <2>4, <3>1 DEF MirrorDelete, Goto
  <2>5. CASE op[p].kind # "add"
    <3>1. file.list = mirror'
      BY <2>2, <2>3, <2>5 DEF Abstract!Effect
    <3> QED
      BY <1>8, <2>1, <2>3, <2>5, <3>1 DEF MirrorDelete, Goto
  <2> QED
    BY <2>4, <2>5
<1>9. ASSUME NEW p \in Procs, MirrorInsert(p) PROVE MirrorInv'
  <2>1. \A q \in Procs \ {p} : pc[q] = "idle"
    BY <1>0, <1>9 DEF MirrorInsert, Moves
  <2>2. mirror' = file.list
    BY <1>0, <1>9 DEF MirrorInsert, Moves, Abstract!NewApproval
  <2> QED
    BY <1>9, <2>1, <2>2 DEF MirrorInsert, Moves, Goto
<1>10. ASSUME NEW p \in Procs, SaveFails(p) \/ LockFails(p) PROVE MirrorInv'
  BY <1>0, <1>10 DEF SaveFails, LockFails, Goto
<1>11. ASSUME NEW p \in Procs, Crash(p) PROVE MirrorInv'
  BY <1>11 DEF Crash
<1>12. CASE UNCHANGED vars
  BY <1>12 DEF vars
<1> QED
  BY <1>1, <1>2, <1>3, <1>4, <1>5, <1>6, <1>7, <1>8, <1>9, <1>10, <1>11, <1>12, [Next]_vars
     DEF Next, Step

\* After calls that neither overlapped nor failed the mirror is the file:
\* deleting and inserting rows, which knows nothing of the list that was
\* saved, comes to the same as saving it.
THEOREM MirrorIsCurrent == Spec => []MirrorFollowsFile
<1>1. MirrorInv => MirrorFollowsFile
  BY DEF MirrorInv, MirrorOwes, MirrorFollowsFile
<1> QED
  BY <1>1, InitType, NextType, FileInvInit, FileInvNext, MirrorInvInit, MirrorInvNext, PTL
     DEF Spec
=============================================================================
