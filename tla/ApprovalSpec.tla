---------------------------- MODULE ApprovalSpec ----------------------------
(***************************************************************************)
(* What the approval store promises: `lsec approvals add`, `lsec approvals *)
(* revoke` and `lsec inbox approve-once` behave as if every call changed   *)
(* one set of approvals in a single step, taken between the moment the     *)
(* call starts and the moment it returns.  A call that fails or dies       *)
(* before that step has no effect at all.                                  *)
(*                                                                         *)
(* ApprovalStore is the detailed specification (lock file, load, temporary *)
(* file, rename); it is shown to implement this one.                       *)
(***************************************************************************)
CONSTANTS
  Procs,      \* processes that may run the CLI at the same time
  Packages,   \* <ecosystem, name, version> triples
  Hashes,     \* lowercase 64-hex SHA256 values
  AnyHash,    \* `approvals revoke` without a hash: none of Hashes
  Times       \* creation times

VARIABLES
  approved,   \* the set of approvals every reader sees
  call        \* the call each process is in: its stage and its operation

specVars == <<approved, call>>

\* One persistent approval; `at` stands for the reason and the creation time.
Approval == [pkg : Packages, hash : Hashes, at : Times]

AddOp    == [kind : {"add"}, pkg : Packages, hash : Hashes, at : Times]
RevokeOp == [kind : {"revoke"}, pkg : Packages, hash : Hashes \cup {AnyHash}, at : Times]
NoOp     == [kind |-> "none"]
Op       == AddOp \cup RevokeOp

\* The approvals an operation is about: for an add the exact record, for a
\* revoke every hash of the package when no hash is given.
IsTarget(r, o) == r.pkg = o.pkg /\ (o.hash = AnyHash \/ r.hash = o.hash)
Targets(s, o)  == {r \in s : IsTarget(r, o)}

NewApproval(o) == [pkg |-> o.pkg, hash |-> o.hash, at |-> o.at]

\* The set the store holds after the operation took effect.
Effect(s, o) ==
  IF o.kind = "add" THEN (s \ Targets(s, o)) \cup {NewApproval(o)}
                    ELSE s \ Targets(s, o)

SpecTypeOK ==
  /\ approved \subseteq Approval
  /\ call \in [Procs -> [stage : {"idle", "pending", "done", "failed"}, op : Op \cup {NoOp}]]

SpecInit ==
  /\ approved = {}
  /\ call = [p \in Procs |-> [stage |-> "idle", op |-> NoOp]]

Start(p) ==
  /\ call[p].stage = "idle"
  /\ \E o \in Op : call' = [call EXCEPT ![p] = [stage |-> "pending", op |-> o]]
  /\ UNCHANGED approved

\* The one step at which the call takes effect.
TakeEffect(p) ==
  /\ call[p].stage = "pending"
  /\ approved' = Effect(approved, call[p].op)
  /\ call' = [call EXCEPT ![p].stage = "done"]

Refuse(p) ==
  /\ call[p].stage = "pending"
  /\ call' = [call EXCEPT ![p].stage = "failed"]
  /\ UNCHANGED approved

\* The call returns, or its process dies: nothing more happens to the set.
Leave(p) ==
  /\ call[p].stage # "idle"
  /\ call' = [call EXCEPT ![p] = [stage |-> "idle", op |-> NoOp]]
  /\ UNCHANGED approved

SpecNext == \E p \in Procs : Start(p) \/ TakeEffect(p) \/ Refuse(p) \/ Leave(p)

Spec == SpecInit /\ [][SpecNext]_specVars
=============================================================================
