--------------------------- MODULE MCApprovalStore ---------------------------
(* Instances of ApprovalStore for TLC: processes and hashes are model values *)
(* and interchangeable.                                                      *)
EXTENDS ApprovalStore, TLC

Symmetry == Permutations(Procs) \cup Permutations(Hashes)
==============================================================================
