------------------------------- MODULE MCScan -------------------------------
(* Instances of Scan for TLC.                                                *)
EXTENDS Scan, TLC

CONSTANTS lock1, lock2, reqs, root

\* Two lockfiles for osv-scanner, a requirements file for pip-audit, a root for
\* cargo-vet; the other tools find nothing they could be given.
MCCandidates ==
  [t \in ToolSet |-> CASE t = "osv-scanner" -> {lock1, lock2}
                       [] t = "pip-audit"   -> {reqs}
                       [] t = "cargo-vet"        -> {root}
                       [] OTHER             -> {}]

\* The lockfiles, and the versions, are interchangeable in every property.
Symmetry == Permutations({lock1, lock2}) \cup Permutations(Packages)
=============================================================================
