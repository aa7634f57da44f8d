------------------------------ MODULE MCEventLog ------------------------------
(* Instances of EventLog for TLC: the processes are interchangeable.         *)
EXTENDS EventLog, TLC

Symmetry == Permutations(Procs)
===============================================================================
