------------------------------ MODULE MCInbox ------------------------------
(* Instances of Inbox for TLC: processes, runs, models and packages are      *)
(* interchangeable in every property.                                        *)
EXTENDS Inbox, TLC

\* Runs that may and that may not be approved, among them one without exact
\* identities and one without artifacts.
MCReports ==
  { [verdict |-> Prompt, artifacts |-> Packages, exact |-> TRUE],
    [verdict |-> Prompt, artifacts |-> Packages, exact |-> FALSE],
    [verdict |-> Allow,  artifacts |-> {}, exact |-> TRUE],
    [verdict |-> Block,  artifacts |-> Packages, exact |-> TRUE] }

\* For the list: runs that may and that may not await a decision.
MCListed ==
  { [verdict |-> Prompt, artifacts |-> Packages, exact |-> TRUE],
    [verdict |-> Allow,  artifacts |-> {}, exact |-> TRUE] }

Symmetry == Permutations(Procs) \cup Permutations(Models) \cup Permutations(Packages)
            \cup Permutations(Runs)
=============================================================================
