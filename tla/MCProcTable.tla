---------------------------- MODULE MCProcTable ----------------------------
(* Instances of the process table for TLC. *)
EXTENDS ProcTable, TLC

\* The processors are interchangeable.
Symm == Permutations(CPUs)

\* A bound of the search for the lock cycle: behaviours in which nobody has to
\* sleep suffice, and those left out can only hold more counterexamples.
NobodySleeps == \A p \in Slots : state[p] # "SLEEPING"
=============================================================================
