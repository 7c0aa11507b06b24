-------------------------- MODULE MCSubagentQueue --------------------------
(* Instances of SubagentQueue for TLC. *)
EXTENDS SubagentQueue, TLC

\* Tasks, workers and cancel calls of the same kind are interchangeable.  Used
\* for safety runs only: TLC does not check liveness under symmetry.
Symmetry == Permutations(Task) \cup Permutations(Executor) \cup Permutations(Caller)
============================================================================
