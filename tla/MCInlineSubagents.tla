------------------------- MODULE MCInlineSubagents -------------------------
(* Instances of InlineSubagents for TLC. *)
EXTENDS InlineSubagents, TLC

\* For safety runs without temporal formulas only.
Symmetry == Permutations(Task)
============================================================================
