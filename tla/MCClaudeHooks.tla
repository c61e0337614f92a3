---------------------------- MODULE MCClaudeHooks ----------------------------
(* ClaudeHooks for TLC.                                                      *)
EXTENDS ClaudeHooks, TLC

Symmetry == Permutations(Procs)
=============================================================================
