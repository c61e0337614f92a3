---------------------------- MODULE MCCursorHooks ----------------------------
(* CursorHooks for TLC.                                                      *)
EXTENDS CursorHooks, TLC

Symmetry == Permutations(Procs) \cup Permutations(Tools)

\* Payloads with ids, and transcripts with those ids; neither has them.
WithIds == [named |-> TRUE, same |-> TRUE]
OwnIds == [named |-> TRUE, same |-> FALSE]
NoIds == [named |-> FALSE, same |-> FALSE]
Versions == {WithIds, NoIds}
Wrapped == {OwnIds}
=============================================================================
