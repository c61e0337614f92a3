------------------------------ MODULE MCPiImport ------------------------------
(* PiImport for TLC.                                                         *)
EXTENDS PiImport, TLC

\* A message of the legacy database, and one without its session.
Old == {[call |-> -1, orphan |-> FALSE], [call |-> -2, orphan |-> TRUE]}

Symmetry == Permutations(Tokens)
=============================================================================
