---------------------------- MODULE MCPiExtension ----------------------------
(* PiExtension for TLC.                                                      *)
EXTENDS PiExtension

CONSTANT f1

\* A session is resumed, or two in turn have no file.
TwoLoads == {<<f1, f1>>, <<Ephemeral, Ephemeral>>}
=============================================================================
