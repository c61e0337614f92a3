--------------------------- MODULE MCSpoolPipeline ---------------------------
(* SpoolPipeline for TLC.                                                    *)
EXTENDS SpoolPipeline, TLC

Symmetry == Permutations(Pids) \cup Permutations(Records)
=============================================================================
