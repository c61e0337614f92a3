----------------------------- MODULE MCDatabase -----------------------------
(* Database for TLC: a build is named after the newest version it knows.     *)
EXTENDS Database, TLC

Symmetry == Permutations(Processes)

\* The code's own build, one that knows a second version and supports both,
\* and one so new that the first one's window ends before it.
Known == [b \in {1, 2, 4} |-> b]
Supported == (1 :> 1) @@ (2 :> 1) @@ (4 :> 4)
=============================================================================
