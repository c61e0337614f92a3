------------------------------ MODULE Delivery ------------------------------
(***************************************************************************)
(* What the store promises about a record, whatever files, processes and   *)
(* transactions carry it: once taken it waits in the spool, is stored in   *)
(* the database or is set aside for inspection, it stops waiting only when *)
(* it is one of the other two, and it never leaves those.                  *)
(***************************************************************************)
CONSTANT Records

VARIABLES
  taken,    \* the records whose call returned to the harness
  pending,  \* waiting in the spool directory
  stored,   \* committed to the database
  aside     \* in quarantine

vars == <<taken, pending, stored, aside>>

Init == taken = {} /\ pending = {} /\ stored = {} /\ aside = {}

Known == pending \cup stored \cup aside

\* A call returns when its record is in the spool or in the database; one
\* that dies before it returns may leave its record in the spool all the same.
Spool(r) ==
  /\ r \notin Known
  /\ pending' = pending \cup {r}
  /\ taken' \in {taken, taken \cup {r}}
  /\ UNCHANGED <<stored, aside>>

Write(r) ==
  /\ r \notin Known
  /\ stored' = stored \cup {r}
  /\ taken' = taken \cup {r}
  /\ UNCHANGED <<pending, aside>>

\* A file's records are committed together.  A drainer that lost a race may
\* commit records that were set aside meanwhile.
Commit(R) ==
  /\ R \subseteq pending \cup aside
  /\ stored' = stored \cup R
  /\ UNCHANGED <<taken, pending, aside>>

Settle(R) ==
  /\ R \subseteq pending \cap stored
  /\ pending' = pending \ R
  /\ UNCHANGED <<taken, stored, aside>>

SetAside(R) ==
  /\ R \subseteq pending
  /\ pending' = pending \ R
  /\ aside' = aside \cup R
  /\ UNCHANGED <<taken, stored>>

Next ==
  \/ \E r \in Records : Spool(r) \/ Write(r)
  \/ \E R \in SUBSET Records : Commit(R) \/ Settle(R) \/ SetAside(R)

Spec == Init /\ [][Next]_vars
=============================================================================
