------------------------------ MODULE Database ------------------------------
(***************************************************************************)
(* Opening the database: processes of different builds connect, compare    *)
(* the schema's version with the versions they support, and run the        *)
(* migration sets that are missing, each in a transaction that begins with *)
(* the write lock and looks at the version again.                          *)
(*                                                                         *)
(* The code has one migration set so far.  A build of the model knows the  *)
(* sets up to its newest version, as MIGRATION_SETS, the re-check and the  *)
(* forward window are written for.                                         *)
(*                                                                         *)
(* A read of the version is one step: the table that holds it appears      *)
(* together with it and stays, so the code's two queries find what one     *)
(* query finds, at the first (no table) or at the second.                  *)
(***************************************************************************)
EXTENDS Naturals

CONSTANTS
  Processes,
  NoProcess,
  MinSupported, MaxKnown,  \* build -> the versions it supports
  Builds,
  Window,     \* SCHEMA_FORWARD_WINDOW
  Newest,     \* the newest version of any build
  FileCount,  \* SQL files in a migration set
  MaxFaults   \* bound on crashes, unreadable files and unreachable databases

Versions == 0 .. Newest

ASSUME ProcessAssumption == NoProcess \notin Processes
ASSUME NumbersAssumption ==
  Window \in Nat /\ Newest \in Nat /\ FileCount \in Nat \ {0} /\ MaxFaults \in Nat
ASSUME BuildsAssumption ==
  /\ MinSupported \in [Builds -> 1 .. Newest]
  /\ MaxKnown \in [Builds -> 1 .. Newest]
  /\ \A b \in Builds : MinSupported[b] <= MaxKnown[b]

Sets == 1 .. Newest
Files == 1 .. FileCount

VARIABLES
  version,       \* schema_version; 0 while schema_metadata is absent
  runs,          \* how often each file's SQL has been executed and committed
  draftVersion,  \* the same two, as the holder of the write lock sees them
  draftRuns,
  lock,          \* the process with the write lock, or NoProcess
  pc,            \* where a process is in its open
  build,         \* the build it runs
  reason,        \* why it can only spool
  set, file,     \* the migration set and the file it is at
  began,         \* the version when its open began (history)
  faults

database == <<version, runs>>
draft == <<draftVersion, draftRuns>>
migration == <<set, file>>
vars == <<database, draft, lock, pc, build, reason, migration, began, faults>>

Places == {"closed", "opening", "comparing", "migrating", "sets", "running",
           "checking", "writable", "spooling", "refused"}
Reasons == {"none", "degraded", "unexpected", "busy", "failed"}

TypeOK ==
  /\ version \in Versions /\ draftVersion \in Versions
  /\ runs \in [Sets -> [Files -> Nat]] /\ draftRuns \in [Sets -> [Files -> Nat]]
  /\ lock \in Processes \cup {NoProcess}
  /\ pc \in [Processes -> Places]
  /\ build \in [Processes -> Builds]
  /\ reason \in [Processes -> Reasons]
  /\ set \in [Processes -> 1 .. Newest + 1]
  /\ file \in [Processes -> 1 .. FileCount + 1]
  /\ began \in [Processes -> Versions]
  /\ faults \in 0 .. MaxFaults

-----------------------------------------------------------------------------

Init ==
  /\ version = 0 /\ runs = [s \in Sets |-> [f \in Files |-> 0]]
  /\ draftVersion = 0 /\ draftRuns = runs
  /\ lock = NoProcess
  /\ pc = [p \in Processes |-> "closed"]
  /\ build \in [Processes -> Builds]
  /\ reason = [p \in Processes |-> "none"]
  /\ set = [p \in Processes |-> 1]
  /\ file = [p \in Processes |-> 1]
  /\ began = [p \in Processes |-> 0]
  /\ faults = 0

At(p, place) == pc[p] = place
Goto(p, place) == pc' = [pc EXCEPT ![p] = place]
Spools(p, why) == Goto(p, "spooling") /\ reason' = [reason EXCEPT ![p] = why]
Fault == faults < MaxFaults /\ faults' = faults + 1

\* Mutant: a version within the forward window may be written to.
StatusLenient(b, v) ==
  IF v < MinSupported[b] THEN "needs_migration"
  ELSE IF v <= MaxKnown[b] + Window THEN "ok" ELSE "too_new"

\* What the version means to a build.
Status(b, v) ==
  IF v < MinSupported[b] THEN "needs_migration"
  ELSE IF v <= MaxKnown[b] THEN "ok"
  ELSE IF v <= MaxKnown[b] + Window THEN "degraded" ELSE "too_new"

StatusOf(p) == Status(build[p], version)

\* A process starts, of an installed build, and opens the store.
Start(p, b) ==
  /\ At(p, "closed") /\ Goto(p, "opening")
  /\ build' = [build EXCEPT ![p] = b]
  /\ began' = [began EXCEPT ![p] = version]
  /\ UNCHANGED <<database, draft, lock, reason, migration, faults>>

\* It connects and sets its pragmas, if need be after some retries.
Connect(p) ==
  /\ At(p, "opening") /\ Goto(p, "comparing")
  /\ UNCHANGED <<database, draft, lock, build, reason, migration, began, faults>>

\* Someone else has the database open and may keep it busy.
Contended(p) ==
  \E q \in Processes \ {p} : pc[q] \in {"comparing", "running", "writable"}

\* The retries are used up, or a migration has waited for the lock too long.
Busy(p) ==
  /\ pc[p] \in {"opening", "sets"} /\ Contended(p)
  /\ Spools(p, "busy")
  /\ UNCHANGED <<database, draft, lock, build, migration, began, faults>>

Compare(p) ==
  /\ At(p, "comparing")
  /\ \/ StatusOf(p) = "too_new" /\ Goto(p, "refused") /\ UNCHANGED reason
     \/ StatusOf(p) = "degraded" /\ Spools(p, "degraded")
     \/ StatusOf(p) = "needs_migration" /\ Goto(p, "migrating") /\ UNCHANGED reason
     \/ StatusOf(p) = "ok" /\ Goto(p, "writable") /\ UNCHANGED reason
  /\ UNCHANGED <<database, draft, lock, build, migration, began, faults>>

\* runMigrations reads the version once and skips the sets it covers.
CurrentVersion(p) ==
  /\ At(p, "migrating") /\ Goto(p, "sets")
  /\ set' = [set EXCEPT ![p] = version + 1]
  /\ UNCHANGED <<database, draft, lock, build, reason, file, began, faults>>

Pending(p) == At(p, "sets") /\ set[p] <= MaxKnown[build[p]] /\ lock = NoProcess

\* Mutant: a transaction that does not look at the version again.
BeginSetUnchecked(p) ==
  /\ Pending(p)
  /\ lock' = p /\ Goto(p, "running")
  /\ file' = [file EXCEPT ![p] = 1]
  /\ UNCHANGED <<database, draft, build, reason, set, began, faults>>

\* A set's transaction begins with the lock and finds the set missing.
BeginSet(p) ==
  /\ Pending(p) /\ version < set[p]
  /\ lock' = p /\ Goto(p, "running")
  /\ file' = [file EXCEPT ![p] = 1]
  /\ UNCHANGED <<database, draft, build, reason, set, began, faults>>

\* Or finds that another process has applied it meanwhile.
SkipSet(p) ==
  /\ Pending(p) /\ version >= set[p]
  /\ set' = [set EXCEPT ![p] = @ + 1]
  /\ UNCHANGED <<database, draft, lock, pc, build, reason, file, began, faults>>

\* Mutant: the version moves on with every file of a set.
RunFileCounts(p) ==
  /\ At(p, "running") /\ file[p] <= FileCount
  /\ draftRuns' = [draftRuns EXCEPT ![set[p]][file[p]] = @ + 1]
  /\ draftVersion' = set[p] + file[p]
  /\ file' = [file EXCEPT ![p] = @ + 1]
  /\ UNCHANGED <<database, lock, pc, build, reason, set, began, faults>>

\* One file's SQL; a set's first file moves the version.
RunFile(p) ==
  /\ At(p, "running") /\ file[p] <= FileCount
  /\ draftRuns' = [draftRuns EXCEPT ![set[p]][file[p]] = @ + 1]
  /\ draftVersion' = IF file[p] = 1 THEN set[p] ELSE draftVersion
  /\ file' = [file EXCEPT ![p] = @ + 1]
  /\ UNCHANGED <<database, lock, pc, build, reason, set, began, faults>>

CommitSet(p) ==
  /\ At(p, "running") /\ file[p] > FileCount
  /\ version' = draftVersion /\ runs' = draftRuns
  /\ lock' = NoProcess /\ Goto(p, "sets")
  /\ set' = [set EXCEPT ![p] = @ + 1]
  /\ UNCHANGED <<draft, build, reason, file, began, faults>>

SetsDone(p) ==
  /\ At(p, "sets") /\ set[p] > MaxKnown[build[p]] /\ Goto(p, "checking")
  /\ UNCHANGED <<database, draft, lock, build, reason, migration, began, faults>>

\* The status once more: a newer build may have gone further.
Check(p) ==
  /\ At(p, "checking")
  /\ \/ StatusOf(p) = "ok" /\ Goto(p, "writable") /\ UNCHANGED reason
     \/ StatusOf(p) # "ok" /\ Spools(p, "unexpected")
  /\ UNCHANGED <<database, draft, lock, build, migration, began, faults>>

\* What a transaction has done is gone with the connection.
Rollback(p) ==
  /\ IF lock = p THEN lock' = NoProcess /\ draftVersion' = version /\ draftRuns' = runs
                 ELSE UNCHANGED <<lock, draft>>
  /\ UNCHANGED database

\* A process that ends remembers nothing.
End(p) ==
  /\ Goto(p, "closed")
  /\ reason' = [reason EXCEPT ![p] = "none"]
  /\ set' = [set EXCEPT ![p] = 1] /\ file' = [file EXCEPT ![p] = 1]
  /\ began' = [began EXCEPT ![p] = 0]
  /\ UNCHANGED build

\* The database cannot be opened, or a migration file cannot be read.
Fail(p) ==
  /\ pc[p] \in {"opening", "running"} /\ Fault
  /\ Spools(p, "failed") /\ Rollback(p)
  /\ UNCHANGED <<build, migration, began>>

\* The writer is closed; a refused process ends.
Close(p) ==
  /\ pc[p] \in {"writable", "spooling", "refused"} /\ End(p)
  /\ UNCHANGED <<database, draft, lock, faults>>

Crash(p) == ~ At(p, "closed") /\ Fault /\ End(p) /\ Rollback(p)

Step(p) ==
  \/ Connect(p) \/ Busy(p) \/ Compare(p) \/ CurrentVersion(p)
  \/ BeginSet(p) \/ SkipSet(p) \/ RunFile(p) \/ CommitSet(p)
  \/ SetsDone(p) \/ Check(p)

Next ==
  \E p \in Processes :
    \/ \E b \in Builds : Start(p, b)
    \/ Step(p) \/ Fail(p) \/ Close(p) \/ Crash(p)

Spec == Init /\ [][Next]_vars

-----------------------------------------------------------------------------

\* The sets up to the version have run, whole and exactly once, and no part
\* of a later one, whichever builds race and die in the middle of a set.
\* This is what "each set runs exactly once" in migrations.ts comes to; an
\* ALTER TABLE executed twice would throw.
SetsWhole ==
  \A s \in Sets, f \in Files : runs[s][f] = IF s <= version THEN 1 ELSE 0

\* What an open answers is so: a writable store has a schema the build can
\* write to, and had none that is too new when the open began; a store is
\* called degraded, unexpected after the migration or too new only when
\* another build has moved it past what this one knows, never because this
\* one's own migration stopped short.
OutcomesJustified ==
  \A p \in Processes :
    /\ At(p, "writable") =>
         version >= MinSupported[build[p]] /\ began[p] <= MaxKnown[build[p]]
    /\ reason[p] \in {"degraded", "unexpected"} => version > MaxKnown[build[p]]
    /\ At(p, "refused") => version > MaxKnown[build[p]] + Window
=============================================================================
