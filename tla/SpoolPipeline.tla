---------------------------- MODULE SpoolPipeline ----------------------------
(***************************************************************************)
(* The NDJSON spool of the store: the files AnalyticsWriter and            *)
(* SpoolWriter append to and rotate, the daemon and the manual ingest that *)
(* promote, drain and quarantine them, and the database they commit to.    *)
(* Every file system call and every SQLite transaction is a step of its    *)
(* own, so the steps of different processes interleave; a process may be   *)
(* killed between any two of them.                                         *)
(*                                                                         *)
(* A record is one record*() call.  A directory is a function from the     *)
(* names present in it to file contents; a file content is the set of its  *)
(* records and whether some line is torn (the next line of a process that  *)
(* takes over the pid is glued to it).  What a record says is the business *)
(* of DrainEngine.                                                         *)
(***************************************************************************)
EXTENDS Naturals, FiniteSets

CONSTANTS
  Pids,        \* process ids a writer of this harness may run under
  Records,     \* record calls, each made at most once
  Daemons,     \* `token-tally daemon` processes
  Ingesters,   \* manual `token-tally ingest` processes
  WriterModes, \* the values dbState.writable may take at open
  MaxFiles,    \* bound on the files one directory pass attempts
  MaxFaults,   \* bound on crashes and environment faults in a behaviour
  StampReuse   \* may two rotations of one file read the same Date.now()?

ASSUME ProcessesAssumption ==
  /\ Pids \cap Daemons = {}
  /\ Pids \cap Ingesters = {}
  /\ Daemons \cap Ingesters = {}
ASSUME WriterModesAssumption == WriterModes \subseteq BOOLEAN
ASSUME BoundsAssumption == MaxFiles \in Nat \ {0} /\ MaxFaults \in Nat
ASSUME StampReuseAssumption == StampReuse \in BOOLEAN

Drainers == Daemons \cup Ingesters
Procs == Pids \cup Drainers

VARIABLES
  live,      \* what runs under each pid, and how far its close() has come
  writable,  \* dbState.writable of the writer under each pid
  onClose,   \* its option drain.onClose
  active,    \* <harness>-<pid>.ndjson, for the pids that have one
  aged,      \* the pids whose active file has an mtime older than minAgeMs
  stamp,     \* per pid, the millisecond of the latest rename of its file
  closed,    \* the *.ndjson.closed files of the spool directory
  failed,    \* the files of the quarantine directory
  stored,    \* the records committed to SQLite
  twice,     \* the records some transaction committed again
  called,    \* the record calls made so far
  accepted,  \* the record calls that returned to the harness
  pc,        \* where each process is in its drain or promotion loop
  todo,      \* the closed files its pass has still to attempt
  scan,      \* the active files a daemon's promotion has still to look at
  cur,       \* the file being drained, or the active file being promoted
  buf,       \* the records read from it
  faults     \* how many faults have happened

fileVars == <<active, aged, stamp, closed, failed>>
dbVars == <<stored, twice>>
callVars == <<called, accepted>>
writerVars == <<live, writable, onClose>>
loopVars == <<pc, todo, scan, cur, buf>>
vars == <<fileVars, dbVars, callVars, writerVars, loopVars, faults>>

Kinds == {"rotated", "promoted", "manual"}
Names == Pids \X Kinds \X Nat
Content == [recs : SUBSET Records, torn : BOOLEAN]
Empty == [recs |-> {}, torn |-> FALSE]
None == <<>>

\* Directory operations: rename onto a name replaces what it named.
Put(dir, n, c) == [x \in DOMAIN dir \cup {n} |-> IF x = n THEN c ELSE dir[x]]
Drop(dir, n) == [x \in DOMAIN dir \ {n} |-> dir[x]]
Recs(dir) == UNION {dir[n].recs : n \in DOMAIN dir}

Fault == faults < MaxFaults /\ faults' = faults + 1

-----------------------------------------------------------------------------
Init ==
  /\ live = [w \in Pids |-> "none"]
  /\ writable = [w \in Pids |-> FALSE]
  /\ onClose = [w \in Pids |-> FALSE]
  /\ active = [w \in {} |-> Empty]
  /\ aged = {}
  /\ stamp = [w \in Pids |-> 0]
  /\ closed = [n \in {} |-> Empty]
  /\ failed = [n \in {} |-> Empty]
  /\ stored = {} /\ twice = {}
  /\ called = {} /\ accepted = {}
  /\ pc = [p \in Procs |-> "idle"]
  /\ todo = [p \in Procs |-> {}]
  /\ scan = [d \in Daemons |-> {}]
  /\ cur = [p \in Procs |-> None]
  /\ buf = [p \in Procs |-> {}]
  /\ faults = 0

-----------------------------------------------------------------------------
(* A directory pass: it works on the names it listed, in readdir's order,  *)
(* up to maxFiles of them or until maxMs has passed.                       *)

Listings == {S \in SUBSET DOMAIN closed : S # {} /\ Cardinality(S) <= MaxFiles}

StartPass(p, S) ==
  /\ pc' = [pc EXCEPT ![p] = "pick"]
  /\ todo' = [todo EXCEPT ![p] = S]
  /\ UNCHANGED <<scan, cur, buf>>

\* Mutant: an unreadable file is given up without its path.
ReadForgetsPath(p) ==
  /\ pc[p] = "pick"
  /\ \E f \in todo[p] :
       IF f \in DOMAIN closed /\ ~closed[f].torn
         THEN /\ cur' = [cur EXCEPT ![p] = f]
              /\ pc' = [pc EXCEPT ![p] = "read"]
              /\ buf' = [buf EXCEPT ![p] = closed[f].recs]
         ELSE /\ pc' = [pc EXCEPT ![p] = "error"]
              /\ UNCHANGED <<cur, buf>>
  /\ UNCHANGED <<todo, scan, fileVars, dbVars, callVars, writerVars, faults>>

\* readFileSync and JSON.parse of every line; a missing file and a torn line
\* are errors.
Read(p) ==
  /\ pc[p] = "pick"
  /\ \E f \in todo[p] :
       /\ cur' = [cur EXCEPT ![p] = f]
       /\ IF f \in DOMAIN closed /\ ~closed[f].torn
            THEN /\ pc' = [pc EXCEPT ![p] = "read"]
                 /\ buf' = [buf EXCEPT ![p] = closed[f].recs]
            ELSE /\ pc' = [pc EXCEPT ![p] = "error"]
                 /\ UNCHANGED buf
  /\ UNCHANGED <<todo, scan, fileVars, dbVars, callVars, writerVars, faults>>

\* db.transaction(drainBatch): all the records of the file, or none.
Commit(p) ==
  /\ pc[p] = "read"
  /\ stored' = stored \cup buf[p]
  /\ twice' = twice \cup (stored \cap buf[p])
  /\ pc' = [pc EXCEPT ![p] = "committed"]
  /\ UNCHANGED <<todo, scan, cur, buf, fileVars, callVars, writerVars, faults>>

\* Mutant: the error of the transaction is swallowed.
CommitSwallows(p) ==
  /\ pc[p] = "read"
  /\ pc' = [pc EXCEPT ![p] = "committed"]
  /\ UNCHANGED <<todo, scan, cur, buf, fileVars, dbVars, callVars, writerVars,
                 faults>>

\* The transaction throws, SQLITE_BUSY included: drains do not retry it.
CommitThrows(p) ==
  /\ pc[p] = "read"
  /\ pc' = [pc EXCEPT ![p] = "error"]
  /\ UNCHANGED <<todo, scan, cur, buf, fileVars, dbVars, callVars, writerVars,
                 faults>>

FileDone(p) ==
  /\ todo' = [todo EXCEPT ![p] = @ \ {cur[p]}]
  /\ pc' = [pc EXCEPT ![p] = IF todo'[p] = {} THEN "idle" ELSE "pick"]
  /\ cur' = [cur EXCEPT ![p] = None]
  /\ buf' = [buf EXCEPT ![p] = {}]
  /\ UNCHANGED scan

\* Mutant: a committed file is not unlinked.
UnlinkForgotten(p) ==
  /\ pc[p] = "committed"
  /\ FileDone(p)
  /\ UNCHANGED <<fileVars, dbVars, callVars, writerVars, faults>>

\* unlinkSync throws when another drainer has removed the file meanwhile.
Unlink(p) ==
  /\ pc[p] = "committed"
  /\ \/ /\ cur[p] \in DOMAIN closed
        /\ closed' = Drop(closed, cur[p])
        /\ FileDone(p)
     \/ /\ cur[p] \notin DOMAIN closed
        /\ pc' = [pc EXCEPT ![p] = "error"]
        /\ UNCHANGED <<closed, todo, scan, cur, buf>>
  /\ UNCHANGED <<active, aged, stamp, failed, dbVars, callVars, writerVars,
                 faults>>

\* Mutant: a file that failed is deleted.
QuarantineDeletes(p) ==
  /\ pc[p] = "error"
  /\ closed' = Drop(closed, cur[p])
  /\ FileDone(p)
  /\ UNCHANGED <<active, aged, stamp, failed, dbVars, callVars, writerVars, faults>>

\* Mutant: a file that failed stays where it is.
QuarantineNever(p) ==
  /\ pc[p] = "error"
  /\ FileDone(p)
  /\ UNCHANGED <<fileVars, dbVars, callVars, writerVars, faults>>

\* quarantineSpoolFile: a rename that replaces a file of the same name; every
\* exception is swallowed, and one before the rename (a full disk, a missing
\* permission) leaves the file where it is.
Quarantine(p) ==
  /\ pc[p] = "error"
  /\ \/ /\ cur[p] \in DOMAIN closed
        /\ failed' = Put(failed, cur[p], closed[cur[p]])
        /\ closed' = Drop(closed, cur[p])
        /\ UNCHANGED faults
     \/ /\ cur[p] \notin DOMAIN closed
        /\ UNCHANGED <<failed, closed, faults>>
     \/ /\ cur[p] \in DOMAIN closed
        /\ Fault
        /\ UNCHANGED <<failed, closed>>
  /\ FileDone(p)
  /\ UNCHANGED <<active, aged, stamp, dbVars, callVars, writerVars>>

DrainStep(p) ==
  Read(p) \/ Commit(p) \/ CommitThrows(p) \/ Unlink(p) \/ Quarantine(p)

\* A killed process forgets what it had read and listed.
Forget(p, where) ==
  /\ pc' = [pc EXCEPT ![p] = where]
  /\ todo' = [todo EXCEPT ![p] = {}]
  /\ cur' = [cur EXCEPT ![p] = None]
  /\ buf' = [buf EXCEPT ![p] = {}]

-----------------------------------------------------------------------------
(* Writer processes                                                        *)

\* The writer under w is gone, and its options with it.
Gone(w) ==
  /\ live' = [live EXCEPT ![w] = "none"]
  /\ writable' = [writable EXCEPT ![w] = FALSE]
  /\ onClose' = [onClose EXCEPT ![w] = FALSE]

\* The millisecond a rotation of the active file of w may be stamped with.
Stamps(w) ==
  {stamp[w] + 1} \cup (IF StampReuse /\ stamp[w] > 0 THEN {stamp[w]} ELSE {})

\* Mutant: the next rename does not know of this one.
CloseFileUnstamped(w, kind, n) ==
  /\ stamp' = stamp
  /\ closed' = Put(closed, <<w, kind, n>>, active[w])

\* The active file of w becomes the closed file <<w, kind, n>>.
CloseFile(w, kind, n) ==
  /\ stamp' = [stamp EXCEPT ![w] = n]
  /\ closed' = Put(closed, <<w, kind, n>>, active[w])

\* AnalyticsWriter.open: whether the database is writable is found out here
\* and not again; drain.onOpen sweeps the directory before open returns.
Open(w) ==
  /\ live[w] = "none"
  /\ live' = [live EXCEPT ![w] = "writer"]
  /\ \E m \in WriterModes, c \in BOOLEAN :
       /\ writable' = [writable EXCEPT ![w] = m]
       /\ onClose' = [onClose EXCEPT ![w] = m /\ c]
       /\ \/ UNCHANGED loopVars
          \/ m /\ \E S \in Listings : StartPass(w, S)
  /\ UNCHANGED <<callVars, fileVars, dbVars, faults>>

\* JavaScript runs the writer's calls one after the other.
Ready(w) == live[w] = "writer" /\ pc[w] = "idle"

Return(r) ==
  /\ called' = called \cup {r}
  /\ accepted' = accepted \cup {r}

\* withDbOrSpool, the database branch.
RecordLive(w, r) ==
  /\ Ready(w) /\ writable[w] /\ r \notin called
  /\ stored' = stored \cup {r}
  /\ Return(r)
  /\ UNCHANGED <<twice, fileVars, writerVars, loopVars, faults>>

Present(w) == IF w \in DOMAIN active THEN active[w] ELSE Empty

\* SpoolWriter.write up to its append: the file the line will go to, after a
\* rotation when the present one is over 4 MiB or an hour old.
NextFile(w, c) ==
  \/ c = Present(w) /\ UNCHANGED <<stamp, closed>>
  \/ /\ w \in DOMAIN active /\ active[w] # Empty
     /\ c = Empty
     /\ \E n \in Stamps(w) : CloseFile(w, "rotated", n)

WithLine(c, r) == [c EXCEPT !.recs = @ \cup {r}]

\* withDbOrSpool, the spool branch: the writer is spool-only, or the database
\* stayed busy or failed with an I/O error.
RecordSpool(w, r) ==
  /\ Ready(w) /\ r \notin called
  /\ \E c \in {Present(w), Empty} :
       /\ NextFile(w, c)
       /\ active' = Put(active, w, WithLine(c, r))
  /\ aged' = aged \ {w}
  /\ Return(r)
  /\ UNCHANGED <<failed, dbVars, writerVars, loopVars, faults>>

\* The writer is killed inside appendFileSync: the file is created, holds a
\* part of the line, or all of it, and the call has not returned.
CrashInAppend(w, r) ==
  /\ Ready(w) /\ r \notin called
  /\ Fault
  /\ \E c \in {Present(w), Empty} :
       /\ NextFile(w, c)
       /\ \E after \in {c, [c EXCEPT !.torn = TRUE], WithLine(c, r)} :
            active' = Put(active, w, after)
  /\ aged' = aged \ {w}
  /\ called' = called \cup {r}
  /\ Gone(w)
  /\ UNCHANGED <<failed, dbVars, accepted, loopVars>>

\* SpoolWriter.rotate: nothing without a file, an empty file is unlinked and
\* another one renamed.  S is what there is to drain then.
Rotate(w, S) ==
  \/ /\ w \notin DOMAIN active
     /\ S = {}
     /\ UNCHANGED <<active, stamp, closed>>
  \/ /\ w \in DOMAIN active /\ active[w] = Empty
     /\ S = {}
     /\ active' = Drop(active, w)
     /\ UNCHANGED <<stamp, closed>>
  \/ /\ w \in DOMAIN active /\ active[w] # Empty
     /\ \E n \in Stamps(w) : S = {<<w, "rotated", n>>} /\ CloseFile(w, "rotated", n)
     /\ active' = Drop(active, w)

\* flush() and close(): rotate, then a writable writer drains the file it has
\* just closed.  how is "flush" or "close".
Finish(w, how) ==
  /\ Ready(w)
  /\ live' = [live EXCEPT ![w] = how]
  /\ \E S \in SUBSET ({w} \X {"rotated"} \X Stamps(w)) :
       /\ Rotate(w, S)
       /\ IF writable[w] /\ S # {} THEN StartPass(w, S) ELSE UNCHANGED loopVars
  /\ aged' = aged \ {w}
  /\ UNCHANGED <<failed, dbVars, callVars, writable, onClose, faults>>

\* With drain.onClose they sweep the directory afterwards.
Sweep(w) ==
  /\ live[w] \in {"flush", "close"} /\ pc[w] = "idle" /\ onClose[w]
  /\ live' = [live EXCEPT ![w] = IF @ = "flush" THEN "flush sweep" ELSE "close sweep"]
  /\ \E S \in Listings : StartPass(w, S)
  /\ UNCHANGED <<writable, onClose, fileVars, dbVars, callVars, faults>>

Finished(w) ==
  /\ pc[w] = "idle"
  /\ live[w] \in {"flush", "close"} => ~onClose[w] \/ DOMAIN closed = {}
  /\ \/ /\ live[w] \in {"flush", "flush sweep"}
        /\ live' = [live EXCEPT ![w] = "writer"]
        /\ UNCHANGED <<writable, onClose>>
     \/ live[w] \in {"close", "close sweep"} /\ Gone(w)
  /\ UNCHANGED <<callVars, fileVars, dbVars, loopVars, faults>>

\* SIGKILL, power loss, or a harness that exits without close().
Crash(w) ==
  /\ live[w] \notin {"none", "foreign"}
  /\ Fault
  /\ Gone(w)
  /\ Forget(w, "idle")
  /\ UNCHANGED <<scan, callVars, fileVars, dbVars>>

\* The pid of a dead writer goes to a process that is none of ours.
Foreign(w) ==
  /\ \/ live[w] = "none" /\ live' = [live EXCEPT ![w] = "foreign"]
     \/ live[w] = "foreign" /\ live' = [live EXCEPT ![w] = "none"]
  /\ UNCHANGED <<writable, onClose, fileVars, dbVars, callVars, loopVars, faults>>

\* Five minutes without a write.
Age(w) ==
  /\ w \in DOMAIN active \ aged
  /\ aged' = aged \cup {w}
  /\ UNCHANGED <<active, stamp, closed, failed, dbVars, callVars, writerVars,
                 loopVars, faults>>

WriterStep(w) ==
  \/ Open(w) \/ Finish(w, "flush") \/ Finish(w, "close") \/ Sweep(w) \/ Finished(w)
  \/ Crash(w) \/ Foreign(w) \/ Age(w)
  \/ \E r \in Records : RecordLive(w, r) \/ RecordSpool(w, r) \/ CrashInAppend(w, r)

-----------------------------------------------------------------------------
(* The daemon: promote stale active files, drain a bounded pass, sleep.    *)

StartPromotion(d) ==
  /\ pc[d] = "idle"
  /\ pc' = [pc EXCEPT ![d] = "scan"]
  /\ scan' = [scan EXCEPT ![d] = DOMAIN active]
  /\ UNCHANGED <<todo, cur, buf, fileVars, dbVars, callVars, writerVars, faults>>

\* Mutant: the comparison with minAgeMs is the wrong way round.
CheckFresh(d) ==
  /\ pc[d] = "scan"
  /\ \E w \in scan[d] :
       /\ scan' = [scan EXCEPT ![d] = @ \ {w}]
       /\ IF live[w] = "none" /\ w \in DOMAIN active /\ w \notin aged
            THEN /\ pc' = [pc EXCEPT ![d] = "promote"]
                 /\ cur' = [cur EXCEPT ![d] = w]
            ELSE UNCHANGED <<pc, cur>>
  /\ UNCHANGED <<todo, buf, fileVars, dbVars, callVars, writerVars, faults>>

\* The owner must be dead and the file old; else the file is skipped.
CheckStale(d) ==
  /\ pc[d] = "scan"
  /\ \E w \in scan[d] :
       /\ scan' = [scan EXCEPT ![d] = @ \ {w}]
       /\ IF live[w] = "none" /\ w \in DOMAIN active /\ w \in aged
            THEN /\ pc' = [pc EXCEPT ![d] = "promote"]
                 /\ cur' = [cur EXCEPT ![d] = w]
            ELSE UNCHANGED <<pc, cur>>
  /\ UNCHANGED <<todo, buf, fileVars, dbVars, callVars, writerVars, faults>>

\* renameSync, which throws when the file has gone meanwhile.
Promote(d) ==
  /\ pc[d] = "promote"
  /\ LET w == cur[d] IN
       IF w \in DOMAIN active
         THEN /\ CloseFile(w, "promoted", stamp[w] + 1)
              /\ active' = Drop(active, w)
              /\ aged' = aged \ {w}
         ELSE UNCHANGED <<stamp, closed, active, aged>>
  /\ pc' = [pc EXCEPT ![d] = "scan"]
  /\ cur' = [cur EXCEPT ![d] = None]
  /\ UNCHANGED <<todo, scan, buf, failed, dbVars, callVars, writerVars, faults>>

\* ingestDir; it stops at once when the database is not writable.
StartDrain(d) ==
  /\ pc[d] = "scan" /\ scan[d] = {}
  /\ \/ \E S \in Listings : StartPass(d, S) /\ UNCHANGED faults
     \/ /\ (DOMAIN closed = {} /\ UNCHANGED faults) \/ Fault
        /\ pc' = [pc EXCEPT ![d] = "idle"]
        /\ UNCHANGED <<todo, scan, cur, buf>>
  /\ UNCHANGED <<fileVars, dbVars, callVars, writerVars>>

\* launchd and systemd restart the daemon.
KillDaemon(d) ==
  /\ pc[d] # "down"
  /\ Fault
  /\ Forget(d, "down")
  /\ scan' = [scan EXCEPT ![d] = {}]
  /\ UNCHANGED <<fileVars, dbVars, callVars, writerVars>>

Restart(d) ==
  /\ pc[d] = "down"
  /\ pc' = [pc EXCEPT ![d] = "idle"]
  /\ UNCHANGED <<todo, scan, cur, buf, fileVars, dbVars, callVars, writerVars, faults>>

DaemonStep(d) ==
  \/ StartPromotion(d) \/ CheckStale(d) \/ Promote(d) \/ StartDrain(d)
  \/ Restart(d) \/ DrainStep(d)

-----------------------------------------------------------------------------
(* token-tally ingest                                                      *)

\* ingestDir, or ingestFile of a closed file.
IngestClosed(i) ==
  /\ pc[i] = "idle"
  /\ \E S \in Listings : StartPass(i, S)
  /\ UNCHANGED <<fileVars, dbVars, callVars, writerVars, faults>>

\* ingestFile of an active file, whose writer the caller knows to be dead; the
\* renamed file stays when the database turns out not to be writable.
IngestActive(i, w) ==
  /\ pc[i] = "idle" /\ w \in DOMAIN active /\ live[w] = "none"
  /\ CloseFile(w, "manual", stamp[w] + 1)
  /\ active' = Drop(active, w)
  /\ aged' = aged \ {w}
  /\ \/ StartPass(i, {<<w, "manual", stamp[w] + 1>>})
     \/ UNCHANGED loopVars
  /\ UNCHANGED <<failed, dbVars, callVars, writerVars, faults>>

KillIngester(i) ==
  /\ pc[i] # "idle"
  /\ Fault
  /\ Forget(i, "idle")
  /\ UNCHANGED <<scan, fileVars, dbVars, callVars, writerVars>>

IngesterStep(i) ==
  \/ IngestClosed(i) \/ KillIngester(i) \/ DrainStep(i)
  \/ \E w \in Pids : IngestActive(i, w)

-----------------------------------------------------------------------------
Next ==
  \/ \E w \in Pids : WriterStep(w) \/ DrainStep(w)
  \/ \E d \in Daemons : DaemonStep(d) \/ KillDaemon(d)
  \/ \E i \in Ingesters : IngesterStep(i)

Spec == Init /\ [][Next]_vars

\* The supervisor keeps the daemon running and time passes; nothing is assumed
\* of writers and of manual ingests.
FairSpec ==
  /\ Spec
  /\ \A d \in Daemons : WF_vars(DaemonStep(d))
  /\ \A w \in Pids : WF_vars(Age(w))

-----------------------------------------------------------------------------
(* What holds of the spool                                                 *)

\* Every variable keeps to its type; an aged file is an active file, and a
\* process that drains or promotes a file has taken it from its list.
WritersOK ==
  /\ live \in [Pids -> {"none", "foreign", "writer", "flush", "close",
                        "flush sweep", "close sweep"}]
  /\ writable \in [Pids -> BOOLEAN]
  /\ onClose \in [Pids -> BOOLEAN]

FilesOK ==
  /\ DOMAIN active \subseteq Pids /\ active \in [DOMAIN active -> Content]
  /\ aged \subseteq DOMAIN active
  /\ stamp \in [Pids -> Nat]
  /\ DOMAIN closed \subseteq Names /\ closed \in [DOMAIN closed -> Content]
  /\ DOMAIN failed \subseteq Names /\ failed \in [DOMAIN failed -> Content]

RecordsOK ==
  /\ stored \subseteq Records /\ twice \subseteq stored
  /\ accepted \subseteq called /\ called \subseteq Records

LoopsOK ==
  /\ pc \in [Procs -> {"idle", "pick", "read", "committed", "error", "scan",
                       "promote", "down"}]
  /\ todo \in [Procs -> SUBSET Names]
  /\ scan \in [Daemons -> SUBSET Pids]
  /\ cur \in [Procs -> Names \cup Pids \cup {None}]
  /\ buf \in [Procs -> SUBSET Records]
  /\ \A p \in Procs : /\ pc[p] = "promote" => cur[p] \in Pids
                      /\ pc[p] \in {"read", "committed", "error"} => cur[p] \in todo[p]

TypeOK ==
  /\ WritersOK /\ FilesOK /\ RecordsOK /\ LoopsOK
  /\ faults \in 0..MaxFaults

\* No record a harness was told is recorded is ever lost: it is in the
\* database, in an active or closed spool file, or in quarantine, whatever
\* crashes, races and failures happened since (writer.ts:16-17, spool.ts:217).
NoLoss == accepted \subseteq stored \cup Recs(active) \cup Recs(closed) \cup Recs(failed)

\* Why: a rename never meets a name that is or was in use, so a name stands
\* for one file; a drainer that read a file still in the directory has all of
\* it; and it goes on to unlink only what the database has.
Used(n) == n[3] <= stamp[n[1]]

FreshNames ==
  /\ \A n \in DOMAIN closed \cup DOMAIN failed : Used(n)
  /\ \A p \in Procs : \A n \in todo[p] : Used(n)
  /\ DOMAIN closed \cap DOMAIN failed = {}

WholeReads ==
  \A p \in Procs :
    /\ pc[p] \in {"read", "committed"} /\ cur[p] \in DOMAIN closed
         => closed[cur[p]].recs \subseteq buf[p]
    /\ pc[p] = "committed" => buf[p] \subseteq stored

DrainInv == FreshNames /\ WholeReads

\* A closed file leaves the spool directory only when all its records are in
\* the database, or whole into quarantine (drainSingleSpoolFile and
\* quarantineSpoolFile, however many drainers work on the same file); and there
\* it stays as it is, as no later quarantine replaces it, though it keeps the
\* basename it had in the spool.
LeavesStoredOrWhole ==
  [][/\ \A n \in DOMAIN closed \ DOMAIN closed' :
          \/ closed[n].recs \subseteq stored
          \/ n \in DOMAIN failed' /\ failed'[n] = closed[n]
     /\ \A n \in DOMAIN failed : n \in DOMAIN failed' /\ failed'[n] = failed[n]]_vars

\* Without a crash, and with nobody else draining, a record is committed once:
\* the at-least-once guarantee of docs/schema.md:329 is exactly-once then.  It
\* holds of a daemon alone, and fails once a writer drains at close() as well.
OnceWithoutFaults == faults = 0 => twice = {}

\* A closed file is never stuck: what it holds leaves the spool directory
\* (the daemon's loop, its bounded passes and its restarts).
SpoolEmpties == \A r \in Records : r \in Recs(closed) ~> r \notin Recs(closed)

\* The file of a writer that died for good, and whose pid nobody took, is
\* promoted (promoteStaleActiveFiles).
OrphansPromoted ==
  \A w \in Pids : []<>(live[w] # "none") \/ <>[](w \notin DOMAIN active)

\* The spool, with all its processes, keeps the promise of Delivery.
Promise == INSTANCE Delivery WITH
  taken <- accepted,
  pending <- Recs(active) \cup Recs(closed),
  aside <- Recs(failed)

KeepsPromise == Promise!Spec
=============================================================================
