------------------------- MODULE SpoolPipelineProofs -------------------------
(***************************************************************************)
(* What SpoolPipeline guarantees for every number of processes and         *)
(* records and every bound on passes and faults.                           *)
(***************************************************************************)
EXTENDS SpoolPipeline, TLAPS

-----------------------------------------------------------------------------
(* Directories                                                             *)

\* Writing a name makes it present, with that content, and touches no other.
LEMMA PutFacts ==
  ASSUME NEW dir, NEW n, NEW c
  PROVE  /\ DOMAIN Put(dir, n, c) = DOMAIN dir \cup {n}
         /\ Put(dir, n, c)[n] = c
         /\ \A x \in DOMAIN dir : x # n => Put(dir, n, c)[x] = dir[x]
BY DEF Put

\* Removing a name touches no other.
LEMMA DropFacts ==
  ASSUME NEW dir, NEW n
  PROVE  /\ DOMAIN Drop(dir, n) = DOMAIN dir \ {n}
         /\ \A x \in DOMAIN dir : x # n => Drop(dir, n)[x] = dir[x]
BY DEF Drop

\* Both keep a directory a directory.
LEMMA PutType ==
  ASSUME NEW dir, dir \in [DOMAIN dir -> Content], NEW n, NEW c \in Content
  PROVE  Put(dir, n, c) \in [DOMAIN Put(dir, n, c) -> Content]
BY DEF Put

\* Removing a name keeps a directory a directory.
LEMMA DropType ==
  ASSUME NEW dir, dir \in [DOMAIN dir -> Content], NEW n
  PROVE  Drop(dir, n) \in [DOMAIN Drop(dir, n) -> Content]
BY DEF Drop

\* What a directory holds is what its files hold.
LEMMA RecsIn ==
  ASSUME NEW dir, NEW n \in DOMAIN dir
  PROVE  dir[n].recs \subseteq Recs(dir)
BY Zenon DEF Recs

\* And no more than they do.
LEMMA RecsOut ==
  ASSUME NEW dir, NEW r \in Recs(dir)
  PROVE  \E n \in DOMAIN dir : r \in dir[n].recs
BY Zenon DEF Recs

\* A new name adds its records to a directory's and takes none away.
LEMMA PutRecs ==
  ASSUME NEW dir, NEW n, NEW c
  PROVE  /\ c.recs \subseteq Recs(Put(dir, n, c))
         /\ n \notin DOMAIN dir => Recs(dir) \subseteq Recs(Put(dir, n, c))
         /\ n \in DOMAIN dir =>
              Recs(dir) \subseteq Recs(Put(dir, n, c)) \cup dir[n].recs
<1>1. c.recs \subseteq Recs(Put(dir, n, c))
  <2>1. n \in DOMAIN Put(dir, n, c) /\ Put(dir, n, c)[n] = c
    BY DEF Put
  <2>2. Put(dir, n, c)[n].recs \subseteq Recs(Put(dir, n, c))
    BY <2>1, RecsIn
  <2> QED BY <2>1, <2>2
<1>2. ASSUME NEW r \in Recs(dir)
      PROVE  r \in Recs(Put(dir, n, c)) \/ (n \in DOMAIN dir /\ r \in dir[n].recs)
  <2>1. PICK x \in DOMAIN dir : r \in dir[x].recs
    BY RecsOut
  <2>2. CASE x = n
    BY <2>1, <2>2
  <2>3. CASE x # n
    <3>1. x \in DOMAIN Put(dir, n, c) /\ Put(dir, n, c)[x] = dir[x]
      BY <2>3 DEF Put
    <3>2. Put(dir, n, c)[x].recs \subseteq Recs(Put(dir, n, c))
      BY <3>1, RecsIn
    <3> QED BY <2>1, <3>1, <3>2
  <2> QED BY <2>2, <2>3
<1> QED BY <1>1, <1>2

\* Removing a name takes away no more than its own records.
LEMMA DropRecs ==
  ASSUME NEW dir, NEW n
  PROVE  /\ n \in DOMAIN dir => Recs(dir) \subseteq Recs(Drop(dir, n)) \cup dir[n].recs
         /\ n \notin DOMAIN dir => Recs(dir) \subseteq Recs(Drop(dir, n))
<1>1. ASSUME NEW r \in Recs(dir)
      PROVE  r \in Recs(Drop(dir, n)) \/ (n \in DOMAIN dir /\ r \in dir[n].recs)
  <2>1. PICK x \in DOMAIN dir : r \in dir[x].recs
    BY RecsOut
  <2>2. CASE x = n
    BY <2>1, <2>2
  <2>3. CASE x # n
    <3>1. x \in DOMAIN Drop(dir, n) /\ Drop(dir, n)[x] = dir[x]
      BY <2>3 DEF Drop
    <3>2. Drop(dir, n)[x].recs \subseteq Recs(Drop(dir, n))
      BY <3>1, RecsIn
    <3> QED BY <2>1, <3>1, <3>2
  <2> QED BY <2>2, <2>3
<1> QED BY <1>1

\* The empty content is a content.
LEMMA EmptyType == Empty \in Content /\ Empty.recs = {}
BY DEF Empty, Content
-----------------------------------------------------------------------------
(* Types                                                                   *)

USE DEF fileVars, dbVars, callVars, writerVars, loopVars

\* What a step leaves alone keeps its type.
LEMMA Unchanged ==
  ASSUME TypeOK
  PROVE  /\ UNCHANGED writerVars => WritersOK'
         /\ UNCHANGED fileVars => FilesOK'
         /\ UNCHANGED <<dbVars, callVars>> => RecordsOK'
         /\ UNCHANGED loopVars => LoopsOK'
         /\ UNCHANGED faults => faults' \in 0..MaxFaults
         /\ Fault => faults' \in 0..MaxFaults
<1> USE DEF TypeOK
<1>1. UNCHANGED writerVars => WritersOK'
  BY DEF WritersOK
<1>2. UNCHANGED fileVars => FilesOK'
  BY DEF FilesOK
<1>3. UNCHANGED <<dbVars, callVars>> => RecordsOK'
  BY DEF RecordsOK
<1>4. UNCHANGED loopVars => LoopsOK'
  BY DEF LoopsOK
<1>5. Fault => faults' \in 0..MaxFaults
  BY BoundsAssumption DEF Fault
<1> QED BY <1>1, <1>2, <1>3, <1>4, <1>5

\* The four moves of a process in its loop.
LEMMA StartPassType ==
  ASSUME TypeOK, NEW p \in Procs, NEW S \in SUBSET Names, StartPass(p, S)
  PROVE  LoopsOK'
BY DEF TypeOK, LoopsOK, StartPass

\* The end of a file keeps the loop's types.
LEMMA FileDoneType ==
  ASSUME TypeOK, NEW p \in Procs, pc[p] \in {"committed", "error"}, FileDone(p)
  PROVE  LoopsOK'
BY DEF TypeOK, LoopsOK, FileDone

\* So does the death of a process.
LEMMA ForgetType ==
  ASSUME TypeOK, NEW p \in Procs, NEW where \in {"idle", "down"}, Forget(p, where),
         scan' \in [Daemons -> SUBSET Pids]
  PROVE  LoopsOK'
BY DEF TypeOK, LoopsOK, Forget

\* A pass lists names of files.
LEMMA ListingsType ==
  ASSUME TypeOK, NEW S \in Listings
  PROVE  S \in SUBSET Names
BY DEF TypeOK, FilesOK, Listings

\* Renaming an active file gives a closed file and a stamp.
LEMMA CloseFileType ==
  ASSUME TypeOK, NEW w \in DOMAIN active, NEW kind \in Kinds, NEW n \in Nat,
         CloseFile(w, kind, n)
  PROVE  /\ stamp' \in [Pids -> Nat]
         /\ DOMAIN closed' \subseteq Names /\ closed' \in [DOMAIN closed' -> Content]
<1> DEFINE f == <<w, kind, n>>
<1>1. f \in Names /\ active[w] \in Content
  BY DEF TypeOK, FilesOK, Names
<1>2. closed' = Put(closed, f, active[w])
  BY DEF CloseFile
<1>3. DOMAIN closed' \subseteq Names
  BY <1>1, <1>2 DEF TypeOK, FilesOK, Put
<1>4. closed' \in [DOMAIN closed' -> Content]
  BY <1>1, <1>2, PutType DEF TypeOK, FilesOK
<1> QED BY <1>3, <1>4 DEF TypeOK, FilesOK, CloseFile

\* A stamp is a number.
LEMMA StampsType ==
  ASSUME TypeOK, NEW w \in Pids
  PROVE  Stamps(w) \subseteq Nat
BY DEF TypeOK, FilesOK, Stamps

-----------------------------------------------------------------------------
(* Each action keeps the types                                             *)

\* A read or a failed read keeps the types: the file is one of the pass.
LEMMA ReadType == ASSUME TypeOK, NEW p \in Procs, Read(p) PROVE TypeOK'
<1>1. PICK f \in todo[p] :
        /\ cur' = [cur EXCEPT ![p] = f]
        /\ IF f \in DOMAIN closed /\ ~closed[f].torn
             THEN /\ pc' = [pc EXCEPT ![p] = "read"]
                  /\ buf' = [buf EXCEPT ![p] = closed[f].recs]
             ELSE /\ pc' = [pc EXCEPT ![p] = "error"]
                  /\ UNCHANGED buf
  BY DEF Read
<1>2. f \in Names
  BY DEF TypeOK, LoopsOK
<1>3. f \in DOMAIN closed => closed[f].recs \in SUBSET Records
  BY DEF TypeOK, FilesOK, Content
<1>4. buf' \in [Procs -> SUBSET Records]
  BY <1>1, <1>3 DEF TypeOK, LoopsOK
<1>5. /\ pc' = [pc EXCEPT ![p] = "read"] \/ pc' = [pc EXCEPT ![p] = "error"]
      /\ cur' = [cur EXCEPT ![p] = f]
      /\ UNCHANGED <<todo, scan>>
  BY <1>1 DEF Read
<1>6. /\ pc' \in [Procs -> {"idle", "pick", "read", "committed", "error", "scan",
                            "promote", "down"}]
      /\ cur' \in [Procs -> Names \cup Pids \cup {None}]
  BY <1>2, <1>5 DEF TypeOK, LoopsOK
<1>7. ASSUME NEW q \in Procs
      PROVE  /\ pc'[q] = "promote" => cur'[q] \in Pids
             /\ pc'[q] \in {"read", "committed", "error"} => cur'[q] \in todo'[q]
  BY <1>5 DEF TypeOK, LoopsOK
<1>8. LoopsOK'
  BY <1>4, <1>5, <1>6, <1>7 DEF TypeOK, LoopsOK
<1> QED BY <1>8, Unchanged DEF Read, TypeOK

\* So does the transaction, whether it commits or throws.
LEMMA CommitType ==
  ASSUME TypeOK, NEW p \in Procs, Commit(p) \/ CommitThrows(p)
  PROVE  TypeOK'
<1>1. LoopsOK'
  BY DEF TypeOK, LoopsOK, Commit, CommitThrows
<1>2. RecordsOK'
  BY DEF TypeOK, RecordsOK, LoopsOK, Commit, CommitThrows
<1> QED BY <1>1, <1>2, Unchanged DEF Commit, CommitThrows, TypeOK

\* So does the unlink of a file, and of one that has gone.
LEMMA UnlinkType == ASSUME TypeOK, NEW p \in Procs, Unlink(p) PROVE TypeOK'
<1>1. CASE cur[p] \in DOMAIN closed /\ closed' = Drop(closed, cur[p]) /\ FileDone(p)
  <2>1. LoopsOK'
    BY <1>1, FileDoneType DEF Unlink
  <2>2. DOMAIN closed' \subseteq Names
    BY <1>1 DEF TypeOK, FilesOK, Drop
  <2>3. closed' \in [DOMAIN closed' -> Content]
    BY <1>1, DropType DEF TypeOK, FilesOK
  <2>4. FilesOK'
    BY <2>2, <2>3 DEF TypeOK, FilesOK, Unlink
  <2> QED BY <2>1, <2>4, Unchanged DEF Unlink, TypeOK
<1>2. CASE pc' = [pc EXCEPT ![p] = "error"] /\ UNCHANGED <<closed, todo, scan, cur, buf>>
  <2>1. LoopsOK'
    BY <1>2 DEF TypeOK, LoopsOK, Unlink
  <2> QED BY <1>2, <2>1, Unchanged DEF Unlink, TypeOK
<1> QED BY <1>1, <1>2 DEF Unlink

\* So does a quarantine, whether it moves the file or not.
LEMMA QuarantineType == ASSUME TypeOK, NEW p \in Procs, Quarantine(p) PROVE TypeOK'
<1>1. LoopsOK'
  BY FileDoneType DEF Quarantine
<1>2. CASE /\ cur[p] \in DOMAIN closed
           /\ failed' = Put(failed, cur[p], closed[cur[p]])
           /\ closed' = Drop(closed, cur[p])
           /\ UNCHANGED faults
  <2>1. cur[p] \in Names /\ closed[cur[p]] \in Content
    BY <1>2 DEF TypeOK, FilesOK
  <2>2. DOMAIN closed' \subseteq Names
    BY <1>2 DEF TypeOK, FilesOK, Drop
  <2>3. closed' \in [DOMAIN closed' -> Content]
    BY <1>2, DropType DEF TypeOK, FilesOK
  <2>4. DOMAIN failed' \subseteq Names
    BY <1>2, <2>1 DEF TypeOK, FilesOK, Put
  <2>5. failed' \in [DOMAIN failed' -> Content]
    BY <1>2, <2>1, PutType DEF TypeOK, FilesOK
  <2>6. FilesOK'
    BY <2>2, <2>3, <2>4, <2>5 DEF TypeOK, FilesOK, Quarantine
  <2> QED BY <1>1, <1>2, <2>6, Unchanged DEF Quarantine, TypeOK
<1>3. CASE UNCHANGED <<failed, closed>> /\ (UNCHANGED faults \/ Fault)
  BY <1>1, <1>3, Unchanged DEF Quarantine, TypeOK
<1> QED BY <1>2, <1>3 DEF Quarantine

\* So does open, with its sweep.
LEMMA OpenType == ASSUME TypeOK, NEW w \in Pids, Open(w) PROVE TypeOK'
<1>1. LoopsOK'
  <2>1. CASE UNCHANGED loopVars
    BY <2>1, Unchanged
  <2>2. CASE \E S \in Listings : StartPass(w, S)
    BY <2>2, ListingsType, StartPassType DEF Procs
  <2> QED BY <2>1, <2>2 DEF Open
<1>2. WritersOK'
  BY WriterModesAssumption DEF TypeOK, WritersOK, Open
<1> QED BY <1>1, <1>2, Unchanged DEF Open, TypeOK

\* A call that returns keeps the types of the calls.
LEMMA ReturnType ==
  ASSUME TypeOK, NEW w \in Pids, NEW r \in Records, Return(r),
         stored' \in {stored, stored \cup {r}}, UNCHANGED twice
  PROVE  RecordsOK'
BY DEF TypeOK, RecordsOK, Return

\* A call that writes to the database keeps the types.
LEMMA RecordLiveType ==
  ASSUME TypeOK, NEW w \in Pids, NEW r \in Records, RecordLive(w, r)
  PROVE  TypeOK'
<1>1. RecordsOK'
  BY ReturnType DEF RecordLive
<1> QED BY <1>1, Unchanged DEF RecordLive, TypeOK

\* What an active file holds after an append of a record.
LEMMA NextFileType ==
  ASSUME TypeOK, NEW w \in Pids, NEW c \in {Present(w), Empty}, NextFile(w, c)
  PROVE  /\ c \in Content
         /\ stamp' \in [Pids -> Nat]
         /\ DOMAIN closed' \subseteq Names /\ closed' \in [DOMAIN closed' -> Content]
<1>1. c \in Content
  BY EmptyType DEF TypeOK, FilesOK, Present
<1>2. CASE UNCHANGED <<stamp, closed>>
  BY <1>1, <1>2 DEF TypeOK, FilesOK
<1>3. CASE w \in DOMAIN active /\ \E n \in Stamps(w) : CloseFile(w, "rotated", n)
  BY <1>1, <1>3, StampsType, CloseFileType DEF Kinds
<1> QED BY <1>2, <1>3 DEF NextFile

\* So does one that appends to the spool, a rotation included.
LEMMA RecordSpoolType ==
  ASSUME TypeOK, NEW w \in Pids, NEW r \in Records, RecordSpool(w, r)
  PROVE  TypeOK'
<1>1. RecordsOK'
  BY ReturnType DEF RecordSpool
<1>2. PICK c \in {Present(w), Empty} :
        NextFile(w, c) /\ active' = Put(active, w, WithLine(c, r))
  BY DEF RecordSpool
<1>3. WithLine(c, r) \in Content
  BY <1>2, NextFileType DEF WithLine, Content
<1>4. DOMAIN active' = DOMAIN active \cup {w}
  BY <1>2 DEF Put
<1>5. active' \in [DOMAIN active' -> Content]
  BY <1>2, <1>3, PutType DEF TypeOK, FilesOK
<1>6. FilesOK'
  BY <1>2, <1>4, <1>5, NextFileType DEF TypeOK, FilesOK, RecordSpool
<1> QED BY <1>1, <1>6, Unchanged DEF RecordSpool, TypeOK

\* A writer that goes keeps the types of the writers.
LEMMA GoneType ==
  ASSUME TypeOK, NEW w \in Pids, Gone(w)
  PROVE  WritersOK'
BY DEF TypeOK, WritersOK, Gone

\* A crash inside an append keeps the types, whatever it leaves.
LEMMA CrashInAppendType ==
  ASSUME TypeOK, NEW w \in Pids, NEW r \in Records, CrashInAppend(w, r)
  PROVE  TypeOK'
<1>1. PICK c \in {Present(w), Empty} :
        /\ NextFile(w, c)
        /\ \E after \in {c, [c EXCEPT !.torn = TRUE], WithLine(c, r)} :
             active' = Put(active, w, after)
  BY DEF CrashInAppend
<1>2. PICK after \in {c, [c EXCEPT !.torn = TRUE], WithLine(c, r)} :
        active' = Put(active, w, after)
  BY <1>1
<1>3. after \in Content
  <2>1. c \in Content
    BY <1>1, NextFileType
  <2>2. [c EXCEPT !.torn = TRUE] \in Content
    BY <2>1 DEF Content
  <2>3. WithLine(c, r) \in Content
    BY <2>1 DEF WithLine, Content
  <2> QED BY <2>1, <2>2, <2>3
<1>4. DOMAIN active' = DOMAIN active \cup {w}
  BY <1>2 DEF Put
<1>5. active' \in [DOMAIN active' -> Content]
  BY <1>2, <1>3, PutType DEF TypeOK, FilesOK
<1>6. FilesOK'
  BY <1>1, <1>4, <1>5, NextFileType DEF TypeOK, FilesOK, CrashInAppend
<1>7. RecordsOK'
  BY GoneType DEF TypeOK, RecordsOK, CrashInAppend
<1> QED BY <1>6, <1>7, GoneType, Unchanged DEF CrashInAppend, TypeOK

\* So do flush and close, with the file they close.
LEMMA FinishType ==
  ASSUME TypeOK, NEW w \in Pids, NEW how \in {"flush", "close"}, Finish(w, how)
  PROVE  TypeOK'
<1>1. PICK S \in SUBSET ({w} \X {"rotated"} \X Stamps(w)) :
        /\ Rotate(w, S)
        /\ IF writable[w] /\ S # {} THEN StartPass(w, S) ELSE UNCHANGED loopVars
  BY DEF Finish
<1>2. S \in SUBSET Names
  BY StampsType DEF Names, Kinds
<1>3. LoopsOK'
  <2>1. CASE StartPass(w, S)
    BY <1>2, <2>1, StartPassType DEF Procs
  <2> QED BY <1>1, <2>1, Unchanged
<1>4. /\ DOMAIN active' \subseteq Pids /\ active' \in [DOMAIN active' -> Content]
      /\ aged' \subseteq DOMAIN active'
  <2>1. CASE w \notin DOMAIN active /\ UNCHANGED active
    BY <2>1 DEF TypeOK, FilesOK, Finish
  <2>2. CASE active' = Drop(active, w)
    <3>1. DOMAIN active' = DOMAIN active \ {w}
      BY <2>2 DEF Drop
    <3> QED BY <2>2, <3>1, DropType DEF TypeOK, FilesOK, Finish
  <2> QED BY <1>1, <2>1, <2>2 DEF Rotate
<1>5. /\ stamp' \in [Pids -> Nat]
      /\ DOMAIN closed' \subseteq Names /\ closed' \in [DOMAIN closed' -> Content]
  <2>1. CASE UNCHANGED <<stamp, closed>>
    BY <2>1 DEF TypeOK, FilesOK
  <2>2. CASE w \in DOMAIN active /\ \E n \in Stamps(w) : CloseFile(w, "rotated", n)
    BY <2>2, StampsType, CloseFileType DEF Kinds
  <2> QED BY <1>1, <2>1, <2>2 DEF Rotate
<1>6. FilesOK'
  BY <1>4, <1>5 DEF TypeOK, FilesOK, Finish
<1>7. WritersOK'
  BY DEF TypeOK, WritersOK, Finish
<1> QED BY <1>3, <1>6, <1>7, Unchanged DEF Finish, TypeOK

\* So does the sweep after them.
LEMMA SweepType == ASSUME TypeOK, NEW w \in Pids, Sweep(w) PROVE TypeOK'
<1>1. LoopsOK'
  BY ListingsType, StartPassType DEF Sweep, Procs
<1>2. WritersOK'
  BY DEF TypeOK, WritersOK, Sweep
<1> QED BY <1>1, <1>2, Unchanged DEF Sweep, TypeOK

\* So does their return.
LEMMA FinishedType == ASSUME TypeOK, NEW w \in Pids, Finished(w) PROVE TypeOK'
<1>1. CASE Gone(w)
  <2>1. RecordsOK'
    BY <1>1, GoneType DEF TypeOK, RecordsOK, Finished
  <2> QED BY <1>1, <2>1, GoneType, Unchanged DEF Finished, TypeOK
<1>2. CASE live' = [live EXCEPT ![w] = "writer"] /\ UNCHANGED <<writable, onClose>>
  <2>1. WritersOK'
    BY <1>2 DEF TypeOK, WritersOK
  <2> QED BY <1>2, <2>1, Unchanged DEF Finished, TypeOK
<1> QED BY <1>1, <1>2 DEF Finished

\* So does the death of a writer anywhere else.
LEMMA CrashType == ASSUME TypeOK, NEW w \in Pids, Crash(w) PROVE TypeOK'
<1>1. LoopsOK'
  BY ForgetType DEF Crash, Procs, TypeOK, LoopsOK
<1>2. RecordsOK'
  BY GoneType DEF TypeOK, RecordsOK, Crash
<1> QED BY <1>1, <1>2, GoneType, Unchanged DEF Crash, TypeOK

\* So do a pid that is taken or given back, and time that passes.
LEMMA PidType ==
  ASSUME TypeOK, NEW w \in Pids, Foreign(w) \/ Age(w)
  PROVE  TypeOK'
<1>1. WritersOK'
  BY DEF TypeOK, WritersOK, Foreign, Age
<1>2. FilesOK'
  BY DEF TypeOK, FilesOK, Foreign, Age
<1> QED BY <1>1, <1>2, Unchanged DEF Foreign, Age, TypeOK

\* So do the daemon's steps that touch no file.
LEMMA DaemonLoopType ==
  ASSUME TypeOK, NEW d \in Daemons, StartPromotion(d) \/ CheckStale(d) \/ Restart(d)
  PROVE  TypeOK'
<1>1. d \in Procs
  BY DEF Procs, Drainers
<1>2. CASE StartPromotion(d)
  <2>1. LoopsOK'
    BY <1>1, <1>2 DEF TypeOK, LoopsOK, FilesOK, StartPromotion
  <2> QED BY <1>2, <2>1, Unchanged DEF StartPromotion, TypeOK
<1>3. CASE CheckStale(d)
  <2>1. PICK w \in scan[d] :
          /\ scan' = [scan EXCEPT ![d] = @ \ {w}]
          /\ IF live[w] = "none" /\ w \in DOMAIN active /\ w \in aged
               THEN /\ pc' = [pc EXCEPT ![d] = "promote"]
                    /\ cur' = [cur EXCEPT ![d] = w]
               ELSE UNCHANGED <<pc, cur>>
    BY <1>3 DEF CheckStale
  <2>2. w \in Pids
    BY DEF TypeOK, LoopsOK
  <2>3. LoopsOK'
    BY <1>1, <1>3, <2>1, <2>2 DEF TypeOK, LoopsOK, CheckStale
  <2> QED BY <1>3, <2>3, Unchanged DEF CheckStale, TypeOK
<1>4. CASE Restart(d)
  <2>1. LoopsOK'
    BY <1>1, <1>4 DEF TypeOK, LoopsOK, Restart
  <2> QED BY <1>4, <2>1, Unchanged DEF Restart, TypeOK
<1> QED BY <1>2, <1>3, <1>4

\* So does a promotion, of a file that has gone as well.
LEMMA PromoteType == ASSUME TypeOK, NEW d \in Daemons, Promote(d) PROVE TypeOK'
<1>1. d \in Procs /\ cur[d] \in Pids
  BY DEF Procs, Drainers, Promote, TypeOK, LoopsOK
<1>2. LoopsOK'
  BY <1>1 DEF TypeOK, LoopsOK, Promote
<1>3. FilesOK'
  <2>1. CASE cur[d] \notin DOMAIN active
    BY <2>1 DEF TypeOK, FilesOK, Promote
  <2>2. CASE cur[d] \in DOMAIN active
    <3>1. /\ CloseFile(cur[d], "promoted", stamp[cur[d]] + 1)
          /\ active' = Drop(active, cur[d])
          /\ aged' = aged \ {cur[d]}
          /\ UNCHANGED failed
      BY <2>2 DEF Promote
    <3>2. stamp[cur[d]] + 1 \in Nat
      BY <1>1 DEF TypeOK, FilesOK
    <3>3. DOMAIN active' = DOMAIN active \ {cur[d]}
      BY <3>1 DEF Drop
    <3>4. active' \in [DOMAIN active' -> Content]
      BY <3>1, DropType DEF TypeOK, FilesOK
    <3> QED BY <2>2, <3>1, <3>2, <3>3, <3>4, CloseFileType DEF TypeOK, FilesOK, Kinds
  <2> QED BY <2>1, <2>2
<1> QED BY <1>2, <1>3, Unchanged DEF Promote, TypeOK

\* So does the start of the daemon's pass.
LEMMA StartDrainType == ASSUME TypeOK, NEW d \in Daemons, StartDrain(d) PROVE TypeOK'
<1>1. d \in Procs
  BY DEF Procs, Drainers
<1>2. LoopsOK'
  <2>1. CASE \E S \in Listings : StartPass(d, S)
    BY <1>1, <2>1, ListingsType, StartPassType
  <2>2. CASE pc' = [pc EXCEPT ![d] = "idle"] /\ UNCHANGED <<todo, scan, cur, buf>>
    BY <1>1, <2>2 DEF TypeOK, LoopsOK
  <2> QED BY <2>1, <2>2 DEF StartDrain
<1> QED BY <1>2, Unchanged DEF StartDrain, TypeOK

\* So does the death of a daemon or of an ingest.
LEMMA KillType ==
  ASSUME TypeOK, NEW p \in Drainers, KillDaemon(p) \/ KillIngester(p),
         p \in Daemons \/ UNCHANGED scan
  PROVE  TypeOK'
<1>1. p \in Procs
  BY DEF Procs
<1>2. scan' \in [Daemons -> SUBSET Pids]
  BY DEF TypeOK, LoopsOK, KillDaemon, KillIngester
<1>3. LoopsOK'
  BY <1>1, <1>2, ForgetType DEF KillDaemon, KillIngester
<1> QED BY <1>3, Unchanged DEF KillDaemon, KillIngester, TypeOK

\* So does an ingest of closed files.
LEMMA IngestClosedType ==
  ASSUME TypeOK, NEW i \in Ingesters, IngestClosed(i)
  PROVE  TypeOK'
<1>1. LoopsOK'
  BY ListingsType, StartPassType DEF IngestClosed, Procs, Drainers
<1> QED BY <1>1, Unchanged DEF IngestClosed, TypeOK

\* So does one of an active file.
LEMMA IngestActiveType ==
  ASSUME TypeOK, NEW i \in Ingesters, NEW w \in Pids, IngestActive(i, w)
  PROVE  TypeOK'
<1> DEFINE f == <<w, "manual", stamp[w] + 1>>
<1>1. stamp[w] + 1 \in Nat /\ f \in Names
  BY DEF TypeOK, FilesOK, Names, Kinds
<1>2. LoopsOK'
  <2>1. CASE StartPass(i, {f})
    BY <1>1, <2>1, StartPassType DEF Procs, Drainers
  <2>2. CASE UNCHANGED loopVars
    BY <2>2, Unchanged
  <2> QED BY <2>1, <2>2 DEF IngestActive
<1>3. DOMAIN active' = DOMAIN active \ {w}
  BY DEF IngestActive, Drop
<1>4. active' \in [DOMAIN active' -> Content]
  BY DropType DEF TypeOK, FilesOK, IngestActive
<1>5. FilesOK'
  BY <1>1, <1>3, <1>4, CloseFileType DEF TypeOK, FilesOK, Kinds, IngestActive
<1> QED BY <1>2, <1>5, Unchanged DEF IngestActive, TypeOK

-----------------------------------------------------------------------------
\* Every variable keeps to its type in every behaviour.
THEOREM TypeCorrect == Spec => []TypeOK
<1>1. Init => TypeOK
  BY BoundsAssumption DEF Init, TypeOK, WritersOK, FilesOK, RecordsOK, LoopsOK, Content
<1>2. TypeOK /\ [Next]_vars => TypeOK'
  <2> SUFFICES ASSUME TypeOK, [Next]_vars PROVE TypeOK'
    OBVIOUS
  <2>1. CASE UNCHANGED vars
    BY <2>1, Unchanged DEF vars, TypeOK
  <2>2. ASSUME NEW p \in Procs, DrainStep(p) PROVE TypeOK'
    BY <2>2, ReadType, CommitType, UnlinkType, QuarantineType DEF DrainStep
  <2>3. ASSUME NEW w \in Pids, WriterStep(w) PROVE TypeOK'
    <3>1. CASE \E r \in Records : RecordLive(w, r) \/ RecordSpool(w, r) \/ CrashInAppend(w, r)
      BY <3>1, RecordLiveType, RecordSpoolType, CrashInAppendType
    <3> QED BY <2>3, <3>1, OpenType, FinishType, SweepType, FinishedType, CrashType,
               PidType DEF WriterStep
  <2>4. ASSUME NEW d \in Daemons, DaemonStep(d) \/ KillDaemon(d) PROVE TypeOK'
    BY <2>2, <2>4, DaemonLoopType, PromoteType, StartDrainType, KillType
    DEF DaemonStep, Procs, Drainers
  <2>5. ASSUME NEW i \in Ingesters, IngesterStep(i) PROVE TypeOK'
    <3>1. CASE \E w \in Pids : IngestActive(i, w)
      BY <3>1, IngestActiveType
    <3>2. CASE KillIngester(i)
      BY <3>2, KillType DEF KillIngester, Drainers
    <3> QED BY <2>2, <2>5, <3>1, <3>2, IngestClosedType DEF IngesterStep, Procs, Drainers
  <2> QED BY <2>1, <2>2, <2>3, <2>4, <2>5 DEF Next, Procs
<1> QED BY <1>1, <1>2, PTL DEF Spec

-----------------------------------------------------------------------------
(* No record is lost, and no file half-drained                             *)
(*                                                                         *)
(* NoLoss is not inductive: that Unlink removes nothing unstored, and that *)
(* a rename replaces nothing, is what DrainInv says.                       *)

IInv == TypeOK /\ DrainInv /\ NoLoss

\* What a step may do to the directories and keep DrainInv.
DirStep ==
  /\ \A n \in Names : Used(n) => Used(n)'
  /\ \A n \in DOMAIN closed' \cup DOMAIN failed' : Used(n)'
  /\ DOMAIN closed' \cap DOMAIN failed' = {}
  /\ \A n \in DOMAIN closed' :
       \/ n \in DOMAIN closed /\ closed'[n] = closed[n]
       \/ n \notin DOMAIN closed /\ \A q \in Procs : n \notin todo[q]

\* What a step may do to the loops: list more files, reach no commit.
Passive(F) ==
  \A q \in Procs :
    /\ todo'[q] \subseteq todo[q] \cup F
    /\ pc'[q] \in {"read", "committed"} =>
         pc'[q] = pc[q] /\ cur'[q] = cur[q] /\ buf'[q] = buf[q]

\* Then the drainers' invariant is kept.
LEMMA DrainInvStep ==
  ASSUME TypeOK, DrainInv, NEW F, \A n \in F : Used(n)', Passive(F), DirStep,
         stored \subseteq stored'
  PROVE  DrainInv'
<1>1. \A p \in Procs : \A n \in todo'[p] : Used(n)'
  <2> SUFFICES ASSUME NEW p \in Procs, NEW n \in todo'[p], n \notin F PROVE Used(n)'
    OBVIOUS
  <2>1. n \in todo[p] /\ n \in Names /\ Used(n)
    BY DEF Passive, TypeOK, LoopsOK, DrainInv, FreshNames
  <2> QED BY <2>1 DEF DirStep
<1>2. FreshNames'
  BY <1>1 DEF FreshNames, DirStep
<1>3. ASSUME NEW p \in Procs, pc'[p] \in {"read", "committed"}, cur'[p] \in DOMAIN closed'
      PROVE  closed'[cur'[p]].recs \subseteq buf'[p]
  <2>1. pc'[p] = pc[p] /\ cur'[p] = cur[p] /\ buf'[p] = buf[p]
    BY <1>3 DEF Passive
  <2>2. cur[p] \in todo[p]
    BY <1>3, <2>1 DEF TypeOK, LoopsOK
  <2>3. cur[p] \in DOMAIN closed /\ closed'[cur[p]] = closed[cur[p]]
    BY <1>3, <2>1, <2>2 DEF DirStep
  <2> QED BY <1>3, <2>1, <2>3 DEF DrainInv, WholeReads
<1>4. ASSUME NEW p \in Procs, pc'[p] = "committed"
      PROVE  buf'[p] \subseteq stored'
  BY <1>4 DEF Passive, DrainInv, WholeReads
<1>5. WholeReads'
  BY <1>3, <1>4 DEF WholeReads
<1> QED BY <1>2, <1>5 DEF DrainInv

\* The moves of a loop that commit nothing.
LEMMA PassiveMoves ==
  ASSUME TypeOK, NEW p \in Procs
  PROVE  /\ UNCHANGED loopVars => Passive({})
         /\ \A S : StartPass(p, S) => Passive(S)
         /\ FileDone(p) => Passive({})
         /\ Forget(p, "idle") \/ Forget(p, "down") => Passive({})
<1>1. UNCHANGED loopVars => Passive({})
  BY DEF Passive
<1>2. ASSUME NEW S, StartPass(p, S) PROVE Passive(S)
  BY <1>2 DEF Passive, StartPass, TypeOK, LoopsOK
<1>3. FileDone(p) => Passive({})
  BY DEF Passive, FileDone, TypeOK, LoopsOK
<1>4. Forget(p, "idle") \/ Forget(p, "down") => Passive({})
  BY DEF Passive, Forget, TypeOK, LoopsOK
<1> QED BY <1>1, <1>2, <1>3, <1>4

\* The changes of the directories, each with what it does to the records.
LEMMA Same ==
  ASSUME TypeOK, DrainInv, UNCHANGED <<closed, failed, stamp>>
  PROVE  DirStep
<1>1. \A n : Used(n)' <=> Used(n)
  BY DEF Used
<1> QED BY <1>1 DEF DirStep, DrainInv, FreshNames

\* A rename to a name with the next stamp: the name is fresh, and the records are
\* in the closed file.
LEMMA Closing ==
  ASSUME TypeOK, DrainInv, UNCHANGED failed,
         NEW w \in DOMAIN active, NEW kind \in Kinds,
         NEW m, m = stamp[w] + 1, CloseFile(w, kind, m)
  PROVE  /\ DirStep
         /\ Used(<<w, kind, m>>)'
         /\ Recs(closed) \cup active[w].recs \subseteq Recs(closed')
<1> DEFINE f == <<w, kind, m>>
<1>1. w \in Pids /\ stamp \in [Pids -> Nat] /\ m \in Nat /\ f \in Names
  BY DEF TypeOK, FilesOK, Names
<1>2. stamp' = [stamp EXCEPT ![w] = m] /\ closed' = Put(closed, f, active[w])
  BY DEF CloseFile
<1>3. ASSUME NEW n \in Names, Used(n) PROVE Used(n)' /\ n # f
  <2>1. n[1] \in Pids /\ n[3] \in Nat
    BY DEF Names
  <2>2. n[3] <= stamp[n[1]]
    BY <1>3 DEF Used
  <2>3. n[3] <= stamp'[n[1]]
    BY <1>1, <1>2, <2>1, <2>2
  <2>4. n # f
    BY <1>1, <2>1, <2>2
  <2> QED BY <2>3, <2>4 DEF Used
<1>4. Used(f)'
  <2>1. f[1] = w /\ f[3] = m
    OBVIOUS
  <2>2. stamp'[w] = m
    BY <1>1, <1>2
  <2> QED BY <1>1, <2>1, <2>2 DEF Used
<1>5. f \notin DOMAIN closed /\ f \notin DOMAIN failed /\ \A q \in Procs : f \notin todo[q]
  BY <1>3, <1>1 DEF DrainInv, FreshNames
<1>6. DOMAIN closed' = DOMAIN closed \cup {f}
  BY <1>2 DEF Put
<1>7. \A n \in DOMAIN closed : closed'[n] = closed[n]
  BY <1>2, <1>5 DEF Put
<1>8. \A n \in DOMAIN closed' \cup DOMAIN failed' : Used(n)'
  <2>1. \A n \in DOMAIN closed \cup DOMAIN failed : n \in Names /\ Used(n)
    BY DEF DrainInv, FreshNames, TypeOK, FilesOK
  <2> QED BY <1>3, <1>4, <1>6, <2>1
<1>9. DirStep
  BY <1>3, <1>5, <1>6, <1>7, <1>8 DEF DirStep, DrainInv, FreshNames
<1>10. Recs(closed) \cup active[w].recs \subseteq Recs(closed')
  BY <1>2, <1>5, PutRecs
<1> QED BY <1>4, <1>9, <1>10

\* An unlink takes one file away.
LEMMA Unlinking ==
  ASSUME TypeOK, DrainInv, UNCHANGED <<failed, stamp>>, NEW n, closed' = Drop(closed, n)
  PROVE  DirStep
<1>1. \A x : Used(x)' <=> Used(x)
  BY DEF Used
<1>2. DOMAIN closed' \subseteq DOMAIN closed /\ \A x \in DOMAIN closed' : closed'[x] = closed[x]
  BY DEF Drop
<1> QED BY <1>1, <1>2 DEF DirStep, DrainInv, FreshNames

\* A move to quarantine meets no file of that name there, and keeps the records.
LEMMA Setting ==
  ASSUME TypeOK, DrainInv, UNCHANGED stamp, NEW n \in DOMAIN closed,
         failed' = Put(failed, n, closed[n]), closed' = Drop(closed, n)
  PROVE  /\ DirStep
         /\ Recs(failed) \subseteq Recs(failed') /\ closed[n].recs \subseteq Recs(failed')
         /\ Recs(closed) \subseteq Recs(closed') \cup closed[n].recs
<1>1. \A x : Used(x)' <=> Used(x)
  BY DEF Used
<1>2. DOMAIN closed' = DOMAIN closed \ {n} /\ \A x \in DOMAIN closed' : closed'[x] = closed[x]
  BY DEF Drop
<1>3. DOMAIN failed' = DOMAIN failed \cup {n}
  BY DEF Put
<1>4. n \notin DOMAIN failed
  BY DEF DrainInv, FreshNames
<1>5. DirStep
  BY <1>1, <1>2, <1>3 DEF DirStep, DrainInv, FreshNames
<1> QED BY <1>4, <1>5, PutRecs, DropRecs

\* A step that touches no file and commits and accepts nothing.
LEMMA QuietStep ==
  ASSUME IInv, UNCHANGED <<active, closed, failed, stamp, accepted>>,
         stored \subseteq stored', NEW F, \A n \in F : Used(n), Passive(F)
  PROVE  DrainInv' /\ NoLoss'
<1>1. \A n \in F : Used(n)'
  BY DEF Used
<1>2. DrainInv'
  BY <1>1, Same, DrainInvStep DEF IInv
<1>3. NoLoss'
  BY DEF IInv, NoLoss, Recs
<1> QED BY <1>2, <1>3

\* A pass lists names in use.
LEMMA ListingsUsed ==
  ASSUME DrainInv, NEW S \in Listings
  PROVE  \A n \in S : Used(n)
BY DEF DrainInv, FreshNames, Listings

\* A drainer that reads a file has all of it (readFileSync).
LEMMA ReadSafe ==
  ASSUME IInv, NEW p \in Procs, Read(p)
  PROVE  DrainInv' /\ NoLoss'
<1> USE DEF IInv
<1>1. UNCHANGED <<active, closed, failed, stamp, accepted, stored, todo>>
  BY DEF Read
<1>2. FreshNames'
  BY <1>1 DEF DrainInv, FreshNames, Used
<1>3. PICK f \in todo[p] :
        /\ cur' = [cur EXCEPT ![p] = f]
        /\ IF f \in DOMAIN closed /\ ~closed[f].torn
             THEN /\ pc' = [pc EXCEPT ![p] = "read"]
                  /\ buf' = [buf EXCEPT ![p] = closed[f].recs]
             ELSE /\ pc' = [pc EXCEPT ![p] = "error"]
                  /\ UNCHANGED buf
  BY DEF Read
<1>4. ASSUME NEW q \in Procs, q # p
      PROVE  pc'[q] = pc[q] /\ cur'[q] = cur[q] /\ buf'[q] = buf[q]
  BY <1>3, <1>4 DEF TypeOK, LoopsOK
<1>5. (pc'[p] = "read" /\ cur'[p] = f /\ buf'[p] = closed[f].recs) \/ pc'[p] = "error"
  BY <1>3 DEF TypeOK, LoopsOK
<1>6. WholeReads'
  <2> SUFFICES ASSUME NEW q \in Procs
               PROVE  /\ pc'[q] \in {"read", "committed"} /\ cur'[q] \in DOMAIN closed
                           => closed[cur'[q]].recs \subseteq buf'[q]
                      /\ pc'[q] = "committed" => buf'[q] \subseteq stored
    BY <1>1 DEF WholeReads
  <2>1. CASE q = p
    BY <2>1, <1>5
  <2>2. CASE q # p
    BY <2>2, <1>4 DEF DrainInv, WholeReads
  <2> QED BY <2>1, <2>2
<1>7. NoLoss'
  BY <1>1 DEF NoLoss, Recs
<1> QED BY <1>2, <1>6, <1>7 DEF DrainInv

\* A transaction makes stored what was read.
LEMMA CommitSafe ==
  ASSUME IInv, NEW p \in Procs, Commit(p)
  PROVE  DrainInv' /\ NoLoss'
<1> USE DEF IInv
<1>1. UNCHANGED <<active, closed, failed, stamp, accepted, todo, cur, buf>>
  BY DEF Commit
<1>2. FreshNames'
  BY <1>1 DEF DrainInv, FreshNames, Used
<1>3. stored' = stored \cup buf[p] /\ pc[p] = "read"
  BY DEF Commit
<1>4. ASSUME NEW q \in Procs
      PROVE  IF q = p THEN pc'[q] = "committed" ELSE pc'[q] = pc[q]
  BY DEF Commit, TypeOK, LoopsOK
<1>5. WholeReads'
  BY <1>1, <1>3, <1>4 DEF DrainInv, WholeReads
<1>6. NoLoss'
  BY <1>1, <1>3 DEF NoLoss, Recs
<1> QED BY <1>2, <1>5, <1>6 DEF DrainInv

\* One that throws changes nothing.
LEMMA CommitThrowsSafe ==
  ASSUME IInv, NEW p \in Procs, CommitThrows(p)
  PROVE  DrainInv' /\ NoLoss'
<1>1. Passive({})
  BY DEF IInv, TypeOK, LoopsOK, Passive, CommitThrows
<1> QED BY <1>1, QuietStep DEF CommitThrows

\* A file that is unlinked has been read whole and stored, by this drainer.
LEMMA UnlinkSafe ==
  ASSUME IInv, NEW p \in Procs, Unlink(p)
  PROVE  DrainInv' /\ NoLoss'
<1> USE DEF IInv
<1>1. CASE /\ cur[p] \in DOMAIN closed
           /\ closed' = Drop(closed, cur[p])
           /\ FileDone(p)
  <2>1. DrainInv'
    BY <1>1, Unlinking, PassiveMoves, DrainInvStep DEF Unlink
  <2>2. closed[cur[p]].recs \subseteq stored
    BY <1>1 DEF Unlink, DrainInv, WholeReads
  <2>3. Recs(closed) \subseteq Recs(closed') \cup stored
    BY <1>1, <2>2, DropRecs
  <2>4. UNCHANGED <<active, failed, stored, accepted>>
    BY DEF Unlink
  <2>5. NoLoss'
    BY <2>3, <2>4 DEF NoLoss, Recs
  <2> QED BY <2>1, <2>5
<1>2. CASE pc' = [pc EXCEPT ![p] = "error"] /\ UNCHANGED <<closed, todo, scan, cur, buf>>
  <2>1. Passive({})
    BY <1>2 DEF TypeOK, LoopsOK, Passive
  <2> QED BY <1>2, <2>1, QuietStep DEF Unlink
<1> QED BY <1>1, <1>2 DEF Unlink

\* A file that is quarantined keeps its records there.
LEMMA QuarantineSafe ==
  ASSUME IInv, NEW p \in Procs, Quarantine(p)
  PROVE  DrainInv' /\ NoLoss'
<1> USE DEF IInv
<1>1. CASE /\ cur[p] \in DOMAIN closed
           /\ failed' = Put(failed, cur[p], closed[cur[p]])
           /\ closed' = Drop(closed, cur[p])
  <2>1. /\ DirStep
        /\ Recs(failed) \subseteq Recs(failed')
        /\ closed[cur[p]].recs \subseteq Recs(failed')
        /\ Recs(closed) \subseteq Recs(closed') \cup closed[cur[p]].recs
    BY <1>1, Setting DEF Quarantine
  <2>2. DrainInv'
    BY <2>1, PassiveMoves, DrainInvStep DEF Quarantine
  <2>3. UNCHANGED <<active, stored, accepted>>
    BY DEF Quarantine
  <2>4. Recs(active') = Recs(active)
    BY <2>3
  <2>5. NoLoss'
    BY <2>1, <2>3, <2>4 DEF NoLoss
  <2> QED BY <2>2, <2>5
<1>2. CASE UNCHANGED <<failed, closed>>
  BY <1>2, PassiveMoves, QuietStep DEF Quarantine
<1> QED BY <1>1, <1>2 DEF Quarantine

\* A step that renames the active file of w away.
LEMMA ClosingSafe ==
  ASSUME IInv, UNCHANGED failed, NEW w \in DOMAIN active, NEW kind \in Kinds,
         NEW m, m = stamp[w] + 1, CloseFile(w, kind, m),
         UNCHANGED <<stored, accepted>>, active' = Drop(active, w),
         Passive({}) \/ Passive({<<w, kind, m>>})
  PROVE  DrainInv' /\ NoLoss'
<1> USE DEF IInv
<1>1. DirStep /\ Used(<<w, kind, m>>)' /\ Recs(closed) \cup active[w].recs \subseteq Recs(closed')
  BY Closing
<1>2. DrainInv'
  BY <1>1, DrainInvStep
<1>3. Recs(active) \subseteq Recs(active') \cup active[w].recs
  BY DropRecs
<1>4. Recs(failed') = Recs(failed)
  OBVIOUS
<1>5. NoLoss'
  BY <1>1, <1>3, <1>4 DEF NoLoss
<1> QED BY <1>2, <1>5

\* Open and the sweep after a flush or close only list files.
LEMMA OpenSafe ==
  ASSUME IInv, NEW w \in Pids, Open(w) \/ Sweep(w)
  PROVE  DrainInv' /\ NoLoss'
<1>1. w \in Procs
  BY DEF Procs
<1>2. UNCHANGED <<active, closed, failed, stamp, accepted, stored>>
  BY DEF Open, Sweep
<1>3. CASE UNCHANGED loopVars
  BY <1>1, <1>2, <1>3, PassiveMoves, QuietStep DEF IInv
<1>4. CASE \E S \in Listings : StartPass(w, S)
  <2>1. PICK S \in Listings : StartPass(w, S)
    BY <1>4
  <2>2. Passive(S) /\ \A n \in S : Used(n)
    BY <1>1, <2>1, PassiveMoves, ListingsUsed DEF IInv
  <2> QED BY <1>2, <2>2, QuietStep
<1> QED BY <1>3, <1>4 DEF Open, Sweep

\* A call that writes to the database stores its record before it returns.
LEMMA RecordLiveSafe ==
  ASSUME IInv, NEW w \in Pids, NEW r \in Records, RecordLive(w, r)
  PROVE  DrainInv' /\ NoLoss'
<1> USE DEF IInv
<1>1. UNCHANGED <<active, closed, failed, stamp>> /\ stored' = stored \cup {r}
  BY DEF RecordLive
<1>2. DrainInv'
  BY <1>1, Same, PassiveMoves, DrainInvStep DEF RecordLive, Procs
<1>3. accepted' = accepted \cup {r}
  BY DEF RecordLive, Return
<1>4. NoLoss'
  BY <1>1, <1>3 DEF NoLoss, Recs
<1> QED BY <1>2, <1>4

\* An append: the file the line goes to keeps what the present one held, or
\* the closed one has it.
LEMMA AppendSafe ==
  ASSUME IInv, ~StampReuse, NEW w \in Pids, NEW c \in {Present(w), Empty}, NextFile(w, c),
         NEW after, c.recs \subseteq after.recs, active' = Put(active, w, after),
         UNCHANGED <<failed, stored>>, UNCHANGED loopVars,
         accepted' \subseteq accepted \cup after.recs
  PROVE  DrainInv' /\ NoLoss'
<1> USE DEF IInv
<1>1. Recs(failed') = Recs(failed)
  OBVIOUS
<1>2. after.recs \subseteq Recs(active')
  BY PutRecs
<1>3. CASE c = Present(w) /\ UNCHANGED <<stamp, closed>>
  <2>1. DrainInv'
    BY <1>3, Same, PassiveMoves, DrainInvStep DEF Procs
  <2>2. Recs(active) \subseteq Recs(active')
    <3>1. CASE w \in DOMAIN active
      BY <1>2, <1>3, <3>1, PutRecs DEF Present
    <3>2. CASE w \notin DOMAIN active
      BY <3>2, PutRecs
    <3> QED BY <3>1, <3>2
  <2>3. Recs(closed') = Recs(closed)
    BY <1>3
  <2>4. NoLoss'
    BY <1>1, <1>2, <2>2, <2>3 DEF NoLoss
  <2> QED BY <2>1, <2>4
<1>4. CASE w \in DOMAIN active /\ \E n \in Stamps(w) : CloseFile(w, "rotated", n)
  <2>1. PICK n \in Stamps(w) : CloseFile(w, "rotated", n)
    BY <1>4
  <2>2. n = stamp[w] + 1
    BY <2>1 DEF Stamps
  <2>3. DirStep /\ Recs(closed) \cup active[w].recs \subseteq Recs(closed')
    BY <1>4, <2>1, <2>2, Closing DEF Kinds
  <2>4. DrainInv'
    BY <2>3, PassiveMoves, DrainInvStep DEF Procs
  <2>5. Recs(active) \subseteq Recs(active') \cup active[w].recs
    BY <1>4, PutRecs
  <2>6. NoLoss'
    BY <1>1, <1>2, <2>3, <2>5 DEF NoLoss
  <2> QED BY <2>4, <2>6
<1> QED BY <1>3, <1>4 DEF NextFile

\* A call that spools has its record in the active file before it returns.
LEMMA RecordSpoolSafe ==
  ASSUME IInv, ~StampReuse, NEW w \in Pids, NEW r \in Records, RecordSpool(w, r)
  PROVE  DrainInv' /\ NoLoss'
<1>1. PICK c \in {Present(w), Empty} :
        NextFile(w, c) /\ active' = Put(active, w, WithLine(c, r))
  BY DEF RecordSpool
<1>2. c \in Content
  BY <1>1, NextFileType DEF IInv
<1>3. WithLine(c, r).recs = c.recs \cup {r}
  BY <1>2 DEF WithLine, Content
<1>4. accepted' = accepted \cup {r}
  BY DEF RecordSpool, Return
<1> QED BY <1>1, <1>3, <1>4, AppendSafe DEF RecordSpool

\* A crash inside an append loses no line that was complete.
LEMMA CrashInAppendSafe ==
  ASSUME IInv, ~StampReuse, NEW w \in Pids, NEW r \in Records, CrashInAppend(w, r)
  PROVE  DrainInv' /\ NoLoss'
<1>1. PICK c \in {Present(w), Empty} :
        /\ NextFile(w, c)
        /\ \E after \in {c, [c EXCEPT !.torn = TRUE], WithLine(c, r)} :
             active' = Put(active, w, after)
  BY DEF CrashInAppend
<1>2. PICK after \in {c, [c EXCEPT !.torn = TRUE], WithLine(c, r)} :
        active' = Put(active, w, after)
  BY <1>1
<1>3. c \in Content
  BY <1>1, NextFileType DEF IInv
<1>4. c.recs \subseteq after.recs
  <2>1. [c EXCEPT !.torn = TRUE].recs = c.recs
    BY <1>3 DEF Content
  <2>2. WithLine(c, r).recs = c.recs \cup {r}
    BY <1>3 DEF WithLine, Content
  <2> QED BY <2>1, <2>2
<1> QED BY <1>1, <1>2, <1>4, AppendSafe DEF CrashInAppend

\* Flush and close move the active file's records to the closed file, and unlink
\* only an empty one.
LEMMA FinishSafe ==
  ASSUME IInv, ~StampReuse, NEW w \in Pids, NEW how \in {"flush", "close"}, Finish(w, how)
  PROVE  DrainInv' /\ NoLoss'
<1> USE DEF IInv
<1>1. PICK S \in SUBSET ({w} \X {"rotated"} \X Stamps(w)) :
        /\ Rotate(w, S)
        /\ IF writable[w] /\ S # {} THEN StartPass(w, S) ELSE UNCHANGED loopVars
  BY DEF Finish
<1>2. UNCHANGED <<failed, stored, accepted>> /\ w \in Procs
  BY DEF Finish, Procs
<1>3. CASE w \notin DOMAIN active /\ S = {} /\ UNCHANGED <<active, stamp, closed>>
  BY <1>1, <1>2, <1>3, PassiveMoves, QuietStep
<1>4. CASE /\ w \in DOMAIN active /\ active[w] = Empty /\ S = {}
           /\ active' = Drop(active, w) /\ UNCHANGED <<stamp, closed>>
  <2>1. DrainInv'
    BY <1>1, <1>2, <1>4, Same, PassiveMoves, DrainInvStep
  <2>2. Recs(active) \subseteq Recs(active')
    BY <1>4, EmptyType, DropRecs
  <2>3. Recs(closed') = Recs(closed) /\ Recs(failed') = Recs(failed)
    BY <1>2, <1>4
  <2>4. NoLoss'
    BY <1>2, <2>2, <2>3 DEF NoLoss
  <2> QED BY <2>1, <2>4
<1>5. CASE /\ w \in DOMAIN active /\ active' = Drop(active, w)
           /\ \E n \in Stamps(w) : S = {<<w, "rotated", n>>} /\ CloseFile(w, "rotated", n)
  <2>1. PICK n \in Stamps(w) : S = {<<w, "rotated", n>>} /\ CloseFile(w, "rotated", n)
    BY <1>5
  <2>2. n = stamp[w] + 1
    BY <2>1 DEF Stamps
  <2>3. Passive({}) \/ Passive(S)
    BY <1>1, <1>2, PassiveMoves
  <2> QED BY <1>2, <1>5, <2>1, <2>2, <2>3, ClosingSafe DEF Kinds
<1> QED BY <1>1, <1>3, <1>4, <1>5 DEF Rotate

\* The steps of a writer or of a pid that touch neither files nor records.
LEMMA PidSafe ==
  ASSUME IInv, NEW w \in Pids, Finished(w) \/ Crash(w) \/ Foreign(w) \/ Age(w)
  PROVE  DrainInv' /\ NoLoss'
<1>1. Passive({})
  BY PassiveMoves DEF IInv, Procs, Finished, Crash, Foreign, Age
<1>2. UNCHANGED <<active, closed, failed, stamp, accepted, stored>>
  BY DEF Finished, Crash, Foreign, Age
<1> QED BY <1>1, <1>2, QuietStep

\* The daemon's and the ingest's steps that touch no file.
LEMMA DrainerQuietSafe ==
  ASSUME IInv, NEW p \in Drainers,
         \/ StartPromotion(p) \/ CheckStale(p) \/ StartDrain(p) \/ KillDaemon(p) \/ Restart(p)
         \/ IngestClosed(p) \/ KillIngester(p)
  PROVE  DrainInv' /\ NoLoss'
<1>1. p \in Procs
  BY DEF Procs
<1>2. UNCHANGED <<active, closed, failed, stamp, accepted, stored>>
  BY DEF StartPromotion, CheckStale, StartDrain, KillDaemon, Restart, IngestClosed,
         KillIngester
<1>3. CASE StartPromotion(p) \/ CheckStale(p) \/ Restart(p)
  <2>1. Passive({})
    BY <1>1, <1>3 DEF IInv, TypeOK, LoopsOK, Passive, StartPromotion, CheckStale, Restart
  <2> QED BY <1>2, <2>1, QuietStep
<1>4. CASE \E S \in Listings : StartPass(p, S)
  <2>1. PICK S \in Listings : StartPass(p, S)
    BY <1>4
  <2>2. Passive(S) /\ \A n \in S : Used(n)
    BY <1>1, <2>1, PassiveMoves, ListingsUsed DEF IInv
  <2> QED BY <1>2, <2>2, QuietStep
<1>5. CASE pc' = [pc EXCEPT ![p] = "idle"] /\ UNCHANGED <<todo, scan, cur, buf>>
  <2>1. Passive({})
    BY <1>1, <1>5 DEF IInv, TypeOK, LoopsOK, Passive
  <2> QED BY <1>2, <2>1, QuietStep
<1>6. CASE Forget(p, "down") \/ Forget(p, "idle")
  BY <1>1, <1>2, <1>6, PassiveMoves, QuietStep DEF IInv
<1> QED BY <1>3, <1>4, <1>5, <1>6 DEF StartDrain, KillDaemon, IngestClosed, KillIngester

\* A promotion moves an active file's records to a closed file.
LEMMA PromoteSafe ==
  ASSUME IInv, NEW d \in Daemons, Promote(d)
  PROVE  DrainInv' /\ NoLoss'
<1> USE DEF IInv
<1>1. d \in Procs /\ UNCHANGED <<failed, stored, accepted>>
  BY DEF Procs, Drainers, Promote
<1>2. Passive({})
  BY <1>1 DEF TypeOK, LoopsOK, Passive, Promote
<1>3. CASE cur[d] \notin DOMAIN active
  BY <1>1, <1>2, <1>3, QuietStep DEF Promote
<1>4. CASE cur[d] \in DOMAIN active
  <2>1. PICK m : m = stamp[cur[d]] + 1
    OBVIOUS
  <2>2. CloseFile(cur[d], "promoted", m) /\ active' = Drop(active, cur[d])
    BY <1>4, <2>1 DEF Promote
  <2> QED BY <1>1, <1>2, <1>4, <2>1, <2>2, ClosingSafe DEF Kinds
<1> QED BY <1>3, <1>4

\* So does an ingest of an active file.
LEMMA IngestActiveSafe ==
  ASSUME IInv, NEW i \in Ingesters, NEW w \in Pids, IngestActive(i, w)
  PROVE  DrainInv' /\ NoLoss'
<1> USE DEF IInv
<1>1. i \in Procs /\ UNCHANGED <<failed, stored, accepted>>
  BY DEF Procs, Drainers, IngestActive
<1>2. PICK m : m = stamp[w] + 1
  OBVIOUS
<1>3. /\ w \in DOMAIN active /\ CloseFile(w, "manual", m) /\ active' = Drop(active, w)
      /\ StartPass(i, {<<w, "manual", m>>}) \/ UNCHANGED loopVars
  BY <1>2 DEF IngestActive
<1>4. Passive({}) \/ Passive({<<w, "manual", m>>})
  BY <1>1, <1>3, PassiveMoves
<1> QED BY <1>1, <1>2, <1>3, <1>4, ClosingSafe DEF Kinds

\* Every step keeps the invariant, once its types are known.
LEMMA IInvStep ==
  ASSUME ~StampReuse, IInv, TypeOK', [Next]_vars
  PROVE  IInv'
<1>1. DrainInv' /\ NoLoss'
  <2>1. CASE UNCHANGED vars
    <3>1. Passive({})
      BY <2>1 DEF vars, Passive
    <3> QED BY <2>1, <3>1, QuietStep DEF vars
  <2>2. ASSUME NEW p \in Procs, DrainStep(p) PROVE DrainInv' /\ NoLoss'
    BY <2>2, ReadSafe, CommitSafe, CommitThrowsSafe, UnlinkSafe, QuarantineSafe DEF DrainStep
  <2>3. ASSUME NEW w \in Pids, WriterStep(w) PROVE DrainInv' /\ NoLoss'
    <3>1. CASE \E r \in Records : RecordLive(w, r) \/ RecordSpool(w, r) \/ CrashInAppend(w, r)
      BY <3>1, RecordLiveSafe, RecordSpoolSafe, CrashInAppendSafe
    <3> QED BY <2>3, <3>1, OpenSafe, FinishSafe, PidSafe DEF WriterStep
  <2>4. ASSUME NEW d \in Daemons, DaemonStep(d) \/ KillDaemon(d) PROVE DrainInv' /\ NoLoss'
    BY <2>2, <2>4, PromoteSafe, DrainerQuietSafe DEF DaemonStep, Procs, Drainers
  <2>5. ASSUME NEW i \in Ingesters, IngesterStep(i) PROVE DrainInv' /\ NoLoss'
    <3>1. CASE \E w \in Pids : IngestActive(i, w)
      BY <3>1, IngestActiveSafe
    <3> QED BY <2>2, <2>5, <3>1, DrainerQuietSafe DEF IngesterStep, Procs, Drainers
  <2> QED BY <2>1, <2>2, <2>3, <2>4, <2>5 DEF Next, Procs
<1> QED BY <1>1 DEF IInv

\* With no two rotations of a file in one millisecond, the invariant holds in
\* every behaviour, so the drainers never mistake one file for another.
THEOREM InvariantHolds == ASSUME ~StampReuse PROVE Spec => []IInv
<1>1. Init => IInv
  <2> SUFFICES ASSUME Init PROVE IInv
    OBVIOUS
  <2>1. TypeOK
    BY BoundsAssumption
    DEF Init, TypeOK, WritersOK, FilesOK, RecordsOK, LoopsOK, Content
  <2>2. DrainInv
    BY DEF Init, DrainInv, FreshNames, WholeReads
  <2>3. NoLoss
    BY DEF Init, NoLoss
  <2> QED BY <2>1, <2>2, <2>3 DEF IInv
<1>2. IInv /\ TypeOK' /\ [Next]_vars => IInv'
  BY IInvStep
<1> QED BY <1>1, <1>2, TypeCorrect, PTL DEF Spec

\* Then no record a harness was told is recorded is ever lost.
THEOREM NoRecordLost == ASSUME ~StampReuse PROVE Spec => []NoLoss
<1>1. IInv => NoLoss
  BY DEF IInv
<1> QED BY <1>1, InvariantHolds, PTL

\* Then closed and quarantined files never share a name, a drainer that read a file
\* still present has all of it, and it goes on to unlink only what is stored.
THEOREM DrainersSafe == ASSUME ~StampReuse PROVE Spec => []DrainInv
<1>1. IInv => DrainInv
  BY DEF IInv
<1> QED BY <1>1, InvariantHolds, PTL

\* Which actions change the directories other than by adding a closed file.
LEMMA OnlyDrainersRemove ==
  ASSUME IInv, [Next]_vars, NEW n, n \in DOMAIN closed \ DOMAIN closed'
  PROVE  \E p \in Procs : Unlink(p) \/ Quarantine(p)
<1>1. ~UNCHANGED closed
  OBVIOUS
<1>2. ASSUME NEW w, NEW kind, NEW m PROVE ~CloseFile(w, kind, m)
  BY DEF CloseFile, Put
<1>3. \A w \in Pids : \A c : ~NextFile(w, c)
  BY <1>1, <1>2 DEF NextFile
<1>4. ASSUME NEW w \in Pids, WriterStep(w) PROVE FALSE
  <2>1. \A r \in Records : ~RecordLive(w, r) /\ ~RecordSpool(w, r) /\ ~CrashInAppend(w, r)
    BY <1>1, <1>3 DEF RecordLive, RecordSpool, CrashInAppend
  <2>2. \A how : ~Finish(w, how)
    BY <1>1, <1>2 DEF Finish, Rotate
  <2> QED BY <1>1, <1>4, <2>1, <2>2 DEF WriterStep, Open, Sweep, Finished, Crash, Foreign, Age
<1>5. \A p \in Procs : ~(Read(p) \/ Commit(p) \/ CommitThrows(p))
  BY <1>1 DEF Read, Commit, CommitThrows
<1>6. ASSUME NEW d \in Daemons
      PROVE  ~(StartPromotion(d) \/ CheckStale(d) \/ Promote(d) \/ StartDrain(d)
               \/ Restart(d) \/ KillDaemon(d))
  BY <1>1, <1>2 DEF StartPromotion, CheckStale, Promote, StartDrain, Restart, KillDaemon
<1>7. ASSUME NEW i \in Ingesters
      PROVE  /\ ~IngestClosed(i) /\ ~KillIngester(i)
             /\ \A w \in Pids : ~IngestActive(i, w)
  BY <1>1, <1>2 DEF IngestClosed, KillIngester, IngestActive
<1>8. PICK p \in Procs : DrainStep(p)
  BY <1>1, <1>4, <1>6, <1>7
  DEF Next, vars, DaemonStep, IngesterStep, Procs, Drainers
<1> QED BY <1>5, <1>8 DEF DrainStep

\* Nothing but a quarantine changes the quarantine directory.
LEMMA OnlyQuarantineAdds ==
  ASSUME [Next]_vars
  PROVE  UNCHANGED failed \/ \E p \in Procs : Quarantine(p)
<1>1. ASSUME NEW p \in Procs, DrainStep(p) PROVE UNCHANGED failed \/ Quarantine(p)
  BY <1>1 DEF DrainStep, Read, Commit, CommitThrows, Unlink
<1>2. ASSUME NEW w \in Pids, WriterStep(w) PROVE UNCHANGED failed
  BY <1>2 DEF WriterStep, Open, RecordLive, RecordSpool, CrashInAppend, Finish, Sweep,
              Finished, Crash, Foreign, Age
<1>3. ASSUME NEW d \in Daemons, DaemonStep(d) \/ KillDaemon(d)
      PROVE  UNCHANGED failed \/ Quarantine(d)
  BY <1>1, <1>3 DEF DaemonStep, StartPromotion, CheckStale, Promote, StartDrain, KillDaemon,
                    Restart, Procs, Drainers
<1>4. ASSUME NEW i \in Ingesters, IngesterStep(i)
      PROVE  UNCHANGED failed \/ Quarantine(i)
  BY <1>1, <1>4 DEF IngesterStep, IngestClosed, IngestActive, KillIngester, Procs, Drainers
<1> QED BY <1>1, <1>2, <1>3, <1>4 DEF Next, vars, Procs, Drainers

\* A file leaves the spool directory with its records stored, or whole into
\* quarantine.
LEMMA LeavingStored ==
  ASSUME IInv, [Next]_vars, NEW n, n \in DOMAIN closed \ DOMAIN closed'
  PROVE  \/ closed[n].recs \subseteq stored
         \/ n \in DOMAIN failed' /\ failed'[n] = closed[n]
<1>1. PICK p \in Procs : Unlink(p) \/ Quarantine(p)
  BY OnlyDrainersRemove
<1>2. CASE Unlink(p)
  <2>1. pc[p] = "committed" /\ cur[p] \in DOMAIN closed /\ n = cur[p]
    BY <1>2 DEF Unlink, Drop
  <2>2. closed[n].recs \subseteq buf[p] /\ buf[p] \subseteq stored
    BY <2>1 DEF IInv, DrainInv, WholeReads
  <2> QED BY <2>2
<1>3. CASE Quarantine(p)
  <2>1. /\ n = cur[p] /\ n \in DOMAIN closed
        /\ failed' = Put(failed, cur[p], closed[cur[p]])
    BY <1>3 DEF Quarantine, Drop
  <2> QED BY <2>1 DEF Put
<1> QED BY <1>1, <1>2, <1>3

\* What is in quarantine stays there as it is.
LEMMA QuarantineStays ==
  ASSUME IInv, [Next]_vars, NEW n \in DOMAIN failed
  PROVE  n \in DOMAIN failed' /\ failed'[n] = failed[n]
<1>1. CASE UNCHANGED failed
  BY <1>1
<1>2. CASE \E p \in Procs : Quarantine(p)
  <2>1. PICK p \in Procs : Quarantine(p)
    BY <1>2
  <2>2. CASE /\ cur[p] \in DOMAIN closed
             /\ failed' = Put(failed, cur[p], closed[cur[p]])
    <3>1. cur[p] \notin DOMAIN failed
      BY <2>2 DEF IInv, DrainInv, FreshNames
    <3> QED BY <2>2, <3>1 DEF Put
  <2> QED BY <1>1, <2>1, <2>2 DEF Quarantine
<1> QED BY <1>1, <1>2, OnlyQuarantineAdds

\* A closed file leaves the spool with its records stored, or whole into
\* quarantine, and stays there as it is, in every behaviour
\* (SpoolPipeline!LeavesStoredOrWhole).
THEOREM FilesLeaveStoredOrWhole == ASSUME ~StampReuse PROVE Spec => LeavesStoredOrWhole
<1>1. IInv /\ [Next]_vars =>
        [/\ \A n \in DOMAIN closed \ DOMAIN closed' :
              \/ closed[n].recs \subseteq stored
              \/ n \in DOMAIN failed' /\ failed'[n] = closed[n]
         /\ \A n \in DOMAIN failed : n \in DOMAIN failed' /\ failed'[n] = failed[n]]_vars
  BY LeavingStored, QuarantineStays
<1> QED BY <1>1, InvariantHolds, PTL DEF Spec, LeavesStoredOrWhole
-----------------------------------------------------------------------------
(* The spool keeps the promise of Delivery                                 *)
(*                                                                         *)
(* That a step of the files is a step of Delivery needs to know that no    *)
(* record is in two files of the spool, that one not yet called is         *)
(* nowhere, and that what a drainer read is still somewhere.               *)

\* The abstract variable pending, and all a directory or the database knows.
Pending == Recs(active) \cup Recs(closed)
Known == Pending \cup stored \cup Recs(failed)
Disjoint(dir) == \A m, n \in DOMAIN dir : m # n => dir[m].recs \cap dir[n].recs = {}

\* No record is in two files of the spool directory.
OneFile == Disjoint(active) /\ Disjoint(closed) /\ Recs(active) \cap Recs(closed) = {}
KnownCalled == Known \subseteq called
ReadsKnown == \A p \in Procs : pc[p] = "read" => buf[p] \subseteq Known

RInv == OneFile /\ KnownCalled /\ ReadsKnown

\* What a directory held under a name, present or not.
Held(dir, n) == IF n \in DOMAIN dir THEN dir[n].recs ELSE {}

\* Writing a name replaces what it held, exactly.
LEMMA PutExact ==
  ASSUME NEW dir, Disjoint(dir), NEW n, NEW c,
         c.recs \cap (Recs(dir) \ Held(dir, n)) = {}
  PROVE  /\ Disjoint(Put(dir, n, c))
         /\ Recs(Put(dir, n, c)) = (Recs(dir) \ Held(dir, n)) \cup c.recs
<1> DEFINE new == Put(dir, n, c)
<1>1. /\ DOMAIN new = DOMAIN dir \cup {n}
      /\ new[n] = c
      /\ \A x \in DOMAIN dir : x # n => new[x] = dir[x]
  BY DEF Put
<1>2. ASSUME NEW x \in DOMAIN dir, x # n
      PROVE  dir[x].recs \subseteq Recs(dir) \ Held(dir, n)
  <2>1. dir[x].recs \subseteq Recs(dir)
    BY RecsIn
  <2>2. dir[x].recs \cap Held(dir, n) = {}
    BY <1>2 DEF Disjoint, Held
  <2> QED BY <2>1, <2>2
<1> HIDE DEF new
<1>3. Disjoint(new)
  <2> SUFFICES ASSUME NEW x \in DOMAIN new, NEW y \in DOMAIN new, x # y
               PROVE  new[x].recs \cap new[y].recs = {}
    BY DEF Disjoint
  <2>1. CASE x # n /\ y # n
    BY <1>1, <2>1 DEF Disjoint
  <2>2. CASE x = n
    BY <1>1, <1>2, <2>2
  <2>3. CASE y = n
    BY <1>1, <1>2, <2>3
  <2> QED BY <2>1, <2>2, <2>3
<1>4. Recs(new) \subseteq (Recs(dir) \ Held(dir, n)) \cup c.recs
  <2> SUFFICES ASSUME NEW r \in Recs(new), r \notin c.recs
               PROVE  r \in Recs(dir) \ Held(dir, n)
    OBVIOUS
  <2>1. PICK x \in DOMAIN new : r \in new[x].recs
    BY RecsOut
  <2>2. x # n
    BY <1>1, <2>1
  <2> QED BY <1>1, <1>2, <2>1, <2>2
<1>5. (Recs(dir) \ Held(dir, n)) \cup c.recs \subseteq Recs(new)
  <2>1. c.recs \subseteq Recs(new)
    BY <1>1, RecsIn
  <2>2. ASSUME NEW r \in Recs(dir), r \notin Held(dir, n) PROVE r \in Recs(new)
    <3>1. PICK x \in DOMAIN dir : r \in dir[x].recs
      BY RecsOut
    <3>2. x # n
      BY <2>2, <3>1 DEF Held
    <3>3. x \in DOMAIN new /\ new[x] = dir[x]
      BY <1>1, <3>2
    <3>4. new[x].recs \subseteq Recs(new)
      BY <3>3, RecsIn
    <3> QED BY <3>1, <3>3, <3>4
  <2> QED BY <2>1, <2>2
<1>6. Disjoint(new) /\ Recs(new) = (Recs(dir) \ Held(dir, n)) \cup c.recs
  BY <1>3, <1>4, <1>5
<1> QED BY <1>6 DEF new

\* Removing a name removes what it held, exactly.
LEMMA DropExact ==
  ASSUME NEW dir, Disjoint(dir), NEW n
  PROVE  /\ Disjoint(Drop(dir, n))
         /\ Recs(Drop(dir, n)) = Recs(dir) \ Held(dir, n)
<1> DEFINE new == Drop(dir, n)
<1>1. /\ DOMAIN new = DOMAIN dir \ {n}
      /\ \A x \in DOMAIN new : new[x] = dir[x]
  BY DEF Drop
<1> HIDE DEF new
<1>2. Disjoint(new)
  BY <1>1 DEF Disjoint
<1>3. ASSUME NEW r \in Recs(new) PROVE r \in Recs(dir) \ Held(dir, n)
  <2>1. PICK x \in DOMAIN new : r \in new[x].recs
    BY RecsOut
  <2>2. x \in DOMAIN dir /\ x # n /\ r \in dir[x].recs
    BY <1>1, <2>1
  <2>3. dir[x].recs \subseteq Recs(dir)
    BY <2>2, RecsIn
  <2>4. r \notin Held(dir, n)
    BY <2>2 DEF Disjoint, Held
  <2> QED BY <2>2, <2>3, <2>4
<1>4. ASSUME NEW r \in Recs(dir), r \notin Held(dir, n) PROVE r \in Recs(new)
  <2>1. PICK x \in DOMAIN dir : r \in dir[x].recs
    BY RecsOut
  <2>2. x # n
    BY <1>4, <2>1 DEF Held
  <2>3. x \in DOMAIN new /\ new[x] = dir[x]
    BY <1>1, <2>2
  <2>4. new[x].recs \subseteq Recs(new)
    BY <2>3, RecsIn
  <2> QED BY <2>1, <2>3, <2>4
<1>5. Disjoint(new) /\ Recs(new) = Recs(dir) \ Held(dir, n)
  BY <1>2, <1>3, <1>4
<1> QED BY <1>5 DEF new

\* A new name adds what it holds, exactly.
LEMMA PutNewRecs ==
  ASSUME NEW dir, NEW n, n \notin DOMAIN dir, NEW c
  PROVE  Recs(Put(dir, n, c)) = Recs(dir) \cup c.recs
<1> DEFINE new == Put(dir, n, c)
<1>1. /\ DOMAIN new = DOMAIN dir \cup {n}
      /\ new[n] = c
      /\ \A x \in DOMAIN dir : new[x] = dir[x]
  BY DEF Put
<1> HIDE DEF new
<1>2. Recs(dir) \cup c.recs \subseteq Recs(new)
  <2>1. c.recs \subseteq Recs(new)
    BY <1>1, RecsIn
  <2>2. ASSUME NEW r \in Recs(dir) PROVE r \in Recs(new)
    <3>1. PICK x \in DOMAIN dir : r \in dir[x].recs
      BY RecsOut
    <3>2. new[x].recs \subseteq Recs(new)
      BY <1>1, RecsIn
    <3> QED BY <1>1, <3>1, <3>2
  <2> QED BY <2>1, <2>2
<1>3. ASSUME NEW r \in Recs(new), r \notin c.recs PROVE r \in Recs(dir)
  <2>1. PICK x \in DOMAIN new : r \in new[x].recs
    BY RecsOut
  <2>2. x \in DOMAIN dir /\ r \in dir[x].recs
    BY <1>1, <1>3, <2>1
  <2>3. dir[x].recs \subseteq Recs(dir)
    BY <2>2, RecsIn
  <2> QED BY <2>2, <2>3
<1>4. Recs(new) = Recs(dir) \cup c.recs
  BY <1>2, <1>3
<1> QED BY <1>4 DEF new

\* A step of Delivery by a record that is now called forgets nothing, and knows
\* nothing that was not called.
Moves ==
  \/ UNCHANGED <<accepted, Pending, stored, Recs(failed)>>
  \/ \E r \in called' \cap Records : Promise!Spool(r) \/ Promise!Write(r)
  \/ \E R \in SUBSET Records : Promise!Commit(R) \/ Promise!Settle(R) \/ Promise!SetAside(R)

\* So a record once known stays known, and was called.
LEMMA MovesKeep ==
  ASSUME Moves, called \subseteq called', KnownCalled
  PROVE  Known \subseteq Known' /\ KnownCalled'
<1>1. CASE UNCHANGED <<accepted, Pending, stored, Recs(failed)>>
  BY <1>1 DEF Known, KnownCalled
<1>2. ASSUME NEW r \in called', Promise!Spool(r) \/ Promise!Write(r)
      PROVE  Known \subseteq Known' /\ KnownCalled'
  BY <1>2 DEF Known, KnownCalled, Pending, Promise!Spool, Promise!Write
<1>3. ASSUME NEW R, Promise!Commit(R) \/ Promise!Settle(R) \/ Promise!SetAside(R)
      PROVE  Known \subseteq Known' /\ KnownCalled'
  BY <1>3 DEF Known, KnownCalled, Pending, Promise!Commit, Promise!Settle, Promise!SetAside
<1> QED BY <1>1, <1>2, <1>3 DEF Moves

\* The loops' steps other than a read start no read.
ReadsKept == \A q \in Procs : pc'[q] = "read" => pc[q] = "read" /\ buf'[q] = buf[q]

\* Such a step keeps the invariant when no two files share a record after it.
LEMMA StepKeeps ==
  ASSUME RInv, OneFile', Moves, called \subseteq called', ReadsKept
  PROVE  RInv'
<1>1. Known \subseteq Known' /\ KnownCalled'
  BY MovesKeep DEF RInv
<1>2. ReadsKnown'
  BY <1>1 DEF RInv, ReadsKnown, ReadsKept
<1> QED BY <1>1, <1>2 DEF RInv

\* The moves of a loop that read nothing.
LEMMA ReadsKeptMoves ==
  ASSUME TypeOK, NEW p \in Procs
  PROVE  /\ UNCHANGED <<pc, buf>> => ReadsKept
         /\ \A S : StartPass(p, S) => ReadsKept
         /\ FileDone(p) => ReadsKept
         /\ Forget(p, "idle") \/ Forget(p, "down") => ReadsKept
         /\ \A s : s # "read" /\ pc' = [pc EXCEPT ![p] = s] /\ UNCHANGED buf => ReadsKept
<1> USE DEF TypeOK, LoopsOK, ReadsKept
<1>1. UNCHANGED <<pc, buf>> => ReadsKept
  OBVIOUS
<1>2. \A S : StartPass(p, S) => ReadsKept
  BY DEF StartPass
<1>3. FileDone(p) => ReadsKept
  BY DEF FileDone
<1>4. Forget(p, "idle") \/ Forget(p, "down") => ReadsKept
  BY DEF Forget
<1>5. \A s : s # "read" /\ pc' = [pc EXCEPT ![p] = s] /\ UNCHANGED buf => ReadsKept
  OBVIOUS
<1> QED BY <1>1, <1>2, <1>3, <1>4, <1>5

\* A step that touches no file and no record.
LEMMA StillMoves ==
  ASSUME RInv, UNCHANGED <<active, closed, failed, stored, accepted, called>>
  PROVE  OneFile' /\ Moves
<1>1. OneFile'
  BY DEF RInv, OneFile, Disjoint, Recs
<1>2. Recs(active)' = Recs(active) /\ Recs(closed)' = Recs(closed) /\ Recs(failed)' = Recs(failed)
  BY DEF Recs
<1> QED BY <1>1, <1>2 DEF Moves, Pending

\* What a drainer reads is in the directory.
LEMMA ReadMoves ==
  ASSUME IInv, RInv, NEW p \in Procs, Read(p)
  PROVE  RInv' /\ Moves
<1>1. UNCHANGED <<active, closed, failed, stored, accepted, called>>
  BY DEF Read
<1>2. OneFile' /\ Moves
  BY <1>1, StillMoves
<1>3. Known' = Known
  BY <1>1 DEF Known, Pending, Recs
<1>4. KnownCalled'
  BY <1>1, <1>3 DEF RInv, KnownCalled
<1>5. PICK f \in todo[p] :
        \/ f \in DOMAIN closed /\ pc' = [pc EXCEPT ![p] = "read"]
           /\ buf' = [buf EXCEPT ![p] = closed[f].recs]
        \/ pc' = [pc EXCEPT ![p] = "error"] /\ UNCHANGED buf
  BY DEF Read
<1>6. ASSUME NEW q \in Procs, pc'[q] = "read" PROVE buf'[q] \subseteq Known
  <2>1. CASE q = p
    <3>1. f \in DOMAIN closed /\ buf'[q] = closed[f].recs
      BY <1>5, <1>6, <2>1 DEF IInv, TypeOK, LoopsOK
    <3>2. closed[f].recs \subseteq Recs(closed)
      BY <3>1, RecsIn
    <3> QED BY <3>1, <3>2 DEF Known, Pending
  <2>2. CASE q # p
    <3>1. pc[q] = "read" /\ buf'[q] = buf[q]
      BY <1>5, <1>6, <2>2 DEF IInv, TypeOK, LoopsOK
    <3> QED BY <3>1 DEF RInv, ReadsKnown
  <2> QED BY <2>1, <2>2
<1>7. ReadsKnown'
  BY <1>3, <1>6 DEF ReadsKnown
<1> QED BY <1>2, <1>4, <1>7 DEF RInv

\* A transaction commits what waits or was set aside meanwhile, and what
\* another drainer has committed already.
LEMMA CommitMoves ==
  ASSUME IInv, RInv, NEW p \in Procs, Commit(p)
  PROVE  RInv' /\ Moves
<1>1. /\ UNCHANGED <<active, closed, failed, accepted, called, buf>>
      /\ stored' = stored \cup buf[p]
      /\ buf[p] \subseteq Known /\ buf[p] \subseteq Records
  BY DEF Commit, RInv, ReadsKnown, IInv, TypeOK, LoopsOK
<1>2. /\ Recs(active)' = Recs(active) /\ Recs(closed)' = Recs(closed)
      /\ Recs(failed)' = Recs(failed) /\ OneFile'
  BY <1>1 DEF RInv, OneFile, Disjoint, Recs
<1>3. Promise!Commit(buf[p] \ stored)
  BY <1>1, <1>2 DEF Promise!Commit, Known, Pending
<1>4. Moves
  BY <1>1, <1>3 DEF Moves
<1>5. ReadsKept
  BY ReadsKeptMoves DEF Commit, IInv
<1> QED BY <1>1, <1>2, <1>4, <1>5, StepKeeps

\* An unlink ends the wait of records that are stored.
LEMMA UnlinkMoves ==
  ASSUME IInv, RInv, NEW p \in Procs, Unlink(p)
  PROVE  RInv' /\ Moves
<1>1. UNCHANGED <<active, failed, stored, accepted, called>>
  BY DEF Unlink
<1>2. ReadsKept
  BY ReadsKeptMoves DEF Unlink, IInv
<1>3. CASE cur[p] \in DOMAIN closed /\ closed' = Drop(closed, cur[p])
  <2> DEFINE R == closed[cur[p]].recs
  <2>1. R \subseteq stored /\ R \subseteq Recs(closed)
    BY <1>3, RecsIn DEF Unlink, IInv, DrainInv, WholeReads
  <2>2. Disjoint(closed') /\ Recs(closed') = Recs(closed) \ R
    BY <1>3, DropExact DEF Held, RInv, OneFile
  <2>3. Recs(active)' = Recs(active) /\ Recs(failed)' = Recs(failed) /\ Disjoint(active)'
    BY <1>1 DEF RInv, OneFile, Disjoint, Recs
  <2>4. Recs(active) \cap Recs(closed) = {}
    BY DEF RInv, OneFile
  <2> HIDE DEF R
  <2>5. OneFile'
    BY <2>2, <2>3, <2>4 DEF OneFile
  <2>6. Promise!Settle(R)
    BY <1>1, <2>1, <2>2, <2>3, <2>4 DEF Promise!Settle
  <2>7. R \subseteq Records
    BY <2>1 DEF IInv, TypeOK, RecordsOK
  <2>8. Moves
    BY <2>6, <2>7 DEF Moves
  <2> QED BY <1>1, <1>2, <2>5, <2>8, StepKeeps
<1>4. CASE UNCHANGED closed
  BY <1>1, <1>2, <1>4, StillMoves, StepKeeps
<1> QED BY <1>3, <1>4 DEF Unlink

\* A quarantine sets the records of the file aside.
LEMMA QuarantineMoves ==
  ASSUME IInv, RInv, NEW p \in Procs, Quarantine(p)
  PROVE  RInv' /\ Moves
<1>1. UNCHANGED <<active, stored, accepted, called>>
  BY DEF Quarantine
<1>2. ReadsKept
  BY ReadsKeptMoves DEF Quarantine, IInv
<1>3. CASE /\ cur[p] \in DOMAIN closed
           /\ failed' = Put(failed, cur[p], closed[cur[p]])
           /\ closed' = Drop(closed, cur[p])
  <2> DEFINE R == closed[cur[p]].recs
  <2>1. R \subseteq Recs(closed) /\ R \subseteq Records
    BY <1>3, RecsIn DEF IInv, TypeOK, FilesOK, Content
  <2>2. Disjoint(closed') /\ Recs(closed') = Recs(closed) \ R
    BY <1>3, DropExact DEF Held, RInv, OneFile
  <2>3. Recs(failed') = Recs(failed) \cup R
    <3>1. cur[p] \notin DOMAIN failed
      BY <1>3 DEF IInv, DrainInv, FreshNames
    <3> QED BY <1>3, <3>1, PutNewRecs
  <2>4. Recs(active)' = Recs(active) /\ Disjoint(active)'
    BY <1>1 DEF RInv, OneFile, Disjoint, Recs
  <2>5. Recs(active) \cap Recs(closed) = {}
    BY DEF RInv, OneFile
  <2> HIDE DEF R
  <2>6. OneFile'
    BY <2>2, <2>4, <2>5 DEF OneFile
  <2>7. Promise!SetAside(R)
    BY <1>1, <2>1, <2>2, <2>3, <2>4, <2>5 DEF Promise!SetAside
  <2>8. Moves
    BY <2>1, <2>7 DEF Moves
  <2> QED BY <1>1, <1>2, <2>6, <2>8, StepKeeps
<1>4. CASE UNCHANGED <<failed, closed>>
  BY <1>1, <1>2, <1>4, StillMoves, StepKeeps
<1> QED BY <1>3, <1>4 DEF Quarantine

\* A rename of an active file to a name with the next stamp adds its records to
\* the closed files, and nothing else.
LEMMA ClosingExact ==
  ASSUME IInv, RInv, NEW w \in DOMAIN active, NEW kind \in Kinds,
         NEW m, m = stamp[w] + 1, CloseFile(w, kind, m)
  PROVE  /\ Disjoint(closed')
         /\ Recs(closed') = Recs(closed) \cup active[w].recs
<1> DEFINE f == <<w, kind, m>>
<1>1. f \notin DOMAIN closed
  <2>1. f[1] = w /\ f[3] = m /\ w \in Pids /\ stamp[w] \in Nat
    BY DEF IInv, TypeOK, FilesOK
  <2>2. ~Used(f)
    BY <2>1 DEF Used
  <2> QED BY <2>2 DEF IInv, DrainInv, FreshNames
<1>2. closed' = Put(closed, f, active[w])
  BY DEF CloseFile
<1>3. active[w].recs \cap Recs(closed) = {} /\ Disjoint(closed)
  <2>1. active[w].recs \subseteq Recs(active)
    BY RecsIn
  <2> QED BY <2>1 DEF RInv, OneFile
<1>4. Held(closed, f) = {}
  BY <1>1 DEF Held
<1> HIDE DEF f
<1>5. /\ Disjoint(Put(closed, f, active[w]))
      /\ Recs(Put(closed, f, active[w])) = (Recs(closed) \ Held(closed, f)) \cup active[w].recs
  BY <1>3, <1>4, PutExact
<1> QED BY <1>2, <1>4, <1>5

\* So a file that leaves the active ones for the closed ones takes its records
\* along, and no promise moves.
LEMMA ClosingMoves ==
  ASSUME IInv, RInv, NEW w \in DOMAIN active, NEW kind \in Kinds,
         NEW m, m = stamp[w] + 1, CloseFile(w, kind, m), active' = Drop(active, w),
         UNCHANGED <<failed, stored, accepted, called>>
  PROVE  OneFile' /\ Moves
<1>1. Disjoint(closed') /\ Recs(closed') = Recs(closed) \cup active[w].recs
  BY ClosingExact
<1>2. Disjoint(active') /\ Recs(active') = Recs(active) \ active[w].recs
  BY DropExact DEF Held, RInv, OneFile
<1>3. active[w].recs \subseteq Recs(active) /\ Recs(active) \cap Recs(closed) = {}
  BY RecsIn DEF RInv, OneFile
<1>4. OneFile'
  BY <1>1, <1>2, <1>3 DEF OneFile
<1>5. Recs(failed)' = Recs(failed)
  BY DEF Recs
<1>6. Pending' = Pending
  BY <1>1, <1>2, <1>3 DEF Pending
<1> QED BY <1>4, <1>5, <1>6 DEF Moves

\* An append: the record is new, and it alone starts to wait.
LEMMA AppendMoves ==
  ASSUME IInv, RInv, ~StampReuse, NEW w \in Pids, NEW c \in {Present(w), Empty}, NextFile(w, c),
         NEW r \in Records, r \notin called, called' = called \cup {r},
         NEW after, active' = Put(active, w, after), UNCHANGED <<failed, stored>>,
         \/ after.recs = c.recs /\ accepted' = accepted
         \/ after.recs = c.recs \cup {r} /\ accepted' \in {accepted, accepted \cup {r}}
  PROVE  OneFile' /\ Moves
<1> DEFINE kept == Held(active, w)
<1>1. r \notin Known
  BY DEF RInv, KnownCalled
<1>2. Recs(failed)' = Recs(failed)
  BY DEF Recs
<1>3. kept \subseteq Recs(active) /\ Recs(active) \cap Recs(closed) = {} /\ Disjoint(active)
  BY RecsIn DEF RInv, OneFile, Held
<1>4. /\ Disjoint(closed')
      /\ \/ c.recs = kept /\ Recs(closed') = Recs(closed)
         \/ c.recs = {} /\ Recs(closed') = Recs(closed) \cup kept
  <2>1. CASE c = Present(w) /\ UNCHANGED <<stamp, closed>>
    <3>1. Disjoint(closed') /\ Recs(closed') = Recs(closed)
      BY <2>1 DEF RInv, OneFile
    <3> QED BY <2>1, <3>1, EmptyType DEF Present, Held
  <2>2. CASE w \in DOMAIN active /\ c = Empty /\ \E n \in Stamps(w) : CloseFile(w, "rotated", n)
    <3>1. PICK n \in Stamps(w) : CloseFile(w, "rotated", n)
      BY <2>2
    <3>2. n = stamp[w] + 1
      BY <3>1 DEF Stamps
    <3>3. Disjoint(closed') /\ Recs(closed') = Recs(closed) \cup active[w].recs
      BY <2>2, <3>1, <3>2, ClosingExact DEF Kinds
    <3> QED BY <2>2, <3>3, EmptyType DEF Held
  <2> QED BY <2>1, <2>2 DEF NextFile
<1>5. after.recs \cap (Recs(active) \ kept) = {}
  BY <1>1, <1>3, <1>4 DEF Known, Pending
<1>6. Disjoint(active') /\ Recs(active') = (Recs(active) \ kept) \cup after.recs
  BY <1>3, <1>5, PutExact
<1> HIDE DEF kept
<1>7. Recs(active') \cap Recs(closed') = {}
  BY <1>1, <1>3, <1>4, <1>6 DEF Known, Pending
<1>8. OneFile'
  BY <1>4, <1>6, <1>7 DEF OneFile
<1>9. CASE after.recs = c.recs /\ accepted' = accepted
  <2>1. Pending' = Pending
    BY <1>3, <1>4, <1>6, <1>9 DEF Pending
  <2> QED BY <1>2, <1>8, <1>9, <2>1 DEF Moves
<1>10. CASE after.recs = c.recs \cup {r} /\ accepted' \in {accepted, accepted \cup {r}}
  <2>1. Pending' = Pending \cup {r}
    BY <1>3, <1>4, <1>6, <1>10 DEF Pending
  <2>2. Promise!Spool(r)
    BY <1>1, <1>2, <1>10, <2>1 DEF Promise!Spool, Promise!Known, Known, Pending
  <2> QED BY <1>8, <2>2 DEF Moves
<1> QED BY <1>9, <1>10

\* A call that spools.
LEMMA RecordSpoolMoves ==
  ASSUME IInv, RInv, ~StampReuse, NEW w \in Pids, NEW r \in Records, RecordSpool(w, r)
  PROVE  RInv' /\ Moves
<1>1. PICK c \in {Present(w), Empty} :
        NextFile(w, c) /\ active' = Put(active, w, WithLine(c, r))
  BY DEF RecordSpool
<1>2. WithLine(c, r).recs = c.recs \cup {r}
  BY <1>1, NextFileType DEF IInv, WithLine, Content
<1>3. /\ r \notin called /\ called' = called \cup {r} /\ accepted' = accepted \cup {r}
      /\ UNCHANGED <<failed, stored, pc, buf>>
  BY DEF RecordSpool, Return
<1>4. OneFile' /\ Moves
  BY <1>1, <1>2, <1>3, AppendMoves
<1>5. ReadsKept
  BY <1>3, ReadsKeptMoves DEF IInv, Procs
<1> QED BY <1>3, <1>4, <1>5, StepKeeps

\* A crash inside an append.
LEMMA CrashInAppendMoves ==
  ASSUME IInv, RInv, ~StampReuse, NEW w \in Pids, NEW r \in Records, CrashInAppend(w, r)
  PROVE  RInv' /\ Moves
<1>1. PICK c \in {Present(w), Empty} :
        /\ NextFile(w, c)
        /\ \E after \in {c, [c EXCEPT !.torn = TRUE], WithLine(c, r)} :
             active' = Put(active, w, after)
  BY DEF CrashInAppend
<1>2. PICK after \in {c, [c EXCEPT !.torn = TRUE], WithLine(c, r)} :
        active' = Put(active, w, after)
  BY <1>1
<1>3. after.recs = c.recs \/ after.recs = c.recs \cup {r}
  <2>1. c \in Content
    BY <1>1, NextFileType DEF IInv
  <2>2. [c EXCEPT !.torn = TRUE].recs = c.recs
    BY <2>1 DEF Content
  <2>3. WithLine(c, r).recs = c.recs \cup {r}
    BY <2>1 DEF WithLine, Content
  <2> QED BY <2>2, <2>3
<1>4. /\ r \notin called /\ called' = called \cup {r} /\ accepted' = accepted
      /\ UNCHANGED <<failed, stored, pc, buf>>
  BY DEF CrashInAppend
<1>5. OneFile' /\ Moves
  BY <1>1, <1>2, <1>3, <1>4, AppendMoves
<1>6. ReadsKept
  BY <1>4, ReadsKeptMoves DEF IInv, Procs
<1> QED BY <1>4, <1>5, <1>6, StepKeeps

\* A call that writes to the database.
LEMMA RecordLiveMoves ==
  ASSUME IInv, RInv, NEW w \in Pids, NEW r \in Records, RecordLive(w, r)
  PROVE  RInv' /\ Moves
<1>1. /\ r \notin called /\ called' = called \cup {r} /\ accepted' = accepted \cup {r}
      /\ stored' = stored \cup {r} /\ UNCHANGED <<active, closed, failed, pc, buf>>
  BY DEF RecordLive, Return
<1>2. /\ Recs(active)' = Recs(active) /\ Recs(closed)' = Recs(closed)
      /\ Recs(failed)' = Recs(failed) /\ OneFile'
  BY <1>1 DEF RInv, OneFile, Disjoint, Recs
<1>3. r \notin Known
  BY <1>1 DEF RInv, KnownCalled
<1>4. Promise!Write(r)
  BY <1>1, <1>2, <1>3 DEF Promise!Write, Promise!Known, Known, Pending
<1>5. Moves
  BY <1>1, <1>4 DEF Moves
<1>6. ReadsKept
  BY <1>1, ReadsKeptMoves DEF IInv, Procs
<1> QED BY <1>1, <1>2, <1>5, <1>6, StepKeeps

\* Flush and close.
LEMMA FinishMoves ==
  ASSUME IInv, RInv, ~StampReuse, NEW w \in Pids, NEW how \in {"flush", "close"}, Finish(w, how)
  PROVE  RInv' /\ Moves
<1>1. PICK S \in SUBSET ({w} \X {"rotated"} \X Stamps(w)) :
        /\ Rotate(w, S)
        /\ IF writable[w] /\ S # {} THEN StartPass(w, S) ELSE UNCHANGED loopVars
  BY DEF Finish
<1>2. UNCHANGED <<failed, stored, accepted, called>> /\ w \in Procs
  BY DEF Finish, Procs
<1>3. ReadsKept
  BY <1>1, <1>2, ReadsKeptMoves DEF IInv
<1>4. CASE UNCHANGED <<active, stamp, closed>>
  BY <1>2, <1>3, <1>4, StillMoves, StepKeeps
<1>5. CASE /\ w \in DOMAIN active /\ active[w] = Empty
           /\ active' = Drop(active, w) /\ UNCHANGED <<stamp, closed>>
  <2>1. Disjoint(active') /\ Recs(active') = Recs(active)
    BY <1>5, DropExact, EmptyType DEF Held, RInv, OneFile
  <2>2. /\ Disjoint(closed') /\ Recs(closed)' = Recs(closed) /\ Recs(failed)' = Recs(failed)
        /\ Recs(active) \cap Recs(closed) = {}
    BY <1>2, <1>5 DEF RInv, OneFile, Recs
  <2>3. OneFile' /\ Moves
    BY <1>2, <2>1, <2>2 DEF OneFile, Moves, Pending
  <2> QED BY <1>2, <1>3, <2>3, StepKeeps
<1>6. CASE /\ w \in DOMAIN active /\ active' = Drop(active, w)
           /\ \E n \in Stamps(w) : CloseFile(w, "rotated", n)
  <2>1. PICK n \in Stamps(w) : CloseFile(w, "rotated", n)
    BY <1>6
  <2>2. n = stamp[w] + 1
    BY <2>1 DEF Stamps
  <2>3. OneFile' /\ Moves
    BY <1>2, <1>6, <2>1, <2>2, ClosingMoves DEF Kinds
  <2> QED BY <1>2, <1>3, <2>3, StepKeeps
<1> QED BY <1>1, <1>4, <1>5, <1>6 DEF Rotate

\* A promotion, of a file that has gone as well.
LEMMA PromoteMoves ==
  ASSUME IInv, RInv, NEW d \in Daemons, Promote(d)
  PROVE  RInv' /\ Moves
<1>1. UNCHANGED <<failed, stored, accepted, called, buf>> /\ d \in Procs
  BY DEF Promote, Procs, Drainers
<1>2. ReadsKept
  BY <1>1, ReadsKeptMoves DEF IInv, Promote
<1>3. CASE cur[d] \notin DOMAIN active
  <2>1. UNCHANGED <<active, closed>>
    BY <1>3 DEF Promote
  <2> QED BY <1>1, <1>2, <2>1, StillMoves, StepKeeps
<1>4. CASE cur[d] \in DOMAIN active
  <2>1. PICK m : m = stamp[cur[d]] + 1
    OBVIOUS
  <2>2. CloseFile(cur[d], "promoted", m) /\ active' = Drop(active, cur[d])
    BY <1>4, <2>1 DEF Promote
  <2>3. OneFile' /\ Moves
    BY <1>1, <1>4, <2>1, <2>2, ClosingMoves DEF Kinds
  <2> QED BY <1>1, <1>2, <2>3, StepKeeps
<1> QED BY <1>3, <1>4

\* An ingest of an active file.
LEMMA IngestActiveMoves ==
  ASSUME IInv, RInv, NEW i \in Ingesters, NEW w \in Pids, IngestActive(i, w)
  PROVE  RInv' /\ Moves
<1>1. UNCHANGED <<failed, stored, accepted, called>> /\ i \in Procs
  BY DEF IngestActive, Procs, Drainers
<1>2. ReadsKept
  BY <1>1, ReadsKeptMoves DEF IInv, IngestActive
<1>3. PICK m : m = stamp[w] + 1
  OBVIOUS
<1>4. w \in DOMAIN active /\ CloseFile(w, "manual", m) /\ active' = Drop(active, w)
  BY <1>3 DEF IngestActive
<1>5. OneFile' /\ Moves
  BY <1>1, <1>3, <1>4, ClosingMoves DEF Kinds
<1> QED BY <1>1, <1>2, <1>5, StepKeeps

\* The steps that touch neither files nor records.
LEMMA QuietMoves ==
  ASSUME IInv, RInv, NEW p \in Procs,
         \/ p \in Pids /\ (Open(p) \/ Sweep(p) \/ Finished(p) \/ Crash(p) \/ Foreign(p) \/ Age(p))
         \/ CommitThrows(p) \/ StartPromotion(p) \/ CheckStale(p) \/ StartDrain(p)
         \/ KillDaemon(p) \/ Restart(p) \/ IngestClosed(p) \/ KillIngester(p)
  PROVE  RInv' /\ Moves
<1>1. UNCHANGED <<active, closed, failed, stored, accepted, called>>
  BY DEF Open, Sweep, Finished, Crash, Foreign, Age, CommitThrows, StartPromotion, CheckStale,
         StartDrain, KillDaemon, Restart, IngestClosed, KillIngester
<1>2. \/ UNCHANGED <<pc, buf>> \/ \E S : StartPass(p, S)
      \/ Forget(p, "idle") \/ Forget(p, "down")
      \/ \E s : s # "read" /\ pc' = [pc EXCEPT ![p] = s] /\ UNCHANGED buf
  BY DEF Open, Sweep, Finished, Crash, Foreign, Age, CommitThrows, StartPromotion, CheckStale,
         StartDrain, KillDaemon, Restart, IngestClosed, KillIngester
<1>3. ReadsKept
  BY <1>2, ReadsKeptMoves DEF IInv
<1> QED BY <1>1, <1>3, StillMoves, StepKeeps

\* Every step of the spool is one of Delivery, or none.
LEMMA RInvStep ==
  ASSUME ~StampReuse, IInv, RInv, [Next]_vars
  PROVE  RInv' /\ Moves
<1>1. CASE UNCHANGED vars
  <2>1. UNCHANGED <<active, closed, failed, stored, accepted, called, pc, buf>>
    BY <1>1 DEF vars
  <2>2. ReadsKept
    BY <2>1 DEF ReadsKept
  <2> QED BY <2>1, <2>2, StillMoves, StepKeeps
<1>2. ASSUME NEW p \in Procs, DrainStep(p) PROVE RInv' /\ Moves
  BY <1>2, ReadMoves, CommitMoves, UnlinkMoves, QuarantineMoves, QuietMoves DEF DrainStep
<1>3. ASSUME NEW w \in Pids, WriterStep(w) PROVE RInv' /\ Moves
  <2>1. CASE \E r \in Records : RecordLive(w, r) \/ RecordSpool(w, r) \/ CrashInAppend(w, r)
    BY <2>1, RecordLiveMoves, RecordSpoolMoves, CrashInAppendMoves
  <2> QED BY <1>3, <2>1, FinishMoves, QuietMoves DEF WriterStep, Procs
<1>4. ASSUME NEW d \in Daemons, DaemonStep(d) \/ KillDaemon(d) PROVE RInv' /\ Moves
  BY <1>2, <1>4, PromoteMoves, QuietMoves DEF DaemonStep, Procs, Drainers
<1>5. ASSUME NEW i \in Ingesters, IngesterStep(i) PROVE RInv' /\ Moves
  BY <1>2, <1>5, IngestActiveMoves, QuietMoves DEF IngesterStep, Procs, Drainers
<1> QED BY <1>1, <1>2, <1>3, <1>4, <1>5 DEF Next, Procs

\* A record waits in one file, known records were called, and what a drainer read is
\* still known.
THEOREM OneFileHolds == ASSUME ~StampReuse PROVE Spec => []RInv
<1>1. Init => RInv
  BY DEF Init, RInv, OneFile, KnownCalled, ReadsKnown, Known, Pending, Disjoint, Recs
<1>2. IInv /\ RInv /\ [Next]_vars => RInv'
  BY RInvStep
<1> QED BY <1>1, <1>2, InvariantHolds, PTL DEF Spec

\* The files, the processes and their transactions implement Delivery: whatever is
\* interleaved, crashes or fails, a record once taken waits, is stored or is set aside.
THEOREM PromiseKept == ASSUME ~StampReuse PROVE Spec => KeepsPromise
<1>1. Init => Promise!Init
  BY DEF Init, Promise!Init, Recs
<1>2. IInv /\ RInv /\ [Next]_vars => [Promise!Next]_Promise!vars
  <2> SUFFICES ASSUME IInv, RInv, [Next]_vars PROVE [Promise!Next]_Promise!vars
    OBVIOUS
  <2>1. Moves
    BY RInvStep
  <2> QED BY <2>1 DEF Moves, Pending, Promise!Next, Promise!vars
<1> QED BY <1>1, <1>2, InvariantHolds, OneFileHolds, PTL DEF Spec, KeepsPromise, Promise!Spec
-----------------------------------------------------------------------------
(* A daemon alone commits a record once                                    *)
(*                                                                         *)
(* With spool-only writers and no manual ingest nobody but the daemon      *)
(* takes files away, so what it read is in the directory until it has      *)
(* unlinked it, and only the file it has just committed is stored.         *)

\* The setting: one daemon, no manual ingest, writers without a database.
DaemonAlone(d) == Daemons = {d} /\ Ingesters = {} /\ WriterModes \subseteq {FALSE}

WritersSpool == \A w \in Pids : ~writable[w] /\ ~onClose[w] /\ pc[w] = "idle"

\* Nothing in the spool is stored but the file just committed, and the file the
\* daemon holds is still what it read.
NothingSpent(d) ==
  /\ twice = {}
  /\ stored \cap Recs(active) = {}
  /\ \A n \in DOMAIN closed :
       (pc[d] = "committed" /\ cur[d] = n) \/ stored \cap closed[n].recs = {}
  /\ pc[d] \in {"read", "committed"} =>
       cur[d] \in DOMAIN closed /\ closed[cur[d]].recs = buf[d]

OInv(d) == WritersSpool /\ (faults = 0 => NothingSpent(d))

\* The file of the daemon stays, and what is new in the directories is not stored.
LEMMA SpentStep ==
  ASSUME NEW d, NothingSpent(d), UNCHANGED <<stored, twice>>,
         stored \cap Recs(active)' = {},
         \A n \in DOMAIN closed : n \in DOMAIN closed' /\ closed'[n] = closed[n],
         \A n \in DOMAIN closed' \ DOMAIN closed : stored \cap closed'[n].recs = {},
         \/ pc'[d] = pc[d] /\ cur'[d] = cur[d] /\ buf'[d] = buf[d]
         \/ pc[d] # "committed" /\ pc'[d] \notin {"read", "committed"}
  PROVE  NothingSpent(d)'
<1>1. ASSUME NEW n \in DOMAIN closed'
      PROVE  (pc'[d] = "committed" /\ cur'[d] = n) \/ stored' \cap closed'[n].recs = {}
  <2>1. CASE n \in DOMAIN closed
    BY <2>1 DEF NothingSpent
  <2>2. CASE n \notin DOMAIN closed
    BY <2>2
  <2> QED BY <2>1, <2>2
<1>2. ASSUME pc'[d] \in {"read", "committed"}
      PROVE  cur'[d] \in DOMAIN closed' /\ closed'[cur'[d]].recs = buf'[d]
  <2>1. cur'[d] = cur[d] /\ buf'[d] = buf[d] /\ pc'[d] = pc[d]
    BY <1>2
  <2>2. cur[d] \in DOMAIN closed /\ closed[cur[d]].recs = buf[d]
    BY <1>2, <2>1 DEF NothingSpent
  <2> QED BY <2>1, <2>2
<1> QED BY <1>1, <1>2 DEF NothingSpent

\* A new closed file is what an active file was: none of it is stored.
LEMMA SpentClosing ==
  ASSUME IInv, NEW d, NothingSpent(d), NEW w \in DOMAIN active, NEW kind \in Kinds,
         NEW m, m = stamp[w] + 1, CloseFile(w, kind, m)
  PROVE  /\ \A n \in DOMAIN closed : n \in DOMAIN closed' /\ closed'[n] = closed[n]
         /\ \A n \in DOMAIN closed' \ DOMAIN closed : stored \cap closed'[n].recs = {}
<1> DEFINE f == <<w, kind, m>>
<1>1. f \notin DOMAIN closed
  <2>1. f[1] = w /\ f[3] = m /\ w \in Pids /\ stamp[w] \in Nat
    BY DEF IInv, TypeOK, FilesOK
  <2>2. ~Used(f)
    BY <2>1 DEF Used
  <2> QED BY <2>2 DEF IInv, DrainInv, FreshNames
<1>2. closed' = Put(closed, f, active[w])
  BY DEF CloseFile
<1>3. stored \cap active[w].recs = {}
  BY RecsIn DEF NothingSpent
<1> HIDE DEF f
<1>4. /\ DOMAIN closed' = DOMAIN closed \cup {f}
      /\ closed'[f] = active[w]
      /\ \A x \in DOMAIN closed : x # f => closed'[x] = closed[x]
  BY <1>2 DEF Put
<1> QED BY <1>1, <1>3, <1>4

\* Writers that only spool never drain.
LEMMA WritersSpoolStep ==
  ASSUME NEW d, DaemonAlone(d), TypeOK, WritersSpool, [Next]_vars
  PROVE  WritersSpool'
<1>1. CASE UNCHANGED <<writable, onClose>> /\ \A w \in Pids : pc'[w] = pc[w]
  BY <1>1 DEF WritersSpool
<1>2. CASE UNCHANGED vars
  BY <1>1, <1>2 DEF vars
<1>3. ASSUME NEW w \in Pids, WriterStep(w) PROVE WritersSpool'
  <2>1. ~Sweep(w)
    BY DEF WritersSpool, Sweep
  <2>2. ASSUME Open(w) PROVE WritersSpool'
    <3>1. PICK m \in WriterModes, c \in BOOLEAN :
            /\ writable' = [writable EXCEPT ![w] = m]
            /\ onClose' = [onClose EXCEPT ![w] = m /\ c]
            /\ UNCHANGED loopVars \/ m
      BY <2>2 DEF Open
    <3>2. m = FALSE
      BY DEF DaemonAlone
    <3> QED BY <3>1, <3>2 DEF WritersSpool, TypeOK, WritersOK
  <2>3. ASSUME NEW how \in {"flush", "close"}, Finish(w, how) PROVE WritersSpool'
    BY <1>1, <2>3 DEF WritersSpool, Finish
  <2>4. ASSUME Finished(w) \/ Crash(w) PROVE WritersSpool'
    <3>1. Gone(w) \/ UNCHANGED <<writable, onClose>>
      BY <2>4 DEF Finished, Crash
    <3>2. \A v \in Pids : ~writable'[v] /\ ~onClose'[v]
      BY <3>1 DEF Gone, WritersSpool, TypeOK, WritersOK
    <3>3. Forget(w, "idle") \/ UNCHANGED pc
      BY <2>4 DEF Finished, Crash
    <3>4. \A v \in Pids : pc'[v] = "idle"
      BY <3>3 DEF Forget, WritersSpool, TypeOK, LoopsOK, Procs
    <3> QED BY <3>2, <3>4 DEF WritersSpool
  <2>5. ASSUME Foreign(w) \/ Age(w) PROVE WritersSpool'
    BY <1>1, <2>5 DEF Foreign, Age
  <2>6. ASSUME NEW r \in Records, RecordLive(w, r) \/ RecordSpool(w, r) PROVE WritersSpool'
    BY <1>1, <2>6 DEF RecordLive, RecordSpool
  <2>7. ASSUME NEW r \in Records, CrashInAppend(w, r) PROVE WritersSpool'
    BY <2>7 DEF CrashInAppend, Gone, WritersSpool, TypeOK, WritersOK
  <2> QED BY <1>3, <2>1, <2>2, <2>3, <2>4, <2>5, <2>6, <2>7 DEF WriterStep
<1>4. ASSUME NEW w \in Pids, DrainStep(w) PROVE FALSE
  BY <1>4 DEF DrainStep, Read, Commit, CommitThrows, Unlink, Quarantine, WritersSpool
<1>5. ASSUME DaemonStep(d) \/ KillDaemon(d) PROVE WritersSpool'
  <2>1. \A w \in Pids : w # d
    BY ProcessesAssumption DEF DaemonAlone
  <2>2. UNCHANGED <<writable, onClose>>
    BY <1>5 DEF DaemonStep, KillDaemon, DrainStep, Read, Commit, CommitThrows, Unlink, Quarantine,
                StartPromotion, CheckStale, Promote, StartDrain, Restart
  <2>3. \/ UNCHANGED pc \/ \E s : pc' = [pc EXCEPT ![d] = s]
    BY <1>5 DEF DaemonStep, KillDaemon, DrainStep, Read, Commit, CommitThrows, Unlink, Quarantine,
                StartPromotion, CheckStale, Promote, StartDrain, Restart, Forget, FileDone, StartPass
  <2> QED BY <1>1, <2>1, <2>2, <2>3 DEF TypeOK, LoopsOK, Procs
<1> QED BY <1>2, <1>3, <1>4, <1>5 DEF Next, DaemonAlone

\* The steps of the writers, all of them passive.
LEMMA WriterSpends ==
  ASSUME NEW d, DaemonAlone(d), ~StampReuse, IInv, RInv, WritersSpool, NothingSpent(d),
         NEW w \in Pids, WriterStep(w), faults' = 0, faults \in Nat
  PROVE  NothingSpent(d)'
<1>1. w # d /\ d \in Procs
  BY ProcessesAssumption DEF DaemonAlone, Procs, Drainers
<1>2. ~Fault
  BY DEF Fault
<1>3. ~Sweep(w) /\ ~Crash(w) /\ \A r \in Records : ~CrashInAppend(w, r) /\ ~RecordLive(w, r)
  BY <1>2 DEF Sweep, Crash, CrashInAppend, RecordLive, WritersSpool
<1>4. UNCHANGED <<stored, twice>>
  BY <1>3 DEF WriterStep, Open, Finish, Finished, Foreign, Age, RecordSpool
<1>5. UNCHANGED loopVars
  <2>1. ASSUME Open(w) PROVE UNCHANGED loopVars
    BY <2>1 DEF Open, DaemonAlone
  <2>2. ASSUME NEW how \in {"flush", "close"}, Finish(w, how) PROVE UNCHANGED loopVars
    BY <2>2 DEF Finish, WritersSpool
  <2> QED BY <1>3, <2>1, <2>2 DEF WriterStep, Finished, Foreign, Age, RecordSpool
<1>6. CASE UNCHANGED <<active, closed>>
  BY <1>4, <1>5, <1>6, SpentStep DEF NothingSpent, Recs
<1>7. ASSUME NEW r \in Records, RecordSpool(w, r) PROVE NothingSpent(d)'
  <2>1. PICK c \in {Present(w), Empty} :
          NextFile(w, c) /\ active' = Put(active, w, WithLine(c, r))
    BY <1>7 DEF RecordSpool
  <2>2. WithLine(c, r).recs = c.recs \cup {r}
    BY <2>1, NextFileType DEF IInv, WithLine, Content
  <2>3. r \notin stored
    BY <1>7 DEF RecordSpool, RInv, KnownCalled, Known
  <2>4. c.recs \subseteq Held(active, w) /\ Held(active, w) \subseteq Recs(active)
    BY <2>1, EmptyType, RecsIn DEF Present, Held
  <2>5. c.recs \cap (Recs(active) \ Held(active, w)) = {} /\ r \notin Recs(active)
    BY <2>4, <1>7 DEF RecordSpool, RInv, KnownCalled, Known, Pending
  <2>6. WithLine(c, r).recs \cap (Recs(active) \ Held(active, w)) = {}
    BY <2>2, <2>5
  <2>7. Recs(active') = (Recs(active) \ Held(active, w)) \cup WithLine(c, r).recs
    BY <2>1, <2>6, PutExact DEF RInv, OneFile
  <2>8. stored \cap Recs(active') = {}
    BY <2>2, <2>3, <2>4, <2>7 DEF NothingSpent
  <2>9. CASE UNCHANGED closed
    BY <1>4, <1>5, <2>8, <2>9, SpentStep
  <2>10. CASE w \in DOMAIN active /\ \E n \in Stamps(w) : CloseFile(w, "rotated", n)
    <3>1. PICK n \in Stamps(w) : CloseFile(w, "rotated", n)
      BY <2>10
    <3>2. n = stamp[w] + 1
      BY <3>1 DEF Stamps
    <3>3. /\ \A x \in DOMAIN closed : x \in DOMAIN closed' /\ closed'[x] = closed[x]
          /\ \A x \in DOMAIN closed' \ DOMAIN closed : stored \cap closed'[x].recs = {}
      BY <2>10, <3>1, <3>2, SpentClosing DEF Kinds
    <3> QED BY <1>4, <1>5, <2>8, <3>3, SpentStep
  <2> QED BY <2>1, <2>9, <2>10 DEF NextFile
<1>8. ASSUME NEW how \in {"flush", "close"}, Finish(w, how) PROVE NothingSpent(d)'
  <2>1. PICK S \in SUBSET ({w} \X {"rotated"} \X Stamps(w)) : Rotate(w, S)
    BY <1>8 DEF Finish
  <2>2. CASE UNCHANGED <<active, closed>>
    BY <1>6, <2>2
  <2>3. CASE active' = Drop(active, w)
    <3>1. stored \cap Recs(active') = {}
      BY <2>3, DropExact DEF RInv, OneFile, NothingSpent
    <3>2. CASE UNCHANGED closed
      BY <1>4, <1>5, <3>1, <3>2, SpentStep
    <3>3. CASE w \in DOMAIN active /\ \E n \in Stamps(w) : CloseFile(w, "rotated", n)
      <4>1. PICK n \in Stamps(w) : CloseFile(w, "rotated", n)
        BY <3>3
      <4>2. n = stamp[w] + 1
        BY <4>1 DEF Stamps
      <4>3. /\ \A x \in DOMAIN closed : x \in DOMAIN closed' /\ closed'[x] = closed[x]
            /\ \A x \in DOMAIN closed' \ DOMAIN closed : stored \cap closed'[x].recs = {}
        BY <3>3, <4>1, <4>2, SpentClosing DEF Kinds
      <4> QED BY <1>4, <1>5, <3>1, <4>3, SpentStep
    <3> QED BY <2>1, <2>2, <3>2, <3>3 DEF Rotate
  <2> QED BY <2>1, <2>2, <2>3 DEF Rotate
<1> QED BY <1>3, <1>6, <1>7, <1>8 DEF WriterStep, Open, Finished, Foreign, Age

\* The steps of the daemon.
LEMMA DaemonSpends ==
  ASSUME NEW d, DaemonAlone(d), ~StampReuse, IInv, RInv, NothingSpent(d),
         DaemonStep(d) \/ KillDaemon(d), faults' = 0, faults \in Nat
  PROVE  NothingSpent(d)'
<1>1. d \in Procs /\ d \in Daemons /\ pc \in [Procs -> {"idle", "pick", "read", "committed", "error",
        "scan", "promote", "down"}] /\ cur \in [Procs -> Names \cup Pids \cup {None}]
      /\ buf \in [Procs -> SUBSET Records]
  BY DEF DaemonAlone, Procs, Drainers, IInv, TypeOK, LoopsOK
<1>2. ~Fault /\ ~KillDaemon(d)
  BY DEF Fault, KillDaemon
<1>3. ASSUME UNCHANGED <<active, closed, stored, twice>>,
             pc[d] # "committed", pc'[d] \notin {"read", "committed"}
      PROVE  NothingSpent(d)'
  BY <1>3, SpentStep DEF NothingSpent, Recs
<1>4. ASSUME StartPromotion(d) \/ CheckStale(d) \/ StartDrain(d) \/ Restart(d) \/ CommitThrows(d)
      PROVE  NothingSpent(d)'
  <2>1. UNCHANGED <<active, closed, stored, twice>>
    BY <1>4 DEF StartPromotion, CheckStale, StartDrain, Restart, CommitThrows
  <2>2. pc[d] # "committed" /\ pc'[d] \notin {"read", "committed"}
    BY <1>1, <1>4 DEF StartPromotion, CheckStale, StartDrain, Restart, CommitThrows, StartPass
  <2> QED BY <1>3, <2>1, <2>2
<1>5. ASSUME Promote(d) PROVE NothingSpent(d)'
  <2>1. pc[d] # "committed" /\ pc'[d] \notin {"read", "committed"} /\ UNCHANGED <<stored, twice>>
    BY <1>1, <1>5 DEF Promote
  <2>2. CASE cur[d] \notin DOMAIN active
    BY <1>3, <1>5, <2>1, <2>2 DEF Promote
  <2>3. CASE cur[d] \in DOMAIN active
    <3>1. PICK m : m = stamp[cur[d]] + 1
      OBVIOUS
    <3>2. CloseFile(cur[d], "promoted", m) /\ active' = Drop(active, cur[d])
      BY <1>5, <2>3, <3>1 DEF Promote
    <3>3. stored \cap Recs(active') = {}
      BY <3>2, DropExact DEF RInv, OneFile, NothingSpent
    <3>4. /\ \A x \in DOMAIN closed : x \in DOMAIN closed' /\ closed'[x] = closed[x]
          /\ \A x \in DOMAIN closed' \ DOMAIN closed : stored \cap closed'[x].recs = {}
      BY <2>3, <3>1, <3>2, SpentClosing DEF Kinds
    <3> QED BY <2>1, <3>3, <3>4, SpentStep
  <2> QED BY <2>2, <2>3
<1>6. ASSUME Read(d) PROVE NothingSpent(d)'
  <2>1. UNCHANGED <<active, closed, stored, twice>> /\ pc[d] = "pick"
    BY <1>6 DEF Read
  <2>2. PICK f \in todo[d] :
          \/ /\ f \in DOMAIN closed /\ pc'[d] = "read" /\ cur'[d] = f
             /\ buf'[d] = closed[f].recs
          \/ pc'[d] = "error"
    BY <1>1, <1>6 DEF Read
  <2>3. CASE pc'[d] = "error"
    BY <1>3, <2>1, <2>3
  <2>4. CASE f \in DOMAIN closed /\ pc'[d] = "read" /\ cur'[d] = f /\ buf'[d] = closed[f].recs
    BY <2>1, <2>4 DEF NothingSpent, Recs
  <2> QED BY <2>2, <2>3, <2>4
<1>7. ASSUME Commit(d) PROVE NothingSpent(d)'
  <2>1. /\ UNCHANGED <<active, closed, cur, buf>> /\ pc[d] = "read" /\ pc'[d] = "committed"
        /\ stored' = stored \cup buf[d] /\ twice' = twice \cup (stored \cap buf[d])
    BY <1>1, <1>7 DEF Commit
  <2>2. cur[d] \in DOMAIN closed /\ closed[cur[d]].recs = buf[d]
    BY <2>1 DEF NothingSpent
  <2>3. stored \cap buf[d] = {}
    BY <2>1, <2>2 DEF NothingSpent
  <2>4. buf[d] \cap Recs(active) = {}
    BY <2>2, RecsIn DEF RInv, OneFile
  <2>5. \A n \in DOMAIN closed : n # cur[d] => closed[n].recs \cap buf[d] = {}
    BY <2>2 DEF RInv, OneFile, Disjoint
  <2>6. stored' \cap Recs(active') = {} /\ twice' = {}
    BY <2>1, <2>3, <2>4 DEF NothingSpent
  <2>7. \A n \in DOMAIN closed : n # cur[d] => stored' \cap closed[n].recs = {}
    BY <2>1, <2>5 DEF NothingSpent
  <2> QED BY <2>1, <2>2, <2>6, <2>7 DEF NothingSpent
<1>8. ASSUME Unlink(d) PROVE NothingSpent(d)'
  <2>1. /\ pc[d] = "committed" /\ UNCHANGED <<active, stored, twice>>
        /\ closed' = Drop(closed, cur[d]) /\ FileDone(d)
    BY <1>8 DEF Unlink, NothingSpent
  <2>2. pc'[d] \notin {"read", "committed"}
    BY <1>1, <2>1 DEF FileDone
  <2>3. \A n \in DOMAIN closed' : n \in DOMAIN closed /\ n # cur[d] /\ closed'[n] = closed[n]
    BY <2>1 DEF Drop
  <2> QED BY <2>1, <2>2, <2>3 DEF NothingSpent, Recs
<1>9. ASSUME Quarantine(d) PROVE NothingSpent(d)'
  <2>1. /\ pc[d] = "error" /\ UNCHANGED <<active, stored, twice>> /\ FileDone(d)
        /\ closed' = Drop(closed, cur[d]) \/ UNCHANGED closed
    BY <1>9 DEF Quarantine
  <2>2. pc'[d] \notin {"read", "committed"}
    BY <1>1, <2>1 DEF FileDone
  <2>3. \A n \in DOMAIN closed' : n \in DOMAIN closed /\ closed'[n] = closed[n]
    BY <2>1 DEF Drop
  <2> QED BY <2>1, <2>2, <2>3 DEF NothingSpent, Recs
<1> QED BY <1>2, <1>4, <1>5, <1>6, <1>7, <1>8, <1>9 DEF DaemonStep, DrainStep

\* A daemon alone, with writers that only spool: no fault, no second commit.
THEOREM OnceWithoutFaultsHolds ==
  ASSUME NEW d, DaemonAlone(d), ~StampReuse
  PROVE  Spec => []OnceWithoutFaults
<1>1. Init => OInv(d)
  BY DEF Init, OInv, WritersSpool, NothingSpent, Recs, Procs, DaemonAlone, Drainers
<1>2. IInv /\ RInv /\ OInv(d) /\ [Next]_vars => OInv(d)'
  <2> SUFFICES ASSUME IInv, RInv, OInv(d), [Next]_vars PROVE OInv(d)'
    OBVIOUS
  <2>1. WritersSpool'
    BY WritersSpoolStep DEF OInv, IInv
  <2>2. faults \in Nat
    BY BoundsAssumption DEF IInv, TypeOK
  <2>3. ASSUME faults' = 0 PROVE faults = 0
    <3>1. ASSUME NEW p, DrainStep(p) PROVE UNCHANGED faults \/ Fault
      BY <3>1 DEF DrainStep, Read, Commit, CommitThrows, Unlink, Quarantine
    <3>2. ASSUME NEW w, WriterStep(w) PROVE UNCHANGED faults \/ Fault
      BY <3>2 DEF WriterStep, Open, Finish, Sweep, Finished, Crash, Foreign, Age, RecordLive,
                  RecordSpool, CrashInAppend
    <3>3. ASSUME NEW e, DaemonStep(e) \/ KillDaemon(e) PROVE UNCHANGED faults \/ Fault
      BY <3>1, <3>3 DEF DaemonStep, KillDaemon, StartPromotion, CheckStale, Promote, StartDrain, Restart
    <3>4. ASSUME NEW i, IngesterStep(i) PROVE UNCHANGED faults \/ Fault
      BY <3>1, <3>4 DEF IngesterStep, IngestClosed, IngestActive, KillIngester
    <3>5. UNCHANGED faults \/ Fault
      BY <3>1, <3>2, <3>3, <3>4 DEF Next, vars
    <3> QED BY <2>2, <2>3, <3>5 DEF Fault
  <2>4. ASSUME faults' = 0 PROVE NothingSpent(d)'
    <3>1. NothingSpent(d) /\ WritersSpool
      BY <2>3, <2>4 DEF OInv
    <3>2. CASE UNCHANGED vars
      BY <3>1, <3>2 DEF vars, NothingSpent, Recs
    <3>3. ASSUME NEW w \in Pids, DrainStep(w) PROVE FALSE
      BY <3>1, <3>3 DEF DrainStep, Read, Commit, CommitThrows, Unlink, Quarantine, WritersSpool
    <3> QED BY <2>2, <2>4, <3>1, <3>2, <3>3, WriterSpends, DaemonSpends DEF Next, DaemonAlone
  <2> QED BY <2>1, <2>4 DEF OInv
<1>3. OInv(d) => OnceWithoutFaults
  BY DEF OInv, NothingSpent, OnceWithoutFaults
<1> QED BY <1>1, <1>2, <1>3, InvariantHolds, OneFileHolds, PTL DEF Spec
=============================================================================
