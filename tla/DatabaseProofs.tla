--------------------------- MODULE DatabaseProofs ---------------------------
(***************************************************************************)
(* What opening the database guarantees for every number of processes, of  *)
(* builds and versions, and every bound on faults.                         *)
(***************************************************************************)
EXTENDS Database, TLAPS

-----------------------------------------------------------------------------
(* The inductive invariant                                                 *)

\* The write lock is held by the process that runs a set, and no other.
OneHolder == \A p \in Processes : At(p, "running") <=> lock = p

\* Without a transaction the draft is the database.
DraftIdle == lock = NoProcess => draftVersion = version /\ draftRuns = runs

\* In one, it is the database with the set's first files, and the version is
\* moved by the first of them.
DraftPartial ==
  \A p \in Processes : lock = p =>
    /\ set[p] = version + 1 /\ set[p] <= Newest
    /\ draftVersion = IF file[p] = 1 THEN version ELSE set[p]
    /\ \A s \in Sets, f \in Files :
         draftRuns[s][f] =
           IF s <= version \/ (s = set[p] /\ f < file[p]) THEN 1 ELSE 0

\* No set is reached before those below it have run.
InOrder ==
  \A p \in Processes :
    /\ pc[p] \in {"sets", "running"} => set[p] <= version + 1
    /\ At(p, "checking") => version >= MaxKnown[build[p]]

\* The version only grows.
BeganBelow == \A p \in Processes : began[p] <= version

\* A process that has not fallen back has no reason to.
ReasonsSpool == \A p \in Processes : reason[p] # "none" => At(p, "spooling")

IInv ==
  /\ TypeOK /\ SetsWhole
  /\ OneHolder /\ DraftIdle /\ DraftPartial
  /\ InOrder /\ BeganBelow /\ ReasonsSpool /\ OutcomesJustified

-----------------------------------------------------------------------------

\* The constants are numbers, and a build's range is one.
LEMMA Numbers ==
  /\ Newest \in Nat /\ Window \in Nat /\ FileCount \in Nat /\ FileCount >= 1
  /\ MaxFaults \in Nat
  /\ \A b \in Builds : /\ MinSupported[b] \in 1 .. Newest
                       /\ MaxKnown[b] \in 1 .. Newest
                       /\ MinSupported[b] <= MaxKnown[b]
BY NumbersAssumption, BuildsAssumption

\* A new database is empty, and no open has begun.
LEMMA InitHolds == Init => IInv
<1> SUFFICES ASSUME Init PROVE IInv OBVIOUS
<1>1. TypeOK
  BY Numbers DEF Init, TypeOK, Versions, Sets, Files, Places, Reasons
<1>2. SetsWhole
  BY Numbers DEF Init, SetsWhole, Sets, Files
<1>3. OneHolder /\ DraftIdle /\ DraftPartial
  BY ProcessAssumption DEF Init, OneHolder, DraftIdle, DraftPartial, At
<1>4. InOrder /\ BeganBelow /\ ReasonsSpool /\ OutcomesJustified
  BY DEF Init, InOrder, BeganBelow, ReasonsSpool, OutcomesJustified, At
<1> QED BY <1>1, <1>2, <1>3, <1>4 DEF IInv

-----------------------------------------------------------------------------
(* Steps of a process that leave the database alone                        *)

\* Nothing is said of the transactions by a step outside them.
LEMMA OutsideHolds ==
  ASSUME IInv, NEW p \in Processes,
         UNCHANGED <<database, draft, lock>>,
         pc' \in [Processes -> Places], ~ At(p, "running"), pc'[p] # "running",
         \A q \in Processes \ {p} :
           pc'[q] = pc[q] /\ set'[q] = set[q] /\ file'[q] = file[q]
  PROVE  SetsWhole' /\ OneHolder' /\ DraftIdle' /\ DraftPartial'
<1>1. SetsWhole' /\ DraftIdle'
  BY DEF IInv, SetsWhole, DraftIdle, database, draft
<1>2. OneHolder'
  BY DEF IInv, OneHolder, At, database, draft
<1>3. DraftPartial'
  <2>1. \A q \in Processes : lock = q => q # p
    BY DEF IInv, OneHolder, At
  <2> QED BY <2>1 DEF IInv, DraftPartial, database, draft
<1> QED BY <1>1, <1>2, <1>3

\* An open begins with the version of that moment.
LEMMA StartHolds ==
  ASSUME IInv, NEW p \in Processes, NEW b \in Builds, Start(p, b) PROVE IInv'
<1> USE DEF Start, At, Goto, Spools, database, draft, migration
<1>1. TypeOK'
  BY Numbers DEF IInv, TypeOK, Versions, Sets, Files, Places, Reasons
<1>2. SetsWhole' /\ OneHolder' /\ DraftIdle' /\ DraftPartial'
  BY <1>1, OutsideHolds DEF IInv, TypeOK
<1>3. InOrder'
  BY Numbers DEF IInv, TypeOK, InOrder, Versions
<1>4. BeganBelow' /\ ReasonsSpool'
  BY Numbers DEF IInv, TypeOK, BeganBelow, ReasonsSpool, Versions
<1>5. OutcomesJustified'
  BY Numbers DEF IInv, TypeOK, InOrder, BeganBelow, ReasonsSpool, OutcomesJustified,
       Versions, StatusOf, Status
<1> QED BY <1>1, <1>2, <1>3, <1>4, <1>5 DEF IInv

\* Connecting changes nothing but the place.
LEMMA ConnectHolds == ASSUME IInv, NEW p \in Processes, Connect(p) PROVE IInv'
<1> USE DEF Connect, At, Goto, Spools, database, draft, migration
<1>1. TypeOK'
  BY Numbers DEF IInv, TypeOK, Versions, Sets, Files, Places, Reasons
<1>2. SetsWhole' /\ OneHolder' /\ DraftIdle' /\ DraftPartial'
  BY <1>1, OutsideHolds DEF IInv, TypeOK
<1>3. InOrder'
  BY Numbers DEF IInv, TypeOK, InOrder, Versions
<1>4. BeganBelow' /\ ReasonsSpool'
  BY Numbers DEF IInv, TypeOK, BeganBelow, ReasonsSpool, Versions
<1>5. OutcomesJustified'
  BY Numbers DEF IInv, TypeOK, InOrder, BeganBelow, ReasonsSpool, OutcomesJustified,
       Versions, StatusOf, Status
<1> QED BY <1>1, <1>2, <1>3, <1>4, <1>5 DEF IInv

\* A busy database is a reason to spool that claims nothing of the schema.
LEMMA BusyHolds == ASSUME IInv, NEW p \in Processes, Busy(p) PROVE IInv'
<1> USE DEF Busy, At, Goto, Spools, database, draft, migration
<1>1. TypeOK'
  BY Numbers DEF IInv, TypeOK, Versions, Sets, Files, Places, Reasons
<1>2. SetsWhole' /\ OneHolder' /\ DraftIdle' /\ DraftPartial'
  BY <1>1, OutsideHolds DEF IInv, TypeOK
<1>3. InOrder'
  BY Numbers DEF IInv, TypeOK, InOrder, Versions
<1>4. BeganBelow' /\ ReasonsSpool'
  BY Numbers DEF IInv, TypeOK, BeganBelow, ReasonsSpool, Versions
<1>5. OutcomesJustified'
  BY Numbers DEF IInv, TypeOK, InOrder, BeganBelow, ReasonsSpool, OutcomesJustified,
       Versions, StatusOf, Status
<1> QED BY <1>1, <1>2, <1>3, <1>4, <1>5 DEF IInv

\* The comparison decides by the version it reads.
LEMMA CompareHolds == ASSUME IInv, NEW p \in Processes, Compare(p) PROVE IInv'
<1> USE DEF Compare, At, Goto, Spools, database, draft, migration
<1>1. TypeOK'
  BY Numbers DEF IInv, TypeOK, Versions, Sets, Files, Places, Reasons
<1>2. SetsWhole' /\ OneHolder' /\ DraftIdle' /\ DraftPartial'
  BY <1>1, OutsideHolds DEF IInv, TypeOK
<1>3. InOrder'
  BY Numbers DEF IInv, TypeOK, InOrder, Versions
<1>4. BeganBelow' /\ ReasonsSpool'
  BY Numbers DEF IInv, TypeOK, BeganBelow, ReasonsSpool, Versions
<1>5. OutcomesJustified'
  BY Numbers DEF IInv, TypeOK, InOrder, BeganBelow, ReasonsSpool, OutcomesJustified,
       Versions, StatusOf, Status
<1> QED BY <1>1, <1>2, <1>3, <1>4, <1>5 DEF IInv

\* A migration begins with the set above the version.
LEMMA CurrentVersionHolds ==
  ASSUME IInv, NEW p \in Processes, CurrentVersion(p) PROVE IInv'
<1> USE DEF CurrentVersion, At, Goto, Spools, database, draft, migration
<1>a. version + 1 \in 1 .. Newest + 1
  BY Numbers DEF IInv, TypeOK, Versions
<1>1. TypeOK'
  BY <1>a, Numbers DEF IInv, TypeOK, Versions, Sets, Files, Places, Reasons
<1>2. SetsWhole' /\ OneHolder' /\ DraftIdle' /\ DraftPartial'
  BY <1>1, OutsideHolds DEF IInv, TypeOK
<1>3. InOrder'
  BY Numbers DEF IInv, TypeOK, InOrder, Versions
<1>4. BeganBelow' /\ ReasonsSpool'
  BY Numbers DEF IInv, TypeOK, BeganBelow, ReasonsSpool, Versions
<1>5. OutcomesJustified'
  BY Numbers DEF IInv, TypeOK, InOrder, BeganBelow, ReasonsSpool, OutcomesJustified,
       Versions, StatusOf, Status
<1> QED BY <1>1, <1>2, <1>3, <1>4, <1>5 DEF IInv

\* A set that is skipped has run.
LEMMA SkipSetHolds == ASSUME IInv, NEW p \in Processes, SkipSet(p) PROVE IInv'
<1> USE DEF SkipSet, Pending, At, Goto, Spools, database, draft, migration
<1>a. set[p] + 1 \in 1 .. Newest + 1
  BY Numbers DEF IInv, TypeOK, Versions
<1>1. TypeOK'
  BY <1>a, Numbers DEF IInv, TypeOK, Versions, Sets, Files, Places, Reasons
<1>2. SetsWhole' /\ OneHolder' /\ DraftIdle' /\ DraftPartial'
  BY <1>1, OutsideHolds DEF IInv, TypeOK
<1>3. InOrder'
  BY Numbers DEF IInv, TypeOK, InOrder, Versions
<1>4. BeganBelow' /\ ReasonsSpool'
  BY Numbers DEF IInv, TypeOK, BeganBelow, ReasonsSpool, Versions
<1>5. OutcomesJustified'
  BY Numbers DEF IInv, TypeOK, InOrder, BeganBelow, ReasonsSpool, OutcomesJustified,
       Versions, StatusOf, Status
<1> QED BY <1>1, <1>2, <1>3, <1>4, <1>5 DEF IInv

\* A process past its last set finds them all run.
LEMMA SetsDoneHolds == ASSUME IInv, NEW p \in Processes, SetsDone(p) PROVE IInv'
<1> USE DEF SetsDone, At, Goto, Spools, database, draft, migration
<1>1. TypeOK'
  BY Numbers DEF IInv, TypeOK, Versions, Sets, Files, Places, Reasons
<1>2. SetsWhole' /\ OneHolder' /\ DraftIdle' /\ DraftPartial'
  BY <1>1, OutsideHolds DEF IInv, TypeOK
<1>3. InOrder'
  BY Numbers DEF IInv, TypeOK, InOrder, Versions
<1>4. BeganBelow' /\ ReasonsSpool'
  BY Numbers DEF IInv, TypeOK, BeganBelow, ReasonsSpool, Versions
<1>5. OutcomesJustified'
  BY Numbers DEF IInv, TypeOK, InOrder, BeganBelow, ReasonsSpool, OutcomesJustified,
       Versions, StatusOf, Status
<1> QED BY <1>1, <1>2, <1>3, <1>4, <1>5 DEF IInv

\* After the sets, only a newer build's version is unexpected.
LEMMA CheckHolds == ASSUME IInv, NEW p \in Processes, Check(p) PROVE IInv'
<1> USE DEF Check, At, Goto, Spools, database, draft, migration
<1>1. TypeOK'
  BY Numbers DEF IInv, TypeOK, Versions, Sets, Files, Places, Reasons
<1>2. SetsWhole' /\ OneHolder' /\ DraftIdle' /\ DraftPartial'
  BY <1>1, OutsideHolds DEF IInv, TypeOK
<1>3. InOrder'
  BY Numbers DEF IInv, TypeOK, InOrder, Versions
<1>4. BeganBelow' /\ ReasonsSpool'
  BY Numbers DEF IInv, TypeOK, BeganBelow, ReasonsSpool, Versions
<1>5. OutcomesJustified'
  BY Numbers DEF IInv, TypeOK, InOrder, BeganBelow, ReasonsSpool, OutcomesJustified,
       Versions, StatusOf, Status
<1> QED BY <1>1, <1>2, <1>3, <1>4, <1>5 DEF IInv

\* A closed process claims nothing.
LEMMA CloseHolds == ASSUME IInv, NEW p \in Processes, Close(p) PROVE IInv'
<1> USE DEF Close, End, At, Goto, Spools, database, draft, migration
<1>a. 0 \in Versions /\ 1 \in 1 .. Newest + 1 /\ 1 \in 1 .. FileCount + 1
  BY Numbers DEF Versions
<1>1. TypeOK'
  BY <1>a, Numbers DEF IInv, TypeOK, Versions, Sets, Files, Places, Reasons
<1>2. SetsWhole' /\ OneHolder' /\ DraftIdle' /\ DraftPartial'
  BY <1>1, OutsideHolds DEF IInv, TypeOK
<1>3. InOrder'
  BY Numbers DEF IInv, TypeOK, InOrder, Versions
<1>4. BeganBelow' /\ ReasonsSpool'
  BY Numbers DEF IInv, TypeOK, BeganBelow, ReasonsSpool, Versions
<1>5. OutcomesJustified'
  BY Numbers DEF IInv, TypeOK, InOrder, BeganBelow, ReasonsSpool, OutcomesJustified,
       Versions, StatusOf, Status
<1> QED BY <1>1, <1>2, <1>3, <1>4, <1>5 DEF IInv

-----------------------------------------------------------------------------
(* Steps of a transaction                                                  *)

\* What an open has answered stays justified while the version grows and
\* the others' places and reasons stay what they are.
LEMMA OutcomesKept ==
  ASSUME IInv, NEW p \in Processes, version' \in Versions,
         version' \in {version, version + 1},
         build' = build, pc' \in [Processes -> Places],
         reason' \in [Processes -> Reasons],
         pc'[p] \notin {"writable", "refused"},
         reason'[p] \notin {"degraded", "unexpected"},
         reason'[p] # "none" => pc'[p] = "spooling",
         began'[p] \in {0, began[p]},
         \A q \in Processes \ {p} :
           pc'[q] = pc[q] /\ reason'[q] = reason[q] /\ began'[q] = began[q]
  PROVE  BeganBelow' /\ ReasonsSpool' /\ OutcomesJustified'
<1>1. version \in Nat /\ version' \in Nat /\ Window \in Nat
  BY Numbers DEF IInv, TypeOK, Versions
<1>2. \A q \in Processes : began[q] \in Nat /\ began[q] <= version
  BY Numbers DEF IInv, TypeOK, Versions, BeganBelow
<1>3. \A q \in Processes : MaxKnown[build[q]] \in Nat /\ MinSupported[build[q]] \in Nat
  BY Numbers DEF IInv, TypeOK
<1>4. version <= version'
  BY <1>1
<1>5. BeganBelow'
  <2>1. \A q \in Processes : began'[q] \in {0, began[q]}
    OBVIOUS
  <2> QED BY <2>1, <1>1, <1>2, <1>4 DEF BeganBelow
<1>6. ReasonsSpool'
  BY DEF IInv, ReasonsSpool, At
<1>7. OutcomesJustified'
  BY <1>1, <1>2, <1>3, <1>4 DEF IInv, OutcomesJustified, At
<1> QED BY <1>5, <1>6, <1>7

\* A transaction begins on the database and with the next set.
LEMMA BeginSetHolds == ASSUME IInv, NEW p \in Processes, BeginSet(p) PROVE IInv'
<1> USE DEF BeginSet, Pending, At, Goto, database, draft
<1>1. /\ version \in Nat /\ set[p] \in Nat /\ build[p] \in Builds
      /\ version < set[p] /\ set[p] <= version + 1 /\ lock = NoProcess
  BY Numbers DEF IInv, TypeOK, InOrder, Versions
<1>2. set[p] = version + 1 /\ set[p] <= Newest
  BY <1>1, Numbers
<1>3. TypeOK'
  <2>1. 1 \in 1 .. FileCount + 1
    BY Numbers
  <2> QED BY <2>1 DEF IInv, TypeOK, Places
<1>4. SetsWhole'
  BY DEF IInv, SetsWhole
<1>5. OneHolder' /\ DraftIdle'
  BY <1>1, ProcessAssumption DEF IInv, TypeOK, OneHolder, DraftIdle
<1>6. DraftPartial'
  <2>1. draftVersion = version /\ draftRuns = runs
    BY <1>1 DEF IInv, DraftIdle
  <2>2. file'[p] = 1 /\ lock' = p /\ set'[p] = set[p]
    BY DEF IInv, TypeOK
  <2>3. \A s \in Sets, f \in Files : ~ (f < 1)
    BY Numbers DEF Files
  <2> QED BY <1>2, <2>1, <2>2, <2>3 DEF IInv, SetsWhole, DraftPartial
<1>7. InOrder'
  BY <1>1, <1>2 DEF IInv, TypeOK, InOrder
<1>8. BeganBelow' /\ ReasonsSpool' /\ OutcomesJustified'
  <2>1. reason[p] = "none"
    BY DEF IInv, ReasonsSpool
  <2> QED BY <1>3, <2>1, OutcomesKept DEF IInv, TypeOK
<1> QED BY <1>3, <1>4, <1>5, <1>6, <1>7, <1>8 DEF IInv

\* Where the process that runs a set is, and what it has written.
LEMMA Running ==
  ASSUME IInv, NEW p \in Processes, At(p, "running")
  PROVE  /\ lock = p /\ version \in Nat
         /\ set[p] = version + 1 /\ set[p] \in Sets /\ set[p] \in Versions
         /\ file[p] \in 1 .. FileCount + 1
         /\ reason[p] = "none" /\ began[p] <= version
<1>1. lock = p
  BY DEF IInv, OneHolder
<1>2. version \in Nat /\ set[p] = version + 1 /\ set[p] <= Newest
  BY <1>1, Numbers DEF IInv, TypeOK, DraftPartial, Versions
<1>3. set[p] \in Sets /\ set[p] \in Versions
  BY <1>2, Numbers DEF Sets, Versions
<1>4. file[p] \in 1 .. FileCount + 1 /\ reason[p] = "none" /\ began[p] <= version
  BY DEF IInv, TypeOK, ReasonsSpool, BeganBelow, At
<1> QED BY <1>1, <1>2, <1>3, <1>4

\* A file's SQL runs once within the draft.
LEMMA RunFileHolds == ASSUME IInv, NEW p \in Processes, RunFile(p) PROVE IInv'
<1> USE DEF RunFile, At, Goto, database
<1> DEFINE n == file[p]
<1>1. /\ lock = p /\ version \in Nat
      /\ set[p] = version + 1 /\ set[p] \in Sets /\ set[p] \in Versions
      /\ n \in Files /\ n + 1 \in 1 .. FileCount + 1
      /\ reason[p] = "none" /\ began[p] <= version
  BY Running, Numbers DEF Files
<1>2. /\ \A s \in Sets, f \in Files :
           draftRuns[s][f] = IF s <= version \/ (s = set[p] /\ f < n) THEN 1 ELSE 0
      /\ draftVersion = IF n = 1 THEN version ELSE set[p]
  BY <1>1 DEF IInv, DraftPartial
<1>3. \A s \in Sets, f \in Files :
        draftRuns'[s][f] =
          IF s = set[p] /\ f = n THEN draftRuns[s][f] + 1 ELSE draftRuns[s][f]
  BY <1>1 DEF IInv, TypeOK
<1>4. TypeOK'
  BY <1>1 DEF IInv, TypeOK
<1>5. SetsWhole' /\ OneHolder'
  BY DEF IInv, SetsWhole, OneHolder
<1>6. DraftIdle'
  BY <1>1, ProcessAssumption DEF DraftIdle
<1>7. DraftPartial'
  <2>1. /\ file'[p] = n + 1 /\ set'[p] = set[p] /\ lock' = p /\ version' = version
        /\ draftVersion' = set[p]
    BY <1>1, <1>2 DEF IInv, TypeOK
  <2>2. n + 1 # 1
    BY <1>1 DEF Files
  <2>3. ASSUME NEW s \in Sets, NEW f \in Files
        PROVE  draftRuns'[s][f] =
                 IF s <= version \/ (s = set[p] /\ f < n + 1) THEN 1 ELSE 0
    <3>1. s \in Nat /\ f \in Nat /\ n \in Nat
      BY Numbers, <1>1 DEF Sets, Files
    <3>2. CASE s = set[p] /\ f = n
      BY <1>1, <1>2, <1>3, <3>1, <3>2
    <3>3. CASE ~ (s = set[p] /\ f = n)
      BY <1>1, <1>2, <1>3, <3>1, <3>3
    <3> QED BY <3>2, <3>3
  <2>4. set[p] <= Newest
    BY <1>1, Numbers DEF Sets
  <2> QED BY <1>1, <2>1, <2>2, <2>3, <2>4 DEF DraftPartial
<1>8. InOrder'
  BY <1>1 DEF IInv, InOrder
<1>9. BeganBelow' /\ ReasonsSpool' /\ OutcomesJustified'
  BY DEF IInv, BeganBelow, ReasonsSpool, OutcomesJustified
<1> QED BY <1>4, <1>5, <1>6, <1>7, <1>8, <1>9 DEF IInv

\* A commit makes the whole set part of the database.
LEMMA CommitSetHolds == ASSUME IInv, NEW p \in Processes, CommitSet(p) PROVE IInv'
<1> USE DEF CommitSet, At, Goto, draft
<1>1. /\ lock = p /\ version \in Nat
      /\ set[p] = version + 1 /\ set[p] \in Sets /\ set[p] \in Versions
      /\ reason[p] = "none" /\ began[p] <= version /\ began[p] \in Nat
      /\ set[p] + 1 \in 1 .. Newest + 1
  <2>1. began[p] \in Nat
    BY Numbers DEF IInv, TypeOK, Versions
  <2>2. set[p] + 1 \in 1 .. Newest + 1
    BY Running, Numbers DEF Sets
  <2> QED BY <2>1, <2>2, Running
<1>2. file[p] # 1 /\ \A f \in Files : f < file[p]
  BY Running, Numbers DEF Files
<1>3. version' = set[p] /\ runs' = draftRuns
  BY <1>1, <1>2 DEF IInv, DraftPartial
<1>4. TypeOK'
  BY <1>1, <1>3 DEF IInv, TypeOK, Places
<1>5. SetsWhole'
  <2> SUFFICES ASSUME NEW s \in Sets, NEW f \in Files
               PROVE  draftRuns[s][f] = IF s <= set[p] THEN 1 ELSE 0
    BY <1>3 DEF SetsWhole
  <2>1. draftRuns[s][f] = IF s <= version \/ s = set[p] THEN 1 ELSE 0
    BY <1>1, <1>2 DEF IInv, DraftPartial
  <2>2. s \in Nat
    BY Numbers DEF Sets
  <2> QED BY <1>1, <2>1, <2>2
<1>6. OneHolder' /\ DraftIdle' /\ DraftPartial'
  BY <1>1, ProcessAssumption DEF IInv, TypeOK, OneHolder, DraftIdle, DraftPartial
<1>7. InOrder'
  <2>1. \A q \in Processes : set[q] \in Nat /\ MaxKnown[build[q]] \in Nat
    BY Numbers DEF IInv, TypeOK
  <2>2. set'[p] = version' + 1 /\ pc'[p] = "sets"
    BY <1>3 DEF IInv, TypeOK
  <2>3. \A q \in Processes \ {p} : pc'[q] = pc[q] /\ set'[q] = set[q]
    BY DEF IInv, TypeOK
  <2>4. version' = version + 1
    BY <1>1, <1>3
  <2>5. build' = build /\ set'[p] \in Nat
    BY <1>1, <2>2, <2>4
  <2> QED BY <1>1, <2>1, <2>2, <2>3, <2>4, <2>5 DEF IInv, InOrder
<1>8. BeganBelow' /\ ReasonsSpool' /\ OutcomesJustified'
  BY <1>1, <1>3, <1>4, OutcomesKept DEF IInv, TypeOK
<1> QED BY <1>4, <1>5, <1>6, <1>7, <1>8 DEF IInv

\* A transaction that is rolled back leaves the database as it was.
LEMMA RollbackHolds ==
  ASSUME IInv, NEW p \in Processes, Rollback(p),
         pc' \in [Processes -> Places], pc'[p] # "running",
         \A q \in Processes \ {p} :
           pc'[q] = pc[q] /\ set'[q] = set[q] /\ file'[q] = file[q]
  PROVE  /\ version' = version /\ lock' \in Processes \cup {NoProcess}
         /\ draftVersion' \in Versions /\ draftRuns' \in [Sets -> [Files -> Nat]]
         /\ SetsWhole' /\ OneHolder' /\ DraftIdle' /\ DraftPartial'
<1> USE DEF Rollback, At, database, draft
<1>1. version' = version /\ SetsWhole'
  BY DEF IInv, SetsWhole
<1>2. /\ lock' \in Processes \cup {NoProcess}
      /\ draftVersion' \in Versions /\ draftRuns' \in [Sets -> [Files -> Nat]]
  BY DEF IInv, TypeOK
<1>3. OneHolder'
  BY ProcessAssumption DEF IInv, OneHolder
<1>4. DraftIdle'
  BY DEF IInv, DraftIdle
<1>5. DraftPartial'
  BY ProcessAssumption DEF IInv, OneHolder, DraftPartial
<1> QED BY <1>1, <1>2, <1>3, <1>4, <1>5

\* An open that fails leaves the database whole.
LEMMA FailHolds == ASSUME IInv, NEW p \in Processes, Fail(p) PROVE IInv'
<1> USE DEF Fail, Fault, At, Goto, Spools, migration
<1>1. /\ pc' \in [Processes -> Places] /\ pc'[p] = "spooling"
      /\ reason' \in [Processes -> Reasons]
      /\ \A q \in Processes \ {p} :
           /\ pc'[q] = pc[q] /\ set'[q] = set[q] /\ file'[q] = file[q]
           /\ reason'[q] = reason[q] /\ began'[q] = began[q]
  BY DEF IInv, TypeOK, Places, Reasons
<1>2. /\ version' = version /\ lock' \in Processes \cup {NoProcess}
      /\ draftVersion' \in Versions /\ draftRuns' \in [Sets -> [Files -> Nat]]
      /\ SetsWhole' /\ OneHolder' /\ DraftIdle' /\ DraftPartial'
  BY <1>1, RollbackHolds
<1>3. TypeOK'
  <2>1. /\ 0 \in Versions /\ 1 \in 1 .. Newest + 1 /\ 1 \in 1 .. FileCount + 1
        /\ faults' \in 0 .. MaxFaults
    BY Numbers DEF IInv, TypeOK, Versions
  <2> QED BY <1>1, <1>2, <2>1 DEF IInv, TypeOK, Rollback, database
<1>4. InOrder'
  BY <1>1, <1>2 DEF IInv, InOrder
<1>5. BeganBelow' /\ ReasonsSpool' /\ OutcomesJustified'
  <2>1. version' \in Versions /\ version' = version
    BY <1>2 DEF IInv, TypeOK
  <2>2. began'[p] \in {0, began[p]}
    BY DEF IInv, TypeOK
  <2>3. reason'[p] \notin {"degraded", "unexpected"}
        /\ (reason'[p] # "none" => pc'[p] = "spooling") /\ build' = build
    BY <1>1 DEF IInv, TypeOK
  <2> QED BY <1>1, <2>1, <2>2, <2>3, OutcomesKept
<1> QED BY <1>2, <1>3, <1>4, <1>5 DEF IInv

\* So does a process that dies.
LEMMA CrashHolds == ASSUME IInv, NEW p \in Processes, Crash(p) PROVE IInv'
<1> USE DEF Crash, Fault, End, At, Goto, Spools, migration
<1>1. /\ pc' \in [Processes -> Places] /\ pc'[p] = "closed"
      /\ reason' \in [Processes -> Reasons]
      /\ \A q \in Processes \ {p} :
           /\ pc'[q] = pc[q] /\ set'[q] = set[q] /\ file'[q] = file[q]
           /\ reason'[q] = reason[q] /\ began'[q] = began[q]
  BY DEF IInv, TypeOK, Places, Reasons
<1>2. /\ version' = version /\ lock' \in Processes \cup {NoProcess}
      /\ draftVersion' \in Versions /\ draftRuns' \in [Sets -> [Files -> Nat]]
      /\ SetsWhole' /\ OneHolder' /\ DraftIdle' /\ DraftPartial'
  BY <1>1, RollbackHolds
<1>3. TypeOK'
  <2>1. /\ 0 \in Versions /\ 1 \in 1 .. Newest + 1 /\ 1 \in 1 .. FileCount + 1
        /\ faults' \in 0 .. MaxFaults
    BY Numbers DEF IInv, TypeOK, Versions
  <2> QED BY <1>1, <1>2, <2>1 DEF IInv, TypeOK, Rollback, database
<1>4. InOrder'
  BY <1>1, <1>2 DEF IInv, InOrder
<1>5. BeganBelow' /\ ReasonsSpool' /\ OutcomesJustified'
  <2>1. version' \in Versions /\ version' = version
    BY <1>2 DEF IInv, TypeOK
  <2>2. began'[p] \in {0, began[p]}
    BY DEF IInv, TypeOK
  <2>3. reason'[p] \notin {"degraded", "unexpected"}
        /\ (reason'[p] # "none" => pc'[p] = "spooling") /\ build' = build
    BY <1>1 DEF IInv, TypeOK
  <2> QED BY <1>1, <2>1, <2>2, <2>3, OutcomesKept
<1> QED BY <1>2, <1>3, <1>4, <1>5 DEF IInv

-----------------------------------------------------------------------------
(* Theorems                                                                *)

\* Every step keeps the invariant.
LEMMA NextHolds == IInv /\ [Next]_vars => IInv'
<1> SUFFICES ASSUME IInv, [Next]_vars PROVE IInv' OBVIOUS
<1>1. CASE UNCHANGED vars
  BY <1>1 DEF vars, database, draft, migration, IInv, TypeOK, SetsWhole, OneHolder,
       DraftIdle, DraftPartial, InOrder, BeganBelow, ReasonsSpool,
       OutcomesJustified, At
<1>2. CASE Next
  <2>1. PICK p \in Processes :
          \/ \E b \in Builds : Start(p, b)
          \/ Step(p) \/ Fail(p) \/ Close(p) \/ Crash(p)
    BY <1>2 DEF Next
  <2>2. CASE \E b \in Builds : Start(p, b)
    BY <2>2, StartHolds
  <2>3. CASE Step(p)
    BY <2>3, ConnectHolds, BusyHolds, CompareHolds, CurrentVersionHolds,
       BeginSetHolds, SkipSetHolds, RunFileHolds, CommitSetHolds, SetsDoneHolds,
       CheckHolds DEF Step
  <2>4. CASE Fail(p) \/ Close(p) \/ Crash(p)
    BY <2>4, FailHolds, CloseHolds, CrashHolds
  <2> QED BY <2>1, <2>2, <2>3, <2>4
<1> QED BY <1>1, <1>2

\* The invariant holds whatever the builds, the order of their steps and the
\* faults.
THEOREM DatabaseInvariant == Spec => []IInv
BY InitHolds, NextHolds, PTL DEF Spec

\* Every variable keeps to its type.
THEOREM DatabaseTypes == Spec => []TypeOK
<1>1. IInv => TypeOK BY DEF IInv
<1> QED BY <1>1, DatabaseInvariant, PTL

\* Each set of runMigrations has run whole and once, up to the version.
THEOREM SetsRunOnce == Spec => []SetsWhole
<1>1. IInv => SetsWhole BY DEF IInv
<1> QED BY <1>1, DatabaseInvariant, PTL

\* What tryOpenDb answers is justified by the schema.
THEOREM OpensJustified == Spec => []OutcomesJustified
<1>1. IInv => OutcomesJustified BY DEF IInv
<1> QED BY <1>1, DatabaseInvariant, PTL

\* Migrations are forward-only, one version at a time, whichever builds run.
THEOREM ForwardOnly == Spec => [][version' \in {version, version + 1}]_vars
<1>1. IInv /\ [Next]_vars => [version' \in {version, version + 1}]_vars
  <2> SUFFICES ASSUME IInv, Next PROVE version' \in {version, version + 1}
    BY DEF vars
  <2>1. PICK p \in Processes :
          \/ \E b \in Builds : Start(p, b)
          \/ Step(p) \/ Fail(p) \/ Close(p) \/ Crash(p)
    BY DEF Next
  <2>2. CASE CommitSet(p)
    <3>1. /\ lock = p /\ set[p] = version + 1
      BY <2>2, Running DEF CommitSet
    <3>2. file[p] # 1
      BY <2>2, Running, Numbers DEF CommitSet
    <3> QED BY <2>2, <3>1, <3>2 DEF CommitSet, IInv, DraftPartial
  <2>3. CASE ~ CommitSet(p)
    BY <2>1, <2>3 DEF Start, Step, Connect, Busy, Compare, CurrentVersion, BeginSet,
         SkipSet, RunFile, SetsDone, Check, Fail, Close, Crash, Rollback, database
  <2> QED BY <2>2, <2>3
<1> QED BY <1>1, DatabaseInvariant, PTL DEF Spec
=============================================================================
