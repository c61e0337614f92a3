------------------------------- MODULE PiImport -------------------------------
(***************************************************************************)
(* The importers of Pi's history: `import pi-sessions` reads the session   *)
(* files Pi keeps, `import legacy-pi` the database of an older extension,  *)
(* and both write rows the live writer may have written, be writing, or    *)
(* still hold in its spool.  A session file may be a fork, which begins    *)
(* with a copy of another session's messages; an API call must come out    *)
(* once, and what a run reports must be what it did.                       *)
(*                                                                         *)
(* An API call stands for its message: its provider id or none, its cost   *)
(* or none, its token counts, model and cost as one value, and one tool    *)
(* call.  A user message precedes each, so the i-th call of a file is its  *)
(* turn i - 1.  Time is the order of the calls.  Git metadata, harness     *)
(* rows, timestamps, malformed lines and the report are left out.          *)
(***************************************************************************)
EXTENDS Integers, Sequences, FiniteSets

CONSTANTS
  Tokens,   \* token counts with model and cost
  Null,
  Legacy,   \* the messages of the legacy database, with a session or orphaned
  MaxFiles, MaxCalls, MaxRuns, MaxFaults  \* bounds

ASSUME BoundsAssumption == {MaxFiles, MaxCalls, MaxRuns, MaxFaults} \subseteq Nat
\* Legacy messages are none of the API calls, whose numbers are positive.
ASSUME LegacyAssumption ==
  Legacy \subseteq [call : Int \ Nat, orphan : BOOLEAN] /\ IsFiniteSet(Legacy)

Files == 1 .. MaxFiles  \* by the start of their session
OfLegacy == 0           \* the session of the legacy messages

VARIABLES
  calls,    \* the API calls Pi has made, in order
  log,      \* file -> the calls it has, a fork's copied ones first
  pending,  \* the rows the live writer has in its spool
  rows,     \* the rows of llm_messages
  tools,    \* the rows of tool_calls, by the call that issued them
  turns,    \* the rows of turns, and of sessions by their turn -1
  run,      \* the import that runs
  legacy,   \* the legacy import that runs
  settled,  \* the import that was the last thing to happen, or Null (history)
  runs, faults  \* how many so far

db == <<rows, tools, turns>>
world == <<calls, log, pending>>
vars == <<calls, log, pending, rows, tools, turns, run, legacy, settled, runs, faults>>

Idle == run.phase = "idle" /\ legacy.phase = "idle"
CallsOf(f) == {log[f][i] : i \in DOMAIN log[f]}

-----------------------------------------------------------------------------
(* Ids                                                                     *)

ResponseId(c) == <<0, "response", c>>
Synthesized(f, i) == <<f, "turn", i>>   \* `<file>:tN:mM`, of the live writer
NoId(f, c) == <<f, "noid", c>>          \* `<file>:noid:<event>`
IsSynthesized(id, f) == id[1] = f

HarnessMessageId(f, c) == IF calls[c].named THEN ResponseId(c) ELSE NoId(f, c)

\* Mutant: the legacy id is not the key of the upsert.
LegacyIdAnew(c) == <<0, "legacy", c, runs>>
LegacyId(c) == <<0, "legacy", c>>

-----------------------------------------------------------------------------
(* Pi, the live writer and the daemon                                      *)

Row(id, f, i, c, by) == [id |-> id, session |-> f, turn |-> i, call |-> c, by |-> by]
Has(table, id) == \E r \in table : r.id = id

\* Mutant: the turns are counted from one.
TurnsFromOne(f, n) == {<<f, -1>>} \cup {<<f, i>> : i \in 1 .. n}
\* recordSession and recordTurn: a session and the turns of its calls.
TurnsOf(f, n) == {<<f, -1>>} \cup {<<f, i>> : i \in 0 .. n - 1}

\* The next import repeats none, nor does the one that runs (history).
NothingSettled ==
  /\ settled' = Null
  /\ legacy' = [legacy EXCEPT !.repeat = FALSE]
NewToRead == NothingSettled /\ run' = [run EXCEPT !.repeat = FALSE]

\* Sessions start in the order of their files.
Follows(f) == \A e \in Files : e < f => log[e] # <<>>

\* A call in a session: the writer was not there, spools it, or (an older one,
\* which did not use provider ids, before there were importers) has it stored.
Call(f, named, costly, t, live) ==
  /\ Len(calls) < MaxCalls
  /\ Follows(f)
  /\ named => costly  \* no decision looks at the cost of a named one
  /\ live = "old" => runs = 0
  /\ calls' = Append(calls, [named |-> named, costly |-> costly, tokens |-> t])
  /\ log' = [log EXCEPT ![f] = Append(@, Len(calls'))]
  /\ LET c == Len(calls')
         i == Len(log[f]) IN
     CASE live = "none" -> UNCHANGED <<pending, rows, tools, turns>>
       [] live = "spool" ->
            /\ pending' = pending \cup
                 {Row(IF named THEN ResponseId(c) ELSE Synthesized(f, i), f, i, c, "live")}
            /\ UNCHANGED db
       [] live = "old" ->
            /\ rows' = rows \cup {Row(Synthesized(f, i), f, i, c, "live")}
            /\ tools' = tools \cup {[call |-> c, session |-> f, by |-> "live"]}
            /\ turns' = turns \cup {<<f, -1>>, <<f, i>>}
            /\ UNCHANGED pending
  /\ NewToRead
  /\ UNCHANGED <<runs, faults>>

\* A fork starts a file with the calls up to some point of another.
Fork(f, g, n) ==
  /\ f < g /\ log[g] = <<>> /\ Follows(g) /\ n \in DOMAIN log[f]
  /\ log' = [log EXCEPT ![g] = SubSeq(log[f], 1, n)]
  /\ NewToRead
  /\ UNCHANGED <<calls, pending, db, runs, faults>>

\* The drain engine upserts: a row it finds gets the session, the turn, the
\* counts and the cost of the call in the record.
Drain(r) ==
  /\ pending' = pending \ {r}
  /\ rows' = {q \in rows : q.id # r.id} \cup {r}
  /\ tools' = IF \E t \in tools : t.call = r.call THEN tools
              ELSE tools \cup {[call |-> r.call, session |-> r.session, by |-> "live"]}
  /\ turns' = turns \cup {<<r.session, -1>>, <<r.session, r.turn>>}
  /\ run' = [run EXCEPT !.repeat = FALSE, !.stale = run.phase = "write"]
  /\ NothingSettled
  /\ UNCHANGED <<calls, log, runs, faults>>

-----------------------------------------------------------------------------
(* What to do with a message                                               *)

Zero ==
  [total |-> 0, imported |-> 0, replay |-> 0, zero |-> 0, boundary |-> 0,
   cutoff |-> 0, canonical |-> 0, tools |-> 0]

Count(counts, k) == [counts EXCEPT ![k] = @ + 1]

\* A session is as old as its number, and a window is [from, to).
InDateRange(f, from, to) == from <= f /\ f < to

\* discoverPiSessions
Discovered(from, to) == {f \in Files : log[f] # <<>> /\ InDateRange(f, from, to)}

\* Mutant: the sessions before the window are not read.
SeededNone(from) == {}
\* seedSeenIdsFromSessions
Seeded(from) == UNION {CallsOf(f) : f \in {g \in Files : g < from}}

\* loadExistingMessages
Existing(f) == {r \in rows : r.session = f}

\* Mutant: any row of the session will do.
MatchesAny(r, c) == TRUE
\* matchesDbRow: token counts, and the model and cost where both have one.
Matches(r, c) == calls[r.call].tokens = calls[c].tokens

\* The dispositions, in the order they are tried.
IsZeroCostSkip(c) == ~calls[c].named /\ ~calls[c].costly
IsCutoff(c, until) == c >= until
IsReplay(c, seen) == calls[c].named /\ c \in seen

Decision(st, c, i, what, row) ==
  [st EXCEPT !.plan = Append(@, [call |-> c, turn |-> i, what |-> what, row |-> row]),
             !.seen = IF calls[c].named /\ what \in {"import", "boundary", "cutoff"}
                        THEN @ \cup {c} ELSE @,
             !.counts = IF what = "import" THEN Count(@, "total")
                        ELSE Count(Count(@, "total"), what)]

Decide(st, c, i, until) ==
  LET match == {r \in st.free : Matches(r, c)}
      first == CHOOSE r \in match : \A q \in match : r.call <= q.call
  IN IF IsZeroCostSkip(c) THEN Decision(st, c, i, "zero", Null)
     ELSE IF IsCutoff(c, until) THEN Decision(st, c, i, "cutoff", Null)
     ELSE IF IsReplay(c, st.seen) THEN Decision(st, c, i, "replay", Null)
     ELSE IF match # {}
       THEN Decision([st EXCEPT !.free = @ \ {first}], c, i, "boundary", first)
     ELSE Decision(st, c, i, "import", Null)

\* The loop over the messages of a file.
Decided(f, until, seen) ==
  LET upTo[n \in 0 .. Len(log[f])] ==
        IF n = 0 THEN [free |-> Existing(f), plan |-> <<>>, seen |-> seen, counts |-> Zero]
        ELSE Decide(upTo[n - 1], log[f][n], n - 1, until)
  IN upTo[Len(log[f])]

-----------------------------------------------------------------------------
(* The transaction of a session, decision by decision                      *)

\* stmtCanonicalizeMessageId: unless another row has the provider id.
Canonicalized(st, d, f) ==
  IF /\ d.what = "boundary" /\ calls[d.call].named /\ IsSynthesized(d.row.id, f)
     /\ ~Has(st.rows, ResponseId(d.call))
    THEN [st EXCEPT !.rows = {IF r.id = d.row.id THEN [r EXCEPT !.id = ResponseId(d.call)]
                              ELSE r : r \in @},
                    !.counts = Count(@, "canonical")]
    ELSE st

\* A tool call is skipped if this run or this session has it; OR IGNORE.
WithTool(st, d, f) ==
  IF d.call \in st.seenTools \/ \E t \in st.tools : t.call = d.call THEN st
  ELSE [st EXCEPT !.tools = @ \cup {[call |-> d.call, session |-> f, by |-> "log"]},
                  !.seenTools = @ \cup {d.call},
                  !.counts = Count(@, "tools")]

\* Mutant: OR REPLACE.
InsertedOver(st, r) ==
  [st EXCEPT !.rows = {q \in @ : q.id # r.id} \cup {r}, !.counts = Count(@, "imported")]
\* OR IGNORE: a row of that id stays, and counts as skipped.
Inserted(st, r) ==
  IF Has(st.rows, r.id) THEN [st EXCEPT !.counts = Count(@, "boundary")]
  ELSE [st EXCEPT !.rows = @ \cup {r}, !.counts = Count(@, "imported")]

\* Mutant: the tool calls of a message that is there already are written.
WrittenWithTools(st, d, f) ==
  LET id == HarnessMessageId(f, d.call) IN
  IF d.what # "import" THEN WithTool(Canonicalized(st, d, f), d, f)
  ELSE WithTool(Inserted(st, Row(id, f, d.turn, d.call, "log")), d, f)

Written(st, d, f) ==
  LET id == HarnessMessageId(f, d.call)
      after == Inserted(st, Row(id, f, d.turn, d.call, "log")) IN
  IF d.what # "import" THEN Canonicalized(st, d, f)
  ELSE IF Has(st.rows, id) THEN after
  ELSE WithTool(after, d, f)

\* What the first n decisions do.
WrittenTo(n) ==
  LET upTo[i \in 0 .. n] ==
        IF i = 0
          THEN [rows |-> rows, tools |-> tools, seenTools |-> run.seenTools, counts |-> run.counts]
          ELSE Written(upTo[i - 1], run.plan[i], run.file)
  IN upTo[n]

\* Mutant: a call's tool is marked as seen before it is looked up.
ForeseenMarked(st, d) ==
  IF d.what = "import" THEN [st EXCEPT !.counts = Count(@, "imported"),
                                       !.seenTools = @ \cup {d.call}]
  ELSE st

\* A dry run only counts.
Foreseen(st, d) ==
  IF d.what = "import"
    THEN IF d.call \in st.seenTools \/ \E t \in tools : t.call = d.call /\ t.session = run.file
      THEN [st EXCEPT !.counts = Count(@, "imported")]
      ELSE [st EXCEPT !.counts = Count(Count(@, "imported"), "tools"),
                      !.seenTools = @ \cup {d.call}]
  ELSE IF d.what = "boundary" /\ calls[d.call].named /\ IsSynthesized(d.row.id, run.file)
    THEN [st EXCEPT !.counts = Count(@, "canonical")]
  ELSE st

ForeseenAll ==
  LET upTo[i \in 0 .. Len(run.plan)] ==
        IF i = 0 THEN [seenTools |-> run.seenTools, counts |-> run.counts]
        ELSE Foreseen(upTo[i - 1], run.plan[i])
  IN upTo[Len(run.plan)]

-----------------------------------------------------------------------------
(* importPiSessionLogs                                                     *)

NoRun ==
  [phase |-> "idle", todo |-> {}, file |-> 0, until |-> 0, dry |-> FALSE, seen |-> {},
   seenTools |-> {}, plan |-> <<>>, counts |-> Zero, seeded |-> {}, covered |-> {},
   inserted |-> 0, failed |-> FALSE, stale |-> FALSE, repeat |-> FALSE]

Options(from, to, until) == [kind |-> "log", from |-> from, to |-> to, until |-> until]

StartImport(from, to, until, dry) ==
  /\ Idle /\ runs < MaxRuns
  /\ Discovered(from, to) # {}
  /\ runs' = runs + 1
  /\ run' = [NoRun EXCEPT
       !.phase = "read", !.todo = Discovered(from, to), !.until = until, !.dry = dry,
       !.seen = {c \in Seeded(from) : calls[c].named}, !.seenTools = Seeded(from),
       !.seeded = Seeded(from), !.repeat = settled = Options(from, to, until)]
  /\ settled' = IF dry THEN settled ELSE Options(from, to, until)
  /\ UNCHANGED <<world, db, legacy, faults>>

\* importOneSession up to the transaction, for the oldest session that is left:
\* the file and the database are read.
ReadSession ==
  /\ run.phase = "read"
  /\ \E f \in run.todo :
       LET st == Decided(f, run.until, run.seen) IN
       /\ \A g \in run.todo : f <= g
       /\ run' = [run EXCEPT
            !.phase = "write", !.todo = @ \ {f}, !.file = f, !.plan = st.plan, !.seen = st.seen,
            !.counts = st.counts, !.covered = @ \cup CallsOf(f), !.stale = FALSE]
  /\ UNCHANGED <<world, db, legacy, settled, runs, faults>>

WriteSession ==
  /\ run.phase = "write" /\ ~run.dry
  /\ LET st == WrittenTo(Len(run.plan)) IN
     /\ rows' = st.rows
     /\ tools' = st.tools
     /\ turns' = turns \cup TurnsOf(run.file, Len(run.plan))
     /\ run' = [run EXCEPT !.phase = "read", !.seenTools = st.seenTools, !.counts = st.counts,
                           !.inserted = @ + Cardinality(st.rows) - Cardinality(rows)]
  /\ UNCHANGED <<world, legacy, settled, runs, faults>>

\* A transaction that throws is rolled back, and the run goes on; the counts
\* and the sets in memory stay as they were when it threw.
WriteFails ==
  /\ run.phase = "write" /\ ~run.dry /\ faults < MaxFaults
  /\ faults' = faults + 1
  /\ \E n \in 0 .. Len(run.plan) :
       LET st == WrittenTo(n) IN
       run' = [run EXCEPT !.phase = "read", !.seenTools = st.seenTools, !.counts = st.counts,
                          !.failed = TRUE]
  /\ settled' = Null
  /\ UNCHANGED <<world, db, legacy, runs>>

CountSession ==
  /\ run.phase = "write" /\ run.dry
  /\ run' = [run EXCEPT !.phase = "read", !.seenTools = ForeseenAll.seenTools,
                        !.counts = ForeseenAll.counts]
  /\ UNCHANGED <<world, db, legacy, settled, runs, faults>>

\* A file or the database cannot be read where nothing catches it, or the
\* process is killed: what was committed stays, what was in memory is gone.
ImportAborts ==
  /\ run.phase # "idle" /\ faults < MaxFaults
  /\ faults' = faults + 1
  /\ run' = NoRun
  /\ settled' = IF run.dry THEN settled ELSE Null
  /\ UNCHANGED <<world, db, legacy, runs>>

FinishImport ==
  /\ run.phase = "read" /\ run.todo = {}
  /\ run' = NoRun
  /\ UNCHANGED <<world, db, legacy, settled, runs, faults>>

-----------------------------------------------------------------------------
(* importLegacyPi                                                          *)

NoLegacy == [phase |-> "idle", before |-> 0, added |-> 0, repeat |-> FALSE]
LegacyOptions == [kind |-> "legacy"]

\* No import is the one that is none.
ASSUME NullAssumption ==
  Null \notin {LegacyOptions} \cup [kind : {"log"}, from : Nat, to : Nat, until : Nat]

\* Orphans, whose session was not imported, are skipped.
LegacyRows == {Row(LegacyId(m.call), OfLegacy, 0, m.call, "legacy") : m \in
               {l \in Legacy : ~l.orphan}}

StartLegacy ==
  /\ Idle /\ runs < MaxRuns /\ Legacy # {}
  /\ runs' = runs + 1
  /\ legacy' = [NoLegacy EXCEPT !.phase = "write", !.before = Cardinality(rows),
                                !.repeat = settled = LegacyOptions]
  /\ settled' = LegacyOptions
  /\ UNCHANGED <<world, db, run, faults>>

\* runImportTransaction: one transaction for everything.
WriteLegacy ==
  /\ legacy.phase = "write"
  /\ rows' = {r \in rows : \A q \in LegacyRows : q.id # r.id} \cup LegacyRows
  /\ tools' = {t \in tools : t.by # "legacy"} \cup
              {[call |-> r.call, session |-> OfLegacy, by |-> "legacy"] : r \in LegacyRows}
  /\ turns' = turns \cup TurnsOf(OfLegacy, 1)
  /\ legacy' = [legacy EXCEPT !.phase = "count"]
  /\ UNCHANGED <<world, run, settled, runs, faults>>

LegacyFails ==
  /\ legacy.phase = "write" /\ faults < MaxFaults
  /\ faults' = faults + 1
  /\ legacy' = NoLegacy
  /\ settled' = Null
  /\ UNCHANGED <<world, db, run, runs>>

\* The rows are counted again; what is new is reported as added.
CountLegacy ==
  /\ legacy.phase = "count"
  /\ legacy' = [legacy EXCEPT !.phase = "report", !.added = Cardinality(rows) - legacy.before]
  /\ UNCHANGED <<world, db, run, settled, runs, faults>>

FinishLegacy ==
  /\ legacy.phase = "report"
  /\ legacy' = NoLegacy
  /\ UNCHANGED <<world, db, run, settled, runs, faults>>

-----------------------------------------------------------------------------
Init ==
  /\ calls = <<>>
  /\ log = [f \in Files |-> <<>>]
  /\ pending = {}
  /\ rows = {} /\ tools = {} /\ turns = {}
  /\ run = NoRun
  /\ legacy = NoLegacy
  /\ settled = Null
  /\ runs = 0 /\ faults = 0

Next ==
  \/ \E f \in Files, named, costly \in BOOLEAN, t \in Tokens, live \in {"none", "spool", "old"} :
       Call(f, named, costly, t, live)
  \/ \E f, g \in Files : \E n \in DOMAIN log[f] : Fork(f, g, n)
  \/ \E r \in pending : Drain(r)
  \/ \E from \in Files, to \in 2 .. MaxFiles + 1, until \in {MaxCalls, MaxCalls + 1},
        dry \in BOOLEAN : StartImport(from, to, until, dry)
  \/ ReadSession \/ WriteSession \/ WriteFails \/ CountSession
  \/ ImportAborts \/ FinishImport
  \/ StartLegacy \/ WriteLegacy \/ LegacyFails \/ CountLegacy \/ FinishLegacy

Spec == Init /\ [][Next]_vars

-----------------------------------------------------------------------------
(* Properties                                                              *)

\* The calls whose counts no other call has: the others can be mistaken for
\* each other by matchesDbRow.
Plain == {c \in DOMAIN calls : \A d \in DOMAIN calls \ {c} : calls[d].tokens # calls[c].tokens}

\* Every variable keeps its shape, and the rows refer to rows of turns and of
\* sessions, as the schema's foreign keys require.
TypeOK ==
  /\ \A f \in Files : log[f] \in Seq(DOMAIN calls)
  /\ \A r, q \in rows : r.id = q.id => r = q
  /\ \A r \in rows : <<r.session, r.turn>> \in turns /\ <<r.session, -1>> \in turns
  /\ \A t, u \in tools : t.call = u.call => t = u
  /\ run.phase \in {"idle", "read", "write"}
  /\ run.counts \in [DOMAIN Zero -> 0 .. MaxCalls]

\* An API call with a provider id has one row, whichever of a fork's files,
\* an older or the present live writer, a window that leaves the first file
\* out, and a session that failed to be written brought it.
OnceEach ==
  \A r, q \in rows :
    (r.call = q.call /\ r.call \in Plain /\ calls[r.call].named) => r = q

\* After a run without failures no call it read is missing: one that was
\* skipped as a replay or a match is in the database under another file or
\* from the live writer, unless the first file lies before the window.
NothingMissing ==
  (run.phase = "read" /\ run.todo = {} /\ ~run.dry /\ ~run.failed) =>
    \A c \in run.covered \cap Plain :
      (~IsZeroCostSkip(c) /\ ~IsCutoff(c, run.until) /\ c \notin run.seeded) =>
        \E r \in rows : r.call = c

\* An import has given a row the provider's id of a call that is like its own.
Mistaken(r) == \E c \in DOMAIN calls \ {r.call} : r.id = ResponseId(c)

\* importer.ts, "never re-point session_id/turn_id of live writer rows": an
\* import leaves a live row where it is, and renames it at most to the
\* provider's id of its own call.  A drain leaves it there too, unless it is
\* that of the call a row has been mistaken for.
LiveRowsKept ==
  [][\A r \in rows :
       (r.by = "live" /\ \A p \in pending \ pending' : p.id = r.id => ~Mistaken(r)) =>
       \E q \in rows' :
         /\ [q EXCEPT !.id = r.id] = r
         /\ q.id = r.id \/ (r.call \in Plain => q.id = ResponseId(r.call))]_rows

\* An import that is run again, with nothing new to read and nothing drained
\* since, adds nothing, if no row is taken for another call's, and the legacy
\* import reports that it added nothing.
RepeatAddsNothing ==
  /\ (run.repeat /\ Plain = DOMAIN calls) => run.inserted = 0
  /\ (legacy.phase = "report" /\ legacy.repeat) => legacy.added = 0

\* A tool call that comes from a log was written with its own message: none
\* is written, or moved to a fork, for a message that was skipped.  The row of
\* the message may have become that of a call like it since.
ToolsFollow ==
  \A t \in tools : t.by = "log" =>
    \E r \in rows : r.session = t.session /\ Matches(r, t.call)

\* A dry run counts what the run would do, if the database stays as it is, no
\* row is taken for another call's, and no message without a provider id has
\* been copied to a fork.
PreviewExact ==
  (run.phase = "write" /\ ~run.stale /\ ~run.failed /\ Plain = DOMAIN calls
     /\ \A f, g \in Files : \A c \in CallsOf(f) \cap CallsOf(g) :
          f # g => calls[c].named) =>
    ForeseenAll.counts = WrittenTo(Len(run.plan)).counts

=============================================================================
