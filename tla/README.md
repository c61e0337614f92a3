# Verification of ToTally's store

ToTally (`token-tally`) collects token usage and costs from coding-agent
harnesses into one SQLite database.  This directory holds TLA+ models of the
parts of it where order, concurrency and failure matter, the TLC runs that check
them and the proofs TLAPS checks.  Paths are relative to the repository.

## 1. The system

| Component | State | Operations | Talks to |
|---|---|---|---|
| Spool files, `store/src/spool.ts` | `spool/<harness>-<pid>.ndjson` (active), `*.ndjson.closed`, `spool.failed/` | append, size/age rotation, rotate, quarantine, promotion, drain of one file or of a directory | every process below, only through the file system |
| `AnalyticsWriter`, `store/src/writer.ts` | a connection, `dbState.writable`, options, a `SpoolWriter` | `open`, six record methods, `flush`, `close` | the database; on `SQLITE_BUSY` or I/O errors the spool; drains at open, flush and close |
| Drain engine, `store/src/drain-engine.ts`, `store/schema/001_initial.sql` | the tables; per batch the `DrainIdMaps` | upserts, placeholder lookup, cross-file repair | called live by the writer, in a transaction by each drainer |
| Ingest, `store/src/ingest.ts` | none | `ingestFile`, `ingestDir` with `maxFiles`/`maxMs` | spool files, the database |
| Daemon, `store/cli/index.ts` `cmdDaemon` | none that matters after a crash | promote stale active files, drain a bounded pass, sleep | spool files, the database |
| Connection and migrations, `store/src/connection.ts`, `migrations.ts` | `schema_version`, the schema | open with checks, busy retry, migration sets in transactions | the database file |
| Harness kit, `harnesses/kit` | session state files (written to a temporary name and renamed) | read, write, prune; dispatch of one hook with a timeout | hook processes |
| Billing periods, `harnesses/kit/src/periods.ts`, `config.ts` and the writers' uses of them | the start day in `config.json`, rows of `subscriptions`, the id a session's state keeps | compute the period of a day, record it, link messages to it | hooks, writer |
| Claude Code hooks, `harnesses/claude-code` | per session: turn counter, open turn, transcript offset, open tools | one process per hook event | kit, writer, the session's transcript |
| Cursor hooks, `harnesses/cursor` | per conversation: counters, open turn, pending placeholders, open tools | one process per hook event | kit, writer, the transcript or Cursor's own database |
| Pi extension, `harnesses/pi/writer-extension` | maps of sessions, turns, models and tools in memory; an append queue | asynchronous event handlers | a spool file of its own; Pi's pricing and git |
| Importers, `store/src/importers` | none between runs | backfill from Pi's session files and from an older extension's database | the database, beside live writers and the daemon |
| Pricing, doctor, CLI commands, queries, clients, installers | none of their own | arithmetic, reports, presentation | read the database, or call the record methods |

Behaviours that are hard to test, and why they are the subject:

- *Several drainers, no lock.*  A closing writer, the daemon and a manual ingest
  list, read, commit and unlink the same closed files; each step can fall
  between any two of another's.
- *Crashes.*  Between commit and unlink (at-least-once delivery), inside an
  append (a torn line makes the whole file unparsable), between the checks and
  the rename of a promotion; pids are reused.
- *Order.*  Files are drained in `readdir` order and records may be live while
  their parents are spooled, so children arrive before parents, ends before
  starts, old reports after new ones.
- *Placeholders.*  A spooled call returns a `spool:` id that the harness hands
  to later calls, in this process or another, live or spooled.
- *Timeouts.*  Drains do not retry a busy database; hooks are abandoned at a
  deadline; passes are bounded.
- *Hook processes.*  Those of one session read, change and replace a state file
  without a lock, and scan a transcript that is being written.
- *Waits.*  The Pi extension's handlers wait for pricing or git while the
  session ends and the next begins.
- *Second sources.*  Imports bring calls that live writers have recorded, are
  recording or still hold in a spool, and that forks of a session repeat.
- *Calendars.*  Start days that a month lacks, turns of the year; sessions that go
  on past the end of a period, responses recorded days after they were given.
- *Builds.*  Processes of different builds open, and migrate, one database.

What makes each part correct: the spool never loses an accepted record, empties
itself, and delivers at least once; the tables do not depend on the order in
which files are drained, but for a message's tokens, cost and subscription, which are
those drained last, and no row hangs on the wrong parent; a hook's state
loses nothing but what the code accepts to lose when hooks overlap or are
abandoned; a message is counted once and keeps its turn, whether a hook, the Pi
extension or an import brought it; billing periods cover their day and share none;
a migration set runs whole and once.
`PROJECT.json` lists the hazards one by one, with the line where each bites.

## 2. Modules

| Module | Models |
|---|---|
| `SpoolPipeline` | all processes and files of the spool: writers, daemon, ingest, quarantine |
| `Delivery` | abstract: what the store promises about a record |
| `SpoolPipelineProofs` | theorems about `SpoolPipeline` |
| `DrainEngine` | tables, upserts, foreign keys, lookup and repair, as operators |
| `AnalyticsWriter` | a harness's calls, live or spooled, and the drains that apply them; uses `DrainEngine` |
| `AnalyticsWriterProofs` | theorems about `AnalyticsWriter` and `DrainEngine` |
| `ClaudeHooks` | the hook processes of a Claude Code session, their state file and the transcripts |
| `ClaudeHooksProofs` | theorems about `ClaudeHooks` |
| `CursorHooks` | the hook processes of a Cursor conversation, placeholders and backfills |
| `CursorHooksProofs` | theorems about `CursorHooks` |
| `Subscriptions` | the billing periods of a harness, their rows, and the messages linked to them |
| `SubscriptionsProofs` | theorems about `Subscriptions` |
| `PiExtension` | the handlers of the Pi extension, their maps and waits, its append queue |
| `PiExtensionProofs` | theorems about `PiExtension` |
| `PiImport` | both importers of Pi's history, beside the live writer and the daemon |
| `PiImportProofs` | theorems about `PiImport` |
| `Database` | opening the database: schema status, busy databases, migration sets |
| `DatabaseProofs` | theorems about `Database` |
| `MC...` | constants, symmetry and the calls for TLC |

They meet at the spool and the tables.  `SpoolPipeline` shows that what a record
call accepts reaches the database or the quarantine, `AnalyticsWriter` over
`DrainEngine` that the order in which it gets there does not matter, except to a
message's tokens and subscription, of which the last drained stay;
the modules of the harnesses may therefore let a record call take effect at once,
and ask what the harness says and when.  `PiExtension` keeps its spool file,
because it has a writer of its own and promises the drain an order.

### SpoolPipeline

One action is one system call or one SQLite transaction, so that what separate
processes do interleaves as finely as it does in reality:

| Action | Code |
|---|---|
| `Open`, `RecordLive`, `RecordSpool`, `Finish`, `Sweep`, `Finished` | `AnalyticsWriter.open`, `withDbOrSpool` (both branches), `flush`/`close`, their `drain.onClose` sweep, their return |
| `NextFile`, `Rotate`, `CloseFile` | `SpoolWriter.rotateIfNeeded`, `rotate`; part of the calls that make them |
| `CrashInAppend`, `Crash`, `KillDaemon`, `KillIngester` | SIGKILL inside `appendFileSync` (file created, part of a line, whole line without return) and anywhere else |
| `Read`, `Commit`, `CommitThrows`, `Unlink`, `Quarantine` | the loop over files of `drainSingleSpoolFile`, `drainClosedSpoolFiles`, `ingestDir`; `Quarantine` swallows every error and may leave the file where it is |
| `StartPromotion`, `CheckStale`, `Promote`, `StartDrain`, `Restart` | `promoteStaleActiveFiles` with its checks and its rename apart, then `ingestDir`, in `cmdDaemon` |
| `IngestClosed`, `IngestActive` | `cmdIngest`, `ingestFile`, `ingestDir` |
| `Foreign`, `Age` | a dead writer's pid goes to an unrelated process; five minutes pass |

A record is a name: each record call is made at most once, and what it says does
not matter here.  A file's content is its set of records and whether it has a
torn line.  A closed name is `<<pid, kind, stamp>>`, where `stamp` stands for
`Date.now()`: the rename of a file gets the next stamp of that pid, or, when
`StampReuse` is TRUE, the same millisecond once more.  `rename` onto an existing
name replaces it, as POSIX does.  The `stat`, `existsSync` and `rename` inside a
writer's own `rotate` are one step, and so are the opening of a file by
`appendFileSync` and its write.  That leaves out one race, and `NoLoss` and its
theorem say nothing about it: a promotion that found a pid dead, a new writer that
gets this pid before the promotion's rename, and a rename that falls inside one of
those calls.  Inside `rotate`, the writer's own rename finds no file and the record
call throws, so the harness is told; inside `appendFileSync`, the line goes to a
file that is already closed, and is lost if a drainer has read it meanwhile.  The
rename between two calls of that writer is modelled.  `CheckStale` combines the pid
check and the `stat`, since a reuse between the two leads to the same outcomes.
Quarantine that is switched off (`failedDir` null) is left out.

`NoLoss` is the property everything else serves.  `DrainInv` says why it holds:
names are fresh, so a name means one file; reads of files still present are whole; and a
drainer unlinks only what is stored.  `LeavesStoredOrWhole` and
`OnceWithoutFaults` say what a step or a fault-free run may do.

`Delivery` is the same promise without files: records are taken, wait, are stored
or set aside.  The mapping takes `accepted`, the records in active and closed
files, `stored` and the records in quarantine.  It allows what the code really
does: a call that dies may leave its record behind, and a drainer that lost a
race may store a record another has set aside.

### DrainEngine and AnalyticsWriter

Tables are functions from natural keys (the upserts' conflict targets) to rows; a
UUID stands for the key of its row.  Columns that are written by the same rule
are one column: `cwd` stands for all `COALESCE`d columns of a session, `tokens`
for every column a message upsert assigns unconditionally, `version` for both
versions of a harness.  `Apply` is one iteration of `drainBatch`: `Repair` (the
session, then the turn, with the harness and session rows these need), `Resolve`,
the write with its foreign keys, and `Remember` for the `DrainIdMaps`.  `Numbered`
is the set of turn ids that repeat their session's id, which is what
`parseLegacySpoolTurnId` needs to parse a placeholder in a placeholder.

`AnalyticsWriter` lets a harness make its calls in an order it may choose
(what a call refers to has to have been answered, calls about one thing keep
their order) and each call may go live, throw, or be spooled.  `Keep` lets the
harness keep the first id it got or the last.  Closed files are drained in any
order and a committed file may come back (`MaxAgain`), as it does after a crash
between commit and unlink or with a second drainer.  A live write needs the
write lock, so it does not fall into an open transaction; a spooled call may.
`Compatible` is what reports have to be for "whatever the order" to mean anything:
two different ends of one session are both right in some order, and the upserts
keep the one drained last.

### ClaudeHooks

`Dispatch` gives each hook event the steps of its handler; a step ends where
another process can act, that is at an `await` of the state file, the transcript,
git or a record call.  `ReadState` and `WriteState` are `readJsonState` and
`writeJsonState` (a rename, so no torn state, and no lock, so lost updates);
`Scan` is `readTranscriptFrom` with the offset rules of `drainTranscript`, and
`RecordLlmMessage` its loop, one call a step.  `Abandon` ends a hook between any
two of its steps: the deadline of `runHookProcess`, an error of a call, or a kill.

What surrounds the hooks is Claude Code: prompts, responses written to a
transcript line by line (a line may be half-written when it is scanned), tools,
subagents with the session's transcript or one of their own, interrupted turns
without a Stop, a transcript cut back, SessionStart sent again by resume or
compaction.  The assumptions about it: it waits for the hooks of SessionStart,
UserPromptSubmit and Stop, and for a tool's PreToolUse before the tool goes on;
the hooks of parallel tools and subagents overlap; SessionEnd may come while others
run.  `upset` remembers which mishaps there have been, and each property says
under which of them it holds; `MaxMishaps` bounds them in a run.

### CursorHooks

The same with Cursor's events.  A message stands for its token counts, and what a
scan finds (`Entries`, `Bubbles`) is a function of the messages it has found, whose
order is that of the conversation.  A hook ends when it has neither steps nor records
left (`Proceed`).
`RecordPlaceholder` is the row without tokens of afterAgentResponse;
`ScanTranscript`, `ScanSqlite` and `RecordLlmMessage` are `runBackfill`, with the
correlation by id and by position as `Correlated`.  `kind` fixes what a
conversation's payloads and transcripts are like: with generation and tool ids
or not, transcript entries with the generation's id or one of their own.
preCompact, which only adds a raw event, and payloads without a conversation id,
which are ignored, are left out.

### Subscriptions

`MonthlyPeriod` is `computeMonthlyPeriod` with its helpers, on calendar days;
`RecordPeriod` the upsert of the row whose key is the period's first day.  The two
harnesses differ in when they compute it: Claude Code at `SessionStart`, after
which the id is in the session's state and `Drain` links what it reads to it;
Cursor again at every `Stop` and `SessionEnd`, whose `Backfill` links the whole
transcript anew.  `Answer` is the model's response, with the placeholder of Cursor's
afterAgentResponse; `EditConfig` and `Later` are the user and time.  `begun` is no
state of the code: it remembers the first day of a conversation, which is what
`LinksJustified` is about.  A module's behaviour is that of one harness, as the two
share no row and no block of `config.json`.  A day is what the local time zone of the
hook says it is; that the zone may change between two hooks is left out, and so are
fees, plans and messages whose cost is not the subscription's.

### PiExtension

One process, one thread: a handler is one step where it does not really wait.
`recordSession` and the others of the CLI writer resolve at once, so only
`MessageEnd`, which waits for the pricing module (`PricingLoads` resumes it), and
the git capture, which nobody waits for (`GitCaptured`), are split.
`AppendNext`, `Rotate` and their failures are the promise chain of
`cli-writer.ts`, `SessionShutdown` ends the session and closes the writer.
`waiting` has, for each load, the records its handlers will make that wait: all they
contain is fixed before the wait (`message.ts:178-222`), and the handlers resume in the
order in which they began to wait.  The maps
belong to the module and outlive a load; `Load` is the default export.
Assumed of Pi: it loads the extension anew for a session and waits for the
shutdown's handlers, and so for the rename, before the next load; message and tool
events fall inside a turn; the turn index grows within a session file; `Killed`
may end it anywhere.

### PiImport

`Call` and `Fork` let Pi write its session files: a call is recorded by the live
writer into its spool, was stored by an older writer under an id of its own, or was
not seen; a fork begins with a copy of another file.  `ReadSession` is
`importOneSession` up to its transaction, deciding each message in the order the
code tries (`Decide`); `WriteSession` the transaction, decision by decision
(`Written`); `CountSession` what a dry run counts instead (`Foreseen`).  The files left
to read are a set, `todo`, of which the oldest comes next, and the rows a message may
match are a set too, of which the oldest is taken.  `Drain`, the
daemon's work, may fall between reading and writing; it overwrites the row it finds
under its call's id, session, turn and counts included (`drain-engine.ts:155-179`).
`ImportAborts` ends a run where nothing catches what it meets, a database that cannot be
read or the end of the process: what was committed stays.  `StartLegacy` to `FinishLegacy` are the
import of the older database, with its counts before and after.  One import runs
at a time, and the calls of the legacy database are in no session file.

### Database

`Connect`, `Compare`, `CurrentVersion`, `BeginSet` or `SkipSet`, `RunFile`,
`CommitSet`, `Check` are the path of an open through `openConnection` and
`runMigrations`; `Busy`, `Fail` and `Crash` leave it.  `draft` is what the open
transaction has done: no one else sees it, and it is gone with the connection.
The code has one migration set today; a build of the model knows the sets up to
its newest version, because `MIGRATION_SETS`, the re-check inside the transaction
and the forward window are written for more.  `Busy` may happen only while another
process has the database open, and a process that spools does not.

## 3. Runs

| Run | Bounds | Distinct states | Shows |
|---|---|---|---|
| `SpoolRaces` | 1 pid (reused), daemon, ingest, 2 records, 1 fault, passes of 1 file | 2,142,178 | `NoLoss`, `LeavesStoredOrWhole`, refinement of `Delivery`; three drainers on the same files |
| `SpoolCrashes` | 2 pids that only spool, daemon, 2 records, 1 fault, passes of 2 files, fair | 159,560 | `OnceWithoutFaults`; every closed file's records leave the spool, orphans are promoted |
| `WriterLifecycle` | a session with a turn, a tool, a message reported twice, a subscription, a raw event; one file drained again | 328,390 | the order of drains is forgiven, nothing known is forgotten, rows hang where they were meant to, draining twice in a row equals once |
| `ClaudeHooks` | 2 processes, 2 prompts, 2 responses, 1 tool, 1 mishap | 1,516,988 | what overlapping and abandoned hooks may cost, and what they may not |
| `CursorHooks` | 2 processes, 2 prompts, 2 responses, 2 tools, 1 mishap, all kinds | 1,517,222 | tokens reach their own rows, the end makes up for earlier hooks, rows stay apart |
| `Subscriptions` | 1 conversation of either harness, 2 answers, 5 days, start day 31, 0 (invalid) or none, 1 edit | 421,942 | periods cover their day and never overlap, links have rows, only sessions that outlive a period misplace a message |
| `PiExtension` | 2 loads, of one session file or without one, 3 events, 1 tool, 1 fault | 2,200,120 | a rotated file is complete and in order, across waits, late git answers and shutdowns |
| `PiImport` | 2 files (forks), 2 calls, 2 runs of any kind, 1 failed transaction or aborted run | 1,644,049 | calls are counted once and none is missing, live rows stay but for calls that are mistaken, reports and previews are exact |
| `Database` | 3 processes of builds that know 1, 2 and 4 versions, 2 SQL files a set, 1 fault | 2,045,013 | migration sets run whole and once, an open's answer is justified |
| `SpoolSameMillisecond`, `WriterThrows`, `CursorTwice` | as small as the case allows | | section 5 |

Why the bounds are enough: a race in the spool involves one file and at most a
drainer that reads it, one that removes it and a writer that makes the next file of
the same pid, which is what `SpoolRaces` has; two records are needed for a file whose
records are partly stored.  `SpoolCrashes` has two pids, so that the daemon finds a dead writer's file
beside a live one's; the daemon keeps nothing from pass to pass, so a second fault
meets only what a first one can leave.  Proofs cover every number of processes, records and
faults for the safety properties of `SpoolPipeline` and `Database`, all that
`ClaudeHooks` and `CursorHooks` promise, every number of loads, events and faults for
`PiExtension`, every set of reports for `AnalyticsWriter`, every
number of files, calls, imports and failures for `PiImport`, and
every calendar, start day and number of conversations for `Subscriptions`, where TLC looks at the days on which a month
ends early and a year turns.  In
`AnalyticsWriter`, keys of different sessions never meet in an upsert, so one session
shows what the engine can do to it; two reports of one thing are what upserts tell
apart.  Two hook processes are what a lost update takes, and two prompts what a
row in a wrong turn takes; two mishaps at once would mostly excuse each other, as every
property names those it does not hold under.  Two files are a session and its
fork; two calls can be told apart or not.  A third call exceeds what TLC finishes
in minutes, and so does a fourth event in Pi's turns, which a message without an id in
each of two loads of one file would take: that `MessagesApart` holds across loads is
shown by its theorem only, from the assumption on Pi's turn index.

TLC's symmetry is used for processes, records, tools and token counts that are
interchangeable, only in runs without liveness.  `CHECK_DEADLOCK FALSE` stands where
a harness that has made its calls, or a session that is over, is done.

Each property was also checked against a plausible bug (the definitions marked
"Mutant:" in the modules; the list is in `PROJECT.json`), and each is violated by it.

### Fairness

`FairSpec` of `SpoolPipeline` assumes weak fairness of each daemon's own steps,
restarts included, and of time (`Age`).  The first is what launchd's KeepAlive and
systemd's Restart give it (`src/scripts/install-daemon.sh`) after a crash; a daemon
somebody stops on purpose is outside the assumption (systemd, with `on-failure`,
leaves it stopped).  The daemon's loop never waits for anybody, as busy databases
and bad files are errors it goes past.  Nothing is assumed of writers, harnesses
and manual ingests, and faults are finite: a disk that is always full or a daemon
that is always killed empties no spool.  `OrphansPromoted` is for a pid that stays
free: while a foreign process has it, `isProcessAlive` is true and the file is left
alone.  The liveness properties are checked where the writers can only spool.

The other modules state no fairness: a hook may always be killed, an import
stopped and Pi closed, and nothing makes up for it but a later hook or run, which
nobody has to start.  What must have happened by then is stated as safety instead:
`EndComplete` and `EndBackfilled` of the session's last hook, `NothingLeftOut` of a
file that was rotated, `NothingMissing` of an import that has finished.

## 4. Proofs

For every set of processes and records, and all bounds:

| Theorem | Says |
|---|---|
| `SpoolPipelineProofs`: `TypeCorrect` | `Spec => []TypeOK` |
| `InvariantHolds` | `Spec => []IInv` when no two rotations of a file share a millisecond |
| `NoRecordLost` | then `Spec => []NoLoss` |
| `DrainersSafe` | then `Spec => []DrainInv` |
| `FilesLeaveStoredOrWhole` | then `Spec => LeavesStoredOrWhole` |
| `OneFileHolds` | then a record is in one file, what a drainer holds is waiting or set aside, and a lone daemon's file is unstored |
| `PromiseKept` | then `Spec => KeepsPromise`: the spool implements `Delivery` |
| `OnceWithoutFaultsHolds` | then, with one daemon and no ingest (`DaemonAlone`), `Spec => []OnceWithoutFaults` |
| `DatabaseProofs`: `DatabaseInvariant` | `Spec => []IInv` |
| `DatabaseTypes` | `Spec => []TypeOK` |
| `SetsRunOnce` | `Spec => []SetsWhole` |
| `OpensJustified` | `Spec => []OutcomesJustified` |
| `ForwardOnly` | the version stays or advances by one |
| `ClaudeHooksProofs`: `HooksInvariant` | `Spec => []IInv` |
| `TurnsStayApart` | `Spec => []TurnsApart` |
| `ToolsTimed` | `Spec => []Timed` |
| `ToolsKeepTurn` | a tool's row has the turn the tool was issued in, when no hook was abandoned, replayed or overtaken by the session's end |
| `ScansInvariant` | `Spec => [](IInv /\ ScanInv)` |
| `HooksTypeOK` | `Spec => []TypeOK` |
| `ScansSkipNothing` | `Spec => []NothingSkipped` |
| `EndsComplete` | `Spec => []EndComplete` |
| `MessagesKeepTurn` | `Spec => []Attributed` |
| `CursorHooksProofs`: `CursorTypes` | `Spec => []TypeInv` |
| `CursorTypesHold` | `Spec => []TypeOK` |
| `TokensOfTheirGeneration` | `Spec => []TokensOfGeneration` |
| `EndsBackfilled` | `Spec => []EndBackfilled` |
| `CursorInvariant` | `Spec => []CursorInv` |
| `EveryRowApart` | `Spec => []RowsApart` |
| `SubscriptionsProofs`: `PeriodCovers` | the period of a day contains it, for every day and start day |
| `PeriodsNeverOverlap` | `Spec => []RowsApart` |
| `RowsCoverTheirDay` | `Spec => RowsCurrent` |
| `TypesHold` | `Spec => []TypeOK` |
| `SubscriptionsInvariant` | `Spec => []SInv` |
| `LinksAreJustified` | `Spec => []LinksJustified` |
| `AnalyticsWriterProofs`: `Invariant` | `Spec => []WriterInv` |
| `TypeCorrect` | `Spec => []TypeOK` |
| `OrderIsForgiven` | `Spec => []OrderForgiven` |
| `RowsAttributed` | `Spec => []Attributed` |
| `NothingIsForgotten` | `Spec => NothingForgotten` |
| `DuplicateDrainsHarmless` | `Spec => []ReplayAtOnce` |
| `PiExtensionProofs`: `PiInvariant` | `Spec => []PInv` |
| `PiTypesHold` | `Spec => []TypeOK` |
| `ParentsComeFirst` | `Spec => []ParentsFirst` |
| `NothingIsLeftOut` | `Spec => []NothingLeftOut` |
| `MessagesStayApart` | `Spec => []MessagesApart` |
| `MessagesAreAttributed` | `Spec => []Attributed` |
| `PiImportProofs`: `ImportsInvariant` | `Spec => []IInv` |
| `ImportTypes` | `Spec => []TypeOK` |
| `OneRowEach` | `Spec => []OnceEach` |
| `NoneMissing` | `Spec => []NothingMissing` |
| `ToolsWithMessages` | `Spec => []ToolsFollow` |
| `PreviewCounts` | `Spec => []PreviewExact` |
| `LiveRowsStayPut` | `Spec => LiveRowsKept` |
| `RepeatsAddNothing` | `Spec => []RepeatAddsNothing` |

*The spool.*  The invariant is `IInv == TypeOK /\ DrainInv /\ NoLoss`.  `NoLoss`
alone is not inductive: an unlink loses records unless the drainer read the whole
file and stored it, and that needs the name it read to still mean the same file,
which needs names to be fresh (`FreshNames`: every name in use, in a directory or in
a pass, has a stamp not later than its pid's latest).  The steps are sorted by what
they do to the directories (`Same`, `Closing`, `Unlinking`, `Setting`) and to the
loops (`Passive`: at most list more names in use); `DrainInvStep` combines the two,
and one lemma per action adds `NoLoss`.  The assumption `~StampReuse` is not a
convenience: without it the theorem is false, and `SpoolSameMillisecond` is the
counterexample.

*The promise.*  The refinement needs one fact more than `IInv`: what a drainer
is about to unlink or quarantine was accepted, and a record lies in one file only;
otherwise an unlink of a stored file could make a waiting record vanish from the
abstract state, or a quarantine leave it in two places.  `RInv` adds these, and one
lemma per action says which step of `Delivery` it is.

*Once.*  With several drainers a file may be stored by one and then fail in another,
so `OnceWithoutFaults` is a statement about one daemon without ingests and faults.
`OInv` adds that the daemon's file is the only one that may hold stored records,
and only between its commit and its unlink.

*The billing periods.*  Dates are compared by `Index`, and months by their number,
`12 * year + month`; `StartsInOrder` says that a period's first day is in its month's
order for every start day, which is where the clamping to short months could go
wrong.  Then two periods with one start day are the same or apart
(`PeriodsApart`), and a day is in exactly one.  The invariant `SInv` has `Monthly`
(a row is the period of some month, while nobody edits), `Linked` (every id in a
state or message has a row) and `Spanning`: an id is the period of a day between
the conversation's first and today, which is what makes a misplaced message the
sign of a conversation that has left its first period.

*The database.*  `SetsWhole` is about committed data, but a commit takes over what
the transaction has done.  The invariant therefore says what that is: exactly one
process holds the lock (`OneHolder`), without it the draft equals the database
(`DraftIdle`), with it the draft is the database with the first files of the set
that follows the version (`DraftPartial`).  That it is that set and no other
needs the re-check in `BeginSet` from below and `InOrder` from above: no process
reaches a set before those below it have run.  `OutcomesJustified` needs that
the version only grows (`BeganBelow`) and that a process which has finished its sets
finds the version at least at its own newest (`InOrder` again).  The assumptions are
those on the constants: every build supports a range of versions within `1 .. Newest`.

*The Claude Code hooks.*  `IInv` has `Shape` (what a hook, the state file and the
rows look like) unconditionally, and the rest while the session is `Calm`: no hook
abandoned, no SessionStart replayed, no SessionEnd in the middle of a hook.
`TurnsApart` is about rows; it holds because a prompt's hook computes its number from
a state file that has the number of the last prompt.  So the invariant has to say
who may run beside whom (`Who`: the hooks of a prompt, a stop, a start and an end run
alone), that the state file has the number, and the turn, of the last prompt
(`Filed`), and that every copy of it a hook holds agrees (`Knows`).  The last one is why
lost updates do no harm here: the hooks that overlap are those of tools and
subagents, all of them read the state of the same prompt, and none changes its
turn, so whichever of them writes last writes the same turn.  `Rows` then says
which rows there are and which are closed, `Issued` that a tool's hook still runs in
the prompt the tool was issued in.  `Kept` is about start times, which overlapping
hooks do lose: only while hooks take turns is every tool under way in the state
file or in the hands of its PreToolUse.

The transcripts have an invariant of their own, `ScanInv`.  Four parts of it hold
whatever goes wrong.  `Transcripts` and `Counted` say what there is (a line is of a response, a
response of a prompt, and no copy of the state counts a prompt whose hook has yet to
number it); `TypeOK` follows.  `NothingSkipped` is about the state file, but is not inductive
without `Skipless`, which says the same of every copy a hook holds: what lies below its offset
is recorded, was half-written, or is among the entries the hook still has to
record.  A hook writes the state only when it has none of these left, so abandoning it loses
an offset and never a line.  `EndSeen` is the same for the whole transcript once a
SessionEnd has scanned it, as Claude Code writes nothing any more.  The fifth, `Tracks`, holds while
hooks only overlap and transcripts are only cut back.  It makes the turn of a message
a matter of offsets: between prompts the state file has read everything (`Caught`), and
during a prompt what it has not read was written for that prompt, whose turn it has (`Fits`).
Each hook's copy fits likewise, so a scan records what it finds in the right turn; when the
offset lies beyond the end of the file, everything is found again and recorded without a turn.
That the copies fit rests on `IInv`: only hooks that know the prompt in work run
beside an answer.  What a scan takes from the lines is proved by induction
(`MessagesFacts`: all the whole ones, and no other).  The assumptions: the two transcripts differ,
`Null` is neither a number nor a state, and the bounds are numbers.

*The Cursor hooks.*  The four properties need different things.  `TypeInv` has what
`TypeOK` rests on: the session's row comes before every other, and a turn in the
state file, or in a copy of it, has a row.  `TokensOfGeneration` is about correlation:
`Exact` says that, with ids on both sides and every message counted as it arrives, every
pending id of every copy of the state belongs to a message already in the transcript, that
every row with tokens has those of its own generation, and that the records a hook
still has to write carry the ids of their own messages.  So a scan finds an entry for
every pending id, and no placeholder is left over for another entry to be
correlated with.
`EndBackfilled` needs no history, only that a sessionEnd which was not cut short runs alone
(`EndsAlone`): its scan is complete then (`ScanComplete`), and stays so until it deletes
the state.  `RowsApart` is the long one.  Where payloads have ids it follows
from what ids are made of (`Named`); where rows are numbered, it holds
because the counters of the state are ahead of all rows (`Numbered`), which is true of the
copy a hook is about to write, and of the file while nobody has such a copy: hence
`OneAtATime`, and `Ordered` for what runs in which phase.  That a response's row has
its generation's turn (`TurnsKnown`) needs that the file's turn is the current prompt's
as soon as the prompt's hook is done.  That a tool call gets a row of its own
with its own start (`Opened`) needs that at most one tool is without a result and that it is
the last one begun in the state, under an id no row has; and for a numbered id that
is again `Numbered`, while `Numbered` needs `Opened` to know that a result does not
take the number of a call still to come.  So the parts are proved together, as
`CursorInv`.  Assumed of the constants: the kinds are pairs of Booleans and `Null` is
no number, tool, turn id or state.

*The writers and drains.*  `OrderForgiven` speaks of the end, when every file is
drained; the invariant `WriterInv` says what is true on the way.  `Waiting`: a call that did not
throw is `Stored`, or one of its records is in a file.  `TxRight` says it again of
the open transaction, with what is left of its file in place of the file, and that is what a
commit makes true.  So three facts carry the proof: a record that is applied
stores its call, `Apply` takes nothing from another call (`StoresMore`), and what is
known of a session or turn stays known (`Keeps`, which is also `NothingForgotten`).
A record is one of `Records(c)`, the forms a call can take with ids or placeholders in
it; applying it is right because `MapsRight` says that the maps of a batch
resolve a placeholder to what the call meant, that a repair writes the session or turn
that was meant, and that a placeholder which is neither resolved nor repaired
fails a foreign key.  `TablesRight` gives `Attributed`: a row belongs to calls about it.
The write lemmas (`WriteRight`), the repairs (`RepairRight`) and the maps
(`RememberRight`) are proved one by one and meet in `ApplyRight`.  `FilesApart` keeps a
closed file from being mistaken for another: calls are not repeated, so two
files never have the same records (`OneCall`).  Assumed of the constants
(`ReportsAssumption`): one harness, and reports that agree about a thing, which
`OrderForgiven` needs: of two ends of one session the one drained last stays.  And
`NullAssumption`: `Null` is no reference.

`ReplayAtOnce` compares two drains of one file, the second from the tables the first has
left.  They are followed side by side, record by record (`Follows`): they have the same
maps, for what is looked up or repaired depends on the file alone, and every column of the second is
either as the first had it at the same record or as the first left it in the end
(`Between`).  A write keeps that, because it either sets a column whatever the row
was, or leaves it alone (`BetweenUpsert`); and no foreign key can fail that held
before, because the second drain has all rows from the start.  At the end both
alternatives are the same.  That a row has its columns, which the equality of tables needs, is
`TablesShaped`; the induction over the file is over a set of numbers, as below.

*The Pi extension.*  None of its four properties is inductive: each speaks of files,
and what comes into a file was decided a queue, a wait or a session earlier.
`PInv` follows a record back.  `Alive` says that one session is registered, one turn
in flight and one writer open; `Told` that the session and its turn are in the
file or queue, and that a handler which waits has its parents there; `Filed` that
each queue continues its file in order (`Ordered`), so that moving its head to
the file (`OrderedTail`) and appending what resumes (`OrderedConcat`) keep
`ParentsFirst`.  `Whole` says that a message which ended is in the file, the queue or the
waits, and at a shutdown what waits is exactly what is named late; that a rotated file
has an empty queue turns this into `NothingLeftOut`.  `Ids` needs a bound: an id
that was made up lies below the turn's message counter, or in a turn below the
session file's next one.  What the steps do to the writers is one relation
(`Moved`: a writer that loses nothing has said what it had said and the new records,
in order), proved once for appends, failures, renames, record calls and resuming
handlers.  A kill is where `Told` and `Whole` must not claim too much: queues are lost
with the process, and only what was rotated is complete.  Assumed of the constants:
`None` is none of the values it stands beside, the key of sessions without a file is
no file, and the plans name keys.

*The importers.*  A call is decided on in one step and written in another, and what the
decision rests on, the rows of its own session and the calls the run has seen, says
nothing by itself about rows of other sessions.  `IInv` supplies that.  `Stored`: a row of a
call with a provider id lies in the first file that has the call (`Owned`), under the
provider's id of a call like it or the live writer's own id of its own turn.
`Running`: the run reads files from the oldest on, and what a file left to read shares
with an older one is either seen or still to be read with it.  Hence a call that is
not seen is in its first file, and a row of it would be a row of that file, where the match
would have found it (`DecideRight`): so an import has no row of its own, and `OnceEach`
survives the insert.  `Spooled` says that the one thing that may come in between, a drained
row, has the provider's id, which the insert meets as a conflict.  A drain replaces the row
it finds under its call's id, which is a row of that call or of one like it in the
same session (`FoundRow`): so a row survives up to calls that are alike (`Survives`), which
is all that the decisions and the tool calls rest on, and it survives as it is where nothing
was mistaken (`LiveRowsKept`).  `Planned` keeps of
the decisions what is still true after a drain, a `Covered` call is skipped for a stated
reason, in the database, or ahead in the plan, which gives `NothingMissing`.

The loops over a file are folds.  Their invariants (`Deciding`, `Writing`, `Foreseeing`)
are proved for every length by induction on how many messages have been decided, in
the form of a set of numbers that contains 0 and each successor; first that the
function a fold defines exists (`DecideUpToExists`, ...), then that each value is right.
`PreviewExact` compares two such folds over one plan: when nothing has been drained and
no two calls are alike, each decision adds the same to the counts of both.
`PreviewExact` and `NothingMissing` follow from `IInv` without being part of it.

`RepeatAddsNothing` compares two imports, so a second invariant, `AgainInv`, says what the
first leaves to the second.  A call of a file is `Past` if the run skips it (it costs
nothing, lies behind the cutoff, or was in an older session) or has its row: for a call with a
provider id the row of any file, for another one a row of this file.  `Done`: while the
last thing that happened is an import, every call of every file in its window is
`Past`, is about to be written (`Coming`), or belongs to a file the run has still to
read.  `RestIsPast` is why reading a file keeps that: what a plan does not import
has matched a row, which is its own where no two calls are alike, or is a replay,
which `Covered` accounts for.  `Repeating` is the other half: in a run with the same options
the calls of the files still to read are `Past`, what is past is not imported (`ImportsAreNew`,
which is `OnceEach` seen from the plan), and a plan without imports leaves as many rows as there
were, as renaming a row takes no other's id (`AsMany`).  A failure, a drain, a call or a fork ends the
repetition.  `LegacyDone` says the same of the legacy import, whose rows replace themselves
one by one.

Assumed of the constants: the bounds are numbers, a legacy message is no API call of a
session file, there are finitely many of them (they are counted, as the rows of a database
are), and `Null` is no import's options (`NullAssumption`).

Only model-checked: the two liveness properties of the spool (`SpoolEmpties`,
`OrphansPromoted`), as liveness is out of the prover's reach.  Every safety invariant
and every action property that a passing run checks has a theorem.

## 5. Where code and comments disagree

Shown by runs:

- `SpoolSameMillisecond`: two rotations of one file in one millisecond get one
  name, and the second rename destroys the first file (`spool.ts:138`).
- `WriterThrows`: a live call with a placeholder of a spooled parent throws on a
  foreign key and is lost; the comment at `writer.ts:537` says such an error would
  repeat at every drain, but `drainBatch` would have resolved it.
- `CursorTwice`: an entry that took a placeholder's place by position is recorded
  once more, under its own id, by the next stop or the session's end, which have
  forgotten the placeholder; `cursor/writer/src/hooks/stop.ts:81-82` says that a
  second stop duplicates nothing.

Seen while modelling, and plain from the code: a Claude Code transcript path that
changes restarts the scan without `wasReset`
(`claude-code/writer/src/transcript/drain.ts:48`), so that after a subagent's own
transcript the session's earlier responses are recorded again with the current
turn, which the comments at 59-63 and 105-106 mean to prevent (`Attributed` leaves the
case out); a message that is recorded after its period has ended, or read again by a
later stop of Cursor's (`cursor/writer/src/hooks/stop.ts:175`), is linked to another
period than the one that covers it, which `docs/local-data.md:77` speaks of; the
placeholder of a Cursor response has a `subscription_id` while its cost is unknown
(`after-agent-response.ts:90`, against `docs/schema.md:265`); a file drained again after a newer
report takes the message's tokens back (`drain-engine.ts:168`), although
`docs/schema.md:329` calls duplicate delivery harmless; a repair writes NULL over
the versions of a known harness (`drain-engine.ts:595`), which `docs/schema.md:103`
relies on; a file that is stored may end up in quarantine when two drainers race
(`ingest.ts:335`), which `ingest.ts:62` says means that data was not persisted;
`close()` drains only the file it
has rotated itself, although `writer.ts:491-494` speaks of all records of the
session; `open()` drains earlier files only with `drain.onOpen`, although
`writer.ts:16` says so without condition; a second drainer, and not only a crash,
duplicates rows of `raw_events` (`docs/schema.md:329`); a subscription
placeholder of another file is not repaired and fails on its foreign key
(`ingest.ts:235`); a writer that found the database writable goes on writing after a
newer build has migrated it, as its status is decided in `open()` only; a file
whose import failed has already marked its calls as seen, so that a fork's copies of
them are skipped in that run (`importer.ts:622`); an import run again may add a row
where several calls have equal tokens, model and cost, and only some have a provider
id: the first run renames a row by a call it was not made from, and the next, finding
one row fewer to match, inserts that call again (`importer.ts:297-320`, `470-549`), which
`store/tests/pi-session-importer.test.js:13` speaks against.  `RepeatAddsNothing` is
therefore stated where no two calls are alike; the case takes more calls than the run has.
The same renaming can give a live row the id of a call that is still in a spool: the
drain of that call then overwrites the row with its own turn and counts
(`drain-engine.ts:155-179`), and the call the row was made from has none until an import
adds it again.  `LiveRowsKept` leaves out that drain of that row (`Mistaken`), and nothing
else.

## 6. Not modelled

- Pricing (`store/src/pricing`, `pricing-sources`), plans and their fees, and provider
  names: calculations without state or order, which unit tests reach.
- A time zone that changes between two hooks (`kit/src/periods.ts:27`): the period's
  first midnight is then another number, and a second row for it appears.
- That the importer numbers the turns of a session otherwise than the live writer
  did, and overwrites them (`importer.ts:439`): the model lets both number alike.
- Doctor, queries, usage command, web explorer, macOS tray: they read and present.
  The doctor's reports change nothing; its repairs, with `--apply` (`cli/index.ts:1030-1068`,
  `doctor.ts:207`, `doctor-pi-compare.ts:832`), change or delete rows in one transaction
  each, when someone asks for them, and no property speaks of a database so repaired.
- A session file an import cannot read: it counts as an empty session
  (`parser.ts:22-30`), so that its calls are missing after a run that reports no failure.
- Installers and scripts: file copying and service registration outside the
  running system.
- The CLI's `record`: one call of a writer; `migrate` is an open of `Database`.
- Cursor's preCompact hook, and the raw events, versions and subscriptions of the
  hooks, whose delivery is `AnalyticsWriter`'s subject.

## 7. What could follow

A larger instance of `PiImport` with several calls alike, for the import that adds a row
when it is run again (section 5, `importer.ts:297-320`), which the bounds of the run do
not reach; and proofs of the spool's two liveness properties, once a prover for them is
at hand.
