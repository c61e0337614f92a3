----------------------------- MODULE ClaudeHooks -----------------------------
(***************************************************************************)
(* The Claude Code writer: one short-lived process for every hook event of *)
(* one session.  What a session's hooks share is a state file they read,   *)
(* change and replace without a lock, and the transcript Claude Code       *)
(* appends to.  A process may be killed, or abandoned at its deadline,     *)
(* between any two of its steps.                                           *)
(*                                                                         *)
(* Only the transcript's assistant entries are modelled: the reader counts *)
(* the others and extractAssistantUsage skips them.  The record calls take *)
(* effect at once, as AnalyticsWriter and SpoolPipeline have them do in    *)
(* the end.  Costs, models and subscriptions are left out.                 *)
(***************************************************************************)
EXTENDS Naturals, Sequences

CONSTANTS
  Procs,        \* processes that may run at once
  Tools,        \* tool calls of the session
  Main, Sub,    \* the session's transcript, and a subagent's
  Null,
  MaxPrompts, MaxMessages, MaxStarts, MaxMishaps  \* bounds

ASSUME PathsAssumption == Main # Sub /\ Null \notin {Main, Sub} \cup Nat

\* What the state file holds, if there is one.
SessionStates ==
  [turnIndex : Nat, turn : Nat \cup {Null}, path : {Main, Sub, Null}, offset : Nat,
   active : SUBSET Tools]

ASSUME NullAssumption == Null \notin SessionStates
ASSUME BoundsAssumption == {MaxPrompts, MaxMessages, MaxStarts, MaxMishaps} \subseteq Nat

VARIABLES
  lines,    \* the transcripts: path -> sequence of [msg, whole]
  file,     \* the session's state file, or Null
  hooks,    \* process -> the hook it runs, with its steps still to do
  session,  \* the session's row: which of its fields are set
  turns,    \* turn index -> the row's prompts (history) and whether it has ended
  messages, \* message -> turn index of its row, or Null
  calls,    \* tool -> its row: the turn, and whether it has its own start time
  phase,    \* what Claude Code is doing
  prompts,  \* prompts submitted so far
  written,  \* message -> the prompt it answers (history)
  issued,   \* tool -> the prompt it was issued for (history)
  missed,   \* messages a scan met half-written (history)
  starts,   \* SessionStart events so far
  mishaps,  \* what went wrong so far: how often
  upset     \* and which kinds of it (history)

store == <<session, turns, messages, calls>>
claude == <<phase, prompts, written, issued, starts>>
trouble == <<mishaps, upset>>
vars == <<lines, file, hooks, store, claude, missed, trouble>>

Paths == {Main, Sub}

Mishap(kind) ==
  /\ mishaps < MaxMishaps
  /\ mishaps' = mishaps + 1
  /\ upset' = upset \cup {kind}

\* The state a hook makes up when it finds none, and SessionStart always.
Fresh == [turnIndex |-> 0, turn |-> Null, path |-> Null, offset |-> 0, active |-> {}]

Idle == [todo |-> <<>>]
Busy(p) == hooks[p].todo # <<>>
Doing(p, step) == Busy(p) /\ Head(hooks[p].todo) = step /\ hooks[p].entries = <<>>
Quiet == \A p \in Procs : ~Busy(p)

Set(f, k, v) == [x \in DOMAIN f \cup {k} |-> IF x = k THEN v ELSE f[x]]

-----------------------------------------------------------------------------
(* The handlers, step by step: a step ends where another process can act.  *)

SessionStart     == <<"session", "write", "git">>
UserPromptSubmit == <<"read", "turn", "write">>
PreToolUse       == <<"read", "write">>
PostToolUse      == <<"read", "tool", "scan", "write">>
Stop             == <<"read", "scan", "close", "write">>
SubagentStop     == <<"read", "scan", "write">>
SessionEnd       == <<"read", "scan", "write", "end", "delete">>

\* main.ts: the events that have a handler.
Dispatch ==
  [SessionStart |-> SessionStart, UserPromptSubmit |-> UserPromptSubmit,
   PreToolUse |-> PreToolUse, PostToolUse |-> PostToolUse, Stop |-> Stop,
   SubagentStop |-> SubagentStop, SessionEnd |-> SessionEnd]

Run(p, event, path, tool) ==
  /\ ~Busy(p)
  /\ hooks' = [hooks EXCEPT ![p] =
       [event |-> event, todo |-> Dispatch[event], state |-> Fresh, path |-> path,
        tool |-> tool, entries |-> <<>>, within |-> Null]]

Running(event, tool) == \E p \in Procs : Busy(p) /\ hooks[p].event = event /\ hooks[p].tool = tool

-----------------------------------------------------------------------------
(* The steps of a handler                                                  *)

Advanced(p) == [hooks[p] EXCEPT !.todo = Tail(@)]

Advance(p, state) ==
  hooks' = [hooks EXCEPT ![p] =
              IF Len(@.todo) = 1 THEN Idle ELSE [Advanced(p) EXCEPT !.state = state]]

\* Without a state, a prompt and the end of the session make one up and record
\* the session first; the other hooks return.
Missing(p) ==
  /\ file = Null
  /\ IF hooks[p].event \in {"UserPromptSubmit", "SessionEnd"}
       THEN session' = session \cup {"known"} /\ Advance(p, Fresh)
       ELSE hooks' = [hooks EXCEPT ![p] = Idle] /\ UNCHANGED session

\* Mutant: PreToolUse does not keep the tool.
ReadStateForgets(p) ==
  /\ Doing(p, "read")
  /\ \/ Missing(p)
     \/ file # Null /\ Advance(p, file) /\ UNCHANGED session
  /\ UNCHANGED <<lines, file, turns, messages, calls, claude, missed, trouble>>

ReadState(p) ==
  /\ Doing(p, "read")
  /\ \/ Missing(p)
     \/ /\ file # Null
        /\ Advance(p, IF hooks[p].event = "PreToolUse" THEN [file EXCEPT !.active = @ \cup {hooks[p].tool}]
                                                     ELSE file)
        /\ UNCHANGED session
  /\ UNCHANGED <<lines, file, turns, messages, calls, claude, missed, trouble>>

RecordSession(p) ==
  /\ Doing(p, "session")
  /\ session' = session \cup {"known"}
  /\ Advance(p, Fresh)
  /\ UNCHANGED <<lines, file, turns, messages, calls, claude, missed, trouble>>

Turn(i) == IF i \in DOMAIN turns THEN turns[i] ELSE [of |-> {}, ended |-> FALSE]

\* Mutant: the counter is not written back.
RecordTurnAgain(p) ==
  /\ Doing(p, "turn")
  /\ LET i == hooks[p].state.turnIndex + 1 IN
       /\ turns' = Set(turns, i, [Turn(i) EXCEPT !.of = @ \cup {prompts}])
       /\ Advance(p, [hooks[p].state EXCEPT !.turn = i])
  /\ UNCHANGED <<lines, file, session, messages, calls, claude, missed, trouble>>

\* The turn counter goes up, and the turn's id is made of it.
RecordTurn(p) ==
  /\ Doing(p, "turn")
  /\ LET i == hooks[p].state.turnIndex + 1 IN
       /\ turns' = Set(turns, i, [Turn(i) EXCEPT !.of = @ \cup {prompts}])
       /\ Advance(p, [hooks[p].state EXCEPT !.turnIndex = i, !.turn = i])
  /\ UNCHANGED <<lines, file, session, messages, calls, claude, missed, trouble>>

\* The start time is that of PreToolUse, when the state still has it; an upsert
\* changes neither the start time nor, if none is given, the turn.
RecordToolCall(p) ==
  /\ Doing(p, "tool")
  /\ LET state == hooks[p].state
         tool == hooks[p].tool
     IN /\ calls' = IF tool \notin DOMAIN calls
                      THEN Set(calls, tool, [turn |-> state.turn, timed |-> tool \in state.active])
                      ELSE IF state.turn = Null THEN calls ELSE [calls EXCEPT ![tool].turn = state.turn]
        /\ Advance(p, [state EXCEPT !.active = @ \ {tool}])
  /\ UNCHANGED <<lines, file, session, turns, messages, claude, missed, trouble>>

\* The messages of the lines that are whole, in their order.
Messages(new) ==
  LET upTo[n \in 0 .. Len(new)] ==
        IF n = 0 THEN <<>>
        ELSE IF new[n].whole THEN Append(upTo[n - 1], new[n].msg)
        ELSE upTo[n - 1]
  IN upTo[Len(new)]

\* Mutant: the empty string after the last newline counts as a line.
FromPhantom(path, offset) ==
  [entries |-> Messages(SubSeq(lines[path], offset + 1, Len(lines[path]))), torn |-> {},
   nextLine |-> Len(lines[path]) + 1, wasReset |-> FALSE]

\* readTranscriptFrom: the lines from an offset on, or from the start when the
\* offset lies beyond the end; half-written lines are skipped, and counted.
From(path, offset) ==
  LET reset == offset > Len(lines[path])
      new == SubSeq(lines[path], IF reset THEN 1 ELSE offset + 1, Len(lines[path]))
  IN [entries |-> Messages(new),
      torn |-> {new[i].msg : i \in {j \in DOMAIN new : ~new[j].whole}},
      nextLine |-> Len(lines[path]), wasReset |-> reset]

\* A file that cannot be read.
NoFile == [entries |-> <<>>, torn |-> {}, nextLine |-> 0, wasReset |-> FALSE]

\* Mutant: entries that are scanned again get the current turn.
ScannedAnew(p, read) ==
  LET state == hooks[p].state IN
  [Advanced(p) EXCEPT
     !.state = [state EXCEPT !.path = hooks[p].path, !.offset = read.nextLine],
     !.entries = read.entries, !.within = state.turn]

\* drainTranscript up to its calls: another path starts at offset 0.
Scanned(p, read) ==
  LET state == hooks[p].state IN
  [Advanced(p) EXCEPT
     !.state = [state EXCEPT !.path = hooks[p].path, !.offset = read.nextLine],
     !.entries = read.entries,
     !.within = IF read.wasReset THEN Null ELSE state.turn]

\* Mutant: the offset is used for any transcript.
OffsetOfAny(p) == hooks[p].state.offset

Offset(p) == IF hooks[p].state.path = hooks[p].path THEN hooks[p].state.offset ELSE 0

\* Mutant: the offset is written before the entries are recorded.
ScanPersists(p) ==
  /\ Doing(p, "scan")
  /\ LET read == From(hooks[p].path, Offset(p)) IN
       /\ hooks' = [hooks EXCEPT ![p] = Scanned(p, read)]
       /\ missed' = missed \cup read.torn
       /\ file' = Scanned(p, read).state
  /\ UNCHANGED <<lines, store, claude, trouble>>

Scan(p) ==
  /\ Doing(p, "scan")
  /\ LET read == From(hooks[p].path, Offset(p)) IN
       /\ hooks' = [hooks EXCEPT ![p] = Scanned(p, read)]
       /\ missed' = missed \cup read.torn
  /\ UNCHANGED <<lines, file, store, claude, trouble>>

ScanFails(p) ==
  /\ Doing(p, "scan")
  /\ hooks' = [hooks EXCEPT ![p] = Scanned(p, NoFile)]
  /\ Mishap("unreadable")
  /\ UNCHANGED <<lines, file, store, claude, missed>>

\* drainTranscript's loop.  The row keeps its turn when none is given.
RecordLlmMessage(p) ==
  /\ Busy(p) /\ hooks[p].entries # <<>>
  /\ LET m == Head(hooks[p].entries)
         turn == hooks[p].within
     IN messages' = Set(messages, m, IF turn = Null /\ m \in DOMAIN messages THEN messages[m] ELSE turn)
  /\ hooks' = [hooks EXCEPT ![p].entries = Tail(@)]
  /\ UNCHANGED <<lines, file, session, turns, calls, claude, missed, trouble>>

\* Stop closes the turn that is open, and forgets the tools.
CloseTurn(p) ==
  /\ Doing(p, "close")
  /\ LET i == hooks[p].state.turn IN
       turns' = IF i = Null THEN turns ELSE Set(turns, i, [Turn(i) EXCEPT !.ended = TRUE])
  /\ Advance(p, [hooks[p].state EXCEPT !.turn = Null, !.active = {}])
  /\ UNCHANGED <<lines, file, session, messages, calls, claude, missed, trouble>>

\* writeJsonState: a rename, so that no reader sees half of it.
WriteState(p) ==
  /\ Doing(p, "write")
  /\ file' = hooks[p].state
  /\ Advance(p, hooks[p].state)
  /\ UNCHANGED <<lines, store, claude, missed, trouble>>

\* captureRepoSnapshot finds a repository, or does not.
CaptureGit(p) ==
  /\ Doing(p, "git")
  /\ \/ session' = session \cup {"known", "repo"}
     \/ UNCHANGED session
  /\ Advance(p, hooks[p].state)
  /\ UNCHANGED <<lines, file, turns, messages, calls, claude, missed, trouble>>

EndSession(p) ==
  /\ Doing(p, "end")
  /\ session' = session \cup {"known", "ended"}
  /\ Advance(p, hooks[p].state)
  /\ UNCHANGED <<lines, file, turns, messages, calls, claude, missed, trouble>>

DeleteState(p) ==
  /\ Doing(p, "delete")
  /\ file' = Null
  /\ Advance(p, hooks[p].state)
  /\ UNCHANGED <<lines, store, claude, missed, trouble>>

\* runHookProcess: the deadline passes, a call throws, or the process is killed.
Abandon(p) ==
  /\ Busy(p)
  /\ hooks' = [hooks EXCEPT ![p] = Idle]
  /\ Mishap("abandoned")
  /\ UNCHANGED <<lines, file, store, claude, missed>>

Step(p) ==
  \/ ReadState(p) \/ RecordSession(p) \/ RecordTurn(p) \/ RecordToolCall(p)
  \/ Scan(p) \/ ScanFails(p) \/ RecordLlmMessage(p)
  \/ CloseTurn(p) \/ WriteState(p) \/ CaptureGit(p) \/ EndSession(p) \/ DeleteState(p)
  \/ Abandon(p)

-----------------------------------------------------------------------------
(* Claude Code.  It waits for a session's, a prompt's and a stop's hooks,  *)
(* and for a tool's before the tool goes on; other hooks may overlap.      *)

\* A session begins, or is resumed, or compacted under the same id.
Begin(p) ==
  /\ Quiet /\ phase # "busy" /\ starts < MaxStarts
  /\ Run(p, "SessionStart", Main, Null)
  /\ phase' = "idle" /\ starts' = starts + 1
  /\ IF starts = 0 THEN UNCHANGED trouble ELSE Mishap("replayed")
  /\ UNCHANGED <<lines, file, store, prompts, written, issued, missed>>

\* It began before the writer was installed.
BeginUnseen ==
  /\ phase = "off"
  /\ phase' = "idle" /\ starts' = 1
  /\ UNCHANGED <<lines, file, hooks, store, prompts, written, issued, missed, trouble>>

Prompt(p) ==
  /\ Quiet /\ phase = "idle" /\ prompts < MaxPrompts
  /\ Run(p, "UserPromptSubmit", Main, Null)
  /\ phase' = "busy" /\ prompts' = prompts + 1
  /\ UNCHANGED <<lines, file, store, written, issued, starts, missed, trouble>>

Working == phase = "busy" /\ ~Running("UserPromptSubmit", Null)

\* A subagent writes to the session's transcript, or to one of its own.
Available(path) == path = Main \/ "detour" \in upset

Subagent ==
  /\ Working
  /\ Mishap("detour")
  /\ UNCHANGED <<lines, file, hooks, store, claude, missed>>

Answer(path) ==
  /\ Working /\ Len(written) < MaxMessages /\ Available(path)
  /\ \A i \in DOMAIN lines[path] : lines[path][i].whole
  /\ written' = Append(written, prompts)
  /\ \E whole \in BOOLEAN :
       /\ lines' = [lines EXCEPT ![path] = Append(@, [msg |-> Len(written) + 1, whole |-> whole])]
       /\ IF whole THEN UNCHANGED trouble ELSE Mishap("torn")
  /\ UNCHANGED <<file, hooks, store, phase, prompts, issued, starts, missed>>

AnswerComplete(path) ==
  /\ lines[path] # <<>> /\ ~lines[path][Len(lines[path])].whole
  /\ lines' = [lines EXCEPT ![path][Len(lines[path])].whole = TRUE]
  /\ UNCHANGED <<file, hooks, store, claude, missed, trouble>>

\* A transcript is cut back to fewer lines.
Rotate(path) ==
  /\ lines[path] # <<>>
  /\ \E n \in 0 .. Len(lines[path]) - 1 : lines' = [lines EXCEPT ![path] = SubSeq(@, 1, n)]
  /\ Mishap("rotated")
  /\ UNCHANGED <<file, hooks, store, claude, missed>>

Overlap == upset' = (IF Quiet THEN upset ELSE upset \cup {"overlapped"}) /\ UNCHANGED mishaps

ToolBegins(p, t) ==
  /\ Working /\ t \notin DOMAIN issued
  /\ Run(p, "PreToolUse", Main, t)
  /\ issued' = Set(issued, t, prompts)
  /\ Overlap
  /\ UNCHANGED <<lines, file, store, phase, prompts, written, starts, missed>>

ToolEnds(p, t) ==
  /\ Working /\ t \in DOMAIN issued /\ issued[t] = prompts /\ t \notin DOMAIN calls
  /\ ~Running("PreToolUse", t) /\ ~Running("PostToolUse", t)
  /\ Run(p, "PostToolUse", Main, t)
  /\ Overlap
  /\ UNCHANGED <<lines, file, store, claude, missed>>

SubagentEnds(p, path) ==
  /\ Working /\ Available(path)
  /\ Run(p, "SubagentStop", path, Null)
  /\ Overlap
  /\ UNCHANGED <<lines, file, store, claude, missed>>

Answered(p) ==
  /\ Working /\ Quiet
  /\ Run(p, "Stop", Main, Null)
  /\ phase' = "idle"
  /\ UNCHANGED <<lines, file, store, prompts, written, issued, starts, missed, trouble>>

\* The user interrupts the turn, and there is no Stop.
Interrupt ==
  /\ Working /\ Quiet
  /\ phase' = "idle"
  /\ Mishap("interrupted")
  /\ UNCHANGED <<lines, file, hooks, store, prompts, written, issued, starts, missed>>

End(p) ==
  /\ phase \in {"idle", "busy"}
  /\ Run(p, "SessionEnd", Main, Null)
  /\ phase' = "over"
  /\ IF Quiet THEN UNCHANGED trouble ELSE Mishap("cutShort")
  /\ UNCHANGED <<lines, file, store, prompts, written, issued, starts, missed>>

Harness ==
  \/ BeginUnseen \/ Subagent \/ Interrupt
  \/ \E p \in Procs : Begin(p) \/ Prompt(p) \/ Answered(p) \/ End(p)
  \/ \E p \in Procs, t \in Tools : ToolBegins(p, t) \/ ToolEnds(p, t)
  \/ \E p \in Procs, path \in Paths : SubagentEnds(p, path)
  \/ \E path \in Paths : Answer(path) \/ AnswerComplete(path) \/ Rotate(path)

Next == Harness \/ \E p \in Procs : Step(p)

Init ==
  /\ lines = [path \in Paths |-> <<>>]
  /\ file = Null
  /\ hooks = [p \in Procs |-> Idle]
  /\ session = {} /\ turns = <<>> /\ messages = <<>> /\ calls = <<>>
  /\ phase = "off" /\ prompts = 0 /\ starts = 0
  /\ written = <<>> /\ issued = <<>>
  /\ missed = {} /\ mishaps = 0 /\ upset = {}

Spec == Init /\ [][Next]_vars

-----------------------------------------------------------------------------
TurnIds == 1 .. MaxPrompts
States == [turnIndex : 0 .. MaxPrompts, turn : TurnIds \cup {Null}, path : Paths \cup {Null},
           offset : 0 .. MaxMessages, active : SUBSET Tools]

TypeOK ==
  /\ file \in States \cup {Null}
  /\ session \subseteq {"known", "repo", "ended"}
  /\ DOMAIN turns \subseteq TurnIds /\ DOMAIN calls \subseteq Tools
  /\ DOMAIN messages \subseteq DOMAIN written
  /\ \A p \in Procs : Busy(p) =>
       /\ hooks[p].event \in DOMAIN Dispatch /\ hooks[p].state \in States
       /\ hooks[p].entries # <<>> => hooks[p].todo # <<>>

\* No line below the offset that the state file has for a transcript is lost:
\* it is recorded, or was half-written when it was scanned.  Whatever hooks
\* overlap, are abandoned between recording and writing, meet an unreadable
\* file or start over (drain.ts: calls before the new offset).
Recorded(path, n) ==
  \A i \in 1 .. n : i \in DOMAIN lines[path] =>
    lines[path][i].msg \in DOMAIN messages \cup missed

NothingSkipped ==
  "rotated" \notin upset /\ file # Null /\ file.path # Null => Recorded(file.path, file.offset)

\* A SessionEnd that gets as far as closing the session has recorded all of its
\* transcript, whatever the hooks before it did or failed to (session-end.ts).
EndComplete ==
  \A p \in Procs : Doing(p, "delete") /\ upset \cap {"rotated", "unreadable"} = {} =>
    \A i \in DOMAIN lines[Main] : lines[Main][i].whole =>
      lines[Main][i].msg \in DOMAIN messages \cup missed

\* While hooks only overlap, a message's row has the turn it was answered in,
\* and a tool's the turn it was called in; after a rotation, the row of a
\* message has that turn or none (drain.ts, M1).
Attributed ==
  /\ upset \subseteq {"overlapped", "rotated"} =>
       \A m \in DOMAIN messages :
         messages[m] = written[m] \/ ("rotated" \in upset /\ messages[m] = Null)
  /\ upset \subseteq {"overlapped", "rotated", "unreadable", "detour"} =>
       \A t \in DOMAIN calls : calls[t].turn = issued[t]

\* Prompts do not share a turn's row, and all turns but the last have an end,
\* as long as no hook is abandoned, no session replayed or ended in a prompt's
\* hook, and no turn interrupted (user-prompt-submit.ts, stop.ts).
TurnsApart ==
  upset \cap {"abandoned", "replayed", "cutShort"} = {} =>
    \A i \in DOMAIN turns :
      /\ turns[i].of = {i}
      /\ turns[i].ended \/ i = prompts \/ "interrupted" \in upset

\* A tool call has lost its start time only if hooks overlapped or failed
\* (state-io.ts: what a lost update costs).
Timed ==
  upset \cap {"overlapped", "abandoned", "replayed", "cutShort"} = {} =>
    \A t \in DOMAIN calls : calls[t].timed
=============================================================================
