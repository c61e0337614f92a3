----------------------------- MODULE CursorHooks -----------------------------
(***************************************************************************)
(* The Cursor writer: one process for every hook event of a conversation.  *)
(* Its hooks carry no token counts.  A response is recorded as a           *)
(* placeholder row, and the end of a turn fills in what the transcript, or *)
(* else Cursor's own database, says of the whole conversation so far; what *)
(* matches a placeholder by its id, or else by its position, updates that  *)
(* row.  The hooks share a state file, as those of Claude Code do.         *)
(*                                                                         *)
(* A message stands for its token counts.  Costs, models, subscriptions,   *)
(* the raw event of preCompact and payloads without any conversation id    *)
(* are left out.                                                           *)
(***************************************************************************)
EXTENDS Naturals, Sequences, FiniteSets

LOCAL INSTANCE SequencesExt

CONSTANTS
  Procs,    \* processes that may run at once
  Tools,    \* tool calls of the conversation
  Null,
  Kinds,    \* what Cursor's payloads and transcripts are like (below)
  MaxPrompts, MaxMessages, MaxStarts, MaxMishaps  \* bounds

\* named: payloads have generation and tool ids; same: the entries of a
\* transcript have the generation's id, and not one of their own.
ASSUME KindsAssumption == Kinds \subseteq [named : BOOLEAN, same : BOOLEAN]
ASSUME BoundsAssumption == {MaxPrompts, MaxMessages, MaxStarts, MaxMishaps} \subseteq Nat

\* Ids are those of a payload, or made of a counter; entries may have their own.
TurnIds == {"gen", "t"} \X Nat
MessageIds == {"gen", "m", "own"} \X Nat
CallIds == ({"use"} \X Tools) \cup ({"tc"} \X Nat)

\* What the state file holds: active, the tool calls begun, by their ids.
SessionStates ==
  [turnIndex : Nat, turn : TurnIds \cup {Null}, messageIndex : Nat, toolIndex : Nat,
   active : SUBSET [id : CallIds, tool : Tools], pending : Seq(MessageIds)]

ASSUME NullAssumption == Null \notin Nat \cup Tools \cup TurnIds \cup SessionStates

VARIABLES
  kind,      \* one of Kinds
  file,      \* the conversation's state file, or Null
  hooks,     \* process -> the hook it runs, with its steps still to do
  session,   \* the session's row: which of its fields are set
  turns,     \* turn id -> the row's prompts (history) and whether it has ended
  messages,  \* message id -> its row
  calls,     \* tool call id -> its row
  phase,     \* what Cursor is doing
  prompts,   \* prompts submitted so far; a prompt is a generation
  written,   \* message -> the prompt it answers, or Null for a subagent's (history)
  blank,     \* the messages whose entry has no token counts
  issued,    \* tool -> the prompt it was issued for (history)
  starts,    \* sessionStart events so far
  mishaps,   \* what went wrong so far: how often
  upset      \* and which kinds of it (history)

store == <<session, turns, messages, calls>>
cursor == <<kind, phase, prompts, written, blank, issued, starts>>
trouble == <<mishaps, upset>>
vars == <<file, hooks, store, cursor, trouble>>

Mishap(what) ==
  /\ mishaps < MaxMishaps
  /\ mishaps' = mishaps + 1
  /\ upset' = upset \cup {what}

\* makeInitialSessionState
Fresh ==
  [turnIndex |-> 0, turn |-> Null, messageIndex |-> 0, toolIndex |-> 0,
   active |-> {}, pending |-> <<>>]

Idle == [todo |-> <<>>]
Busy(p) == hooks[p] # Idle
Doing(p, step) ==
  /\ Busy(p) /\ hooks[p].todo # <<>> /\ Head(hooks[p].todo) = step
  /\ DOMAIN hooks[p].records = {}
Quiet == \A p \in Procs : ~Busy(p)

Set(f, k, v) == [x \in DOMAIN f \cup {k} |-> IF x = k THEN v ELSE f[x]]

-----------------------------------------------------------------------------
(* Ids                                                                     *)

HarnessTurnId(generation, index) == IF kind.named THEN <<"gen", generation>> ELSE <<"t", index>>
HarnessMessageId(generation, index) == IF kind.named THEN <<"gen", generation>> ELSE <<"m", index>>
HarnessToolCallId(tool, index) == IF kind.named THEN <<"use", tool>> ELSE <<"tc", index>>

\* An entry of a transcript, or a bubble of the database.
EntryId(m) ==
  IF kind.same /\ written[m] # Null THEN <<"gen", written[m]>> ELSE <<"own", m>>

-----------------------------------------------------------------------------
(* The handlers, step by step: a step ends where another process can act.  *)

sessionStart       == <<"session", "write", "git">>
beforeSubmitPrompt == <<"read", "turn", "write">>
afterAgentResponse == <<"read", "placeholder", "write">>
preToolUse         == <<"read", "write">>
postToolUse        == <<"read", "tool", "write">>
postToolUseFailure == <<"read", "tool", "write">>
stop               == <<"read", "scan", "close", "write">>
subagentStop       == <<"read", "scan">>
sessionEnd         == <<"read", "scan", "end", "delete">>

\* main.ts: the events that have a handler.
Dispatch ==
  [sessionStart |-> sessionStart, beforeSubmitPrompt |-> beforeSubmitPrompt,
   afterAgentResponse |-> afterAgentResponse, preToolUse |-> preToolUse,
   postToolUse |-> postToolUse, postToolUseFailure |-> postToolUseFailure,
   stop |-> stop, subagentStop |-> subagentStop, sessionEnd |-> sessionEnd]

Run(p, event, tool) ==
  /\ ~Busy(p)
  /\ hooks' = [hooks EXCEPT ![p] =
       [event |-> event, todo |-> Dispatch[event], state |-> Fresh, tool |-> tool,
        generation |-> prompts', records |-> <<>>]]

Running(event) == \E p \in Procs : Busy(p) /\ hooks[p].event = event
RunningFor(tool) == \E p \in Procs : Busy(p) /\ hooks[p].tool = tool

-----------------------------------------------------------------------------
(* The steps of a handler                                                  *)

\* A hook without steps and records to write is done.
Proceed(p, hook) ==
  hooks' = [hooks EXCEPT ![p] = IF hook.todo = <<>> /\ DOMAIN hook.records = {} THEN Idle ELSE hook]

Advance(p, state) == Proceed(p, [hooks[p] EXCEPT !.todo = Tail(@), !.state = state])

\* Mutant: the session is only recorded when it starts.
MissingUnrecorded(p) ==
  /\ file = Null
  /\ IF hooks[p].event \in {"beforeSubmitPrompt", "sessionEnd"}
       THEN Advance(p, Fresh)
       ELSE hooks' = [hooks EXCEPT ![p] = Idle]
  /\ UNCHANGED <<session, file>>

\* Without a state, a prompt and the end of the session make one up and record
\* the session first, the latter writing the state too; other hooks return.
Missing(p) ==
  /\ file = Null
  /\ CASE hooks[p].event = "beforeSubmitPrompt" ->
            session' = session \cup {"known"} /\ Advance(p, Fresh) /\ UNCHANGED file
       [] hooks[p].event = "sessionEnd" ->
            session' = session \cup {"known"} /\ Advance(p, Fresh) /\ file' = Fresh
       [] OTHER ->
            hooks' = [hooks EXCEPT ![p] = Idle] /\ UNCHANGED <<session, file>>

\* preToolUse keeps the start of a tool call under its id.
Buffered(p, state) ==
  LET id == HarnessToolCallId(hooks[p].tool, state.toolIndex)
  IN [state EXCEPT !.active = {a \in @ : a.id # id} \cup {[id |-> id, tool |-> hooks[p].tool]},
                   !.toolIndex = @ + 1]

ReadState(p) ==
  /\ Doing(p, "read")
  /\ \/ Missing(p)
     \/ /\ file # Null
        /\ Advance(p, IF hooks[p].event = "preToolUse" THEN Buffered(p, file) ELSE file)
        /\ UNCHANGED <<session, file>>
  /\ UNCHANGED <<turns, messages, calls, cursor, trouble>>

RecordSession(p) ==
  /\ Doing(p, "session")
  /\ session' = session \cup {"known"}
  /\ Advance(p, Fresh)
  /\ UNCHANGED <<file, turns, messages, calls, cursor, trouble>>

Turn(id) == IF id \in DOMAIN turns THEN turns[id] ELSE [of |-> {}, ended |-> FALSE]

RecordTurn(p) ==
  /\ Doing(p, "turn")
  /\ LET i == hooks[p].state.turnIndex + 1
         id == HarnessTurnId(hooks[p].generation, i)
     IN /\ turns' = Set(turns, id, [Turn(id) EXCEPT !.of = @ \cup {hooks[p].generation}])
        /\ Advance(p, [hooks[p].state EXCEPT !.turnIndex = i, !.turn = id])
  /\ UNCHANGED <<file, session, messages, calls, cursor, trouble>>

\* An upsert of a message: the tokens are the new ones, the turn stays if none
\* is given.  of: the generations whose responses the row stands for (history).
Message(id) == IF id \in DOMAIN messages THEN messages[id] ELSE [turn |-> Null, tokens |-> Null, of |-> {}]

\* Mutant: the message counter stays.
RecordPlaceholderAgain(p) ==
  /\ Doing(p, "placeholder")
  /\ LET state == hooks[p].state
         id == HarnessMessageId(hooks[p].generation, state.messageIndex)
     IN /\ messages' = Set(messages, id,
             [turn |-> state.turn, tokens |-> Null, of |-> Message(id).of \cup {hooks[p].generation}])
        /\ Advance(p, [state EXCEPT !.pending = Append(@, id)])
  /\ UNCHANGED <<file, session, turns, calls, cursor, trouble>>

\* afterAgentResponse: no tokens yet.
RecordPlaceholder(p) ==
  /\ Doing(p, "placeholder")
  /\ LET state == hooks[p].state
         id == HarnessMessageId(hooks[p].generation, state.messageIndex)
     IN /\ messages' = Set(messages, id,
             [turn |-> IF state.turn = Null THEN Message(id).turn ELSE state.turn,
              tokens |-> Null, of |-> Message(id).of \cup {hooks[p].generation}])
        /\ Advance(p, [state EXCEPT !.messageIndex = @ + 1, !.pending = Append(@, id)])
  /\ UNCHANGED <<file, session, turns, calls, cursor, trouble>>

\* postToolUse, postToolUseFailure: without an id, it is the last one begun.  The
\* row keeps its start time.
RecordToolCall(p) ==
  /\ Doing(p, "tool")
  /\ LET state == hooks[p].state
         id == HarnessToolCallId(hooks[p].tool, IF state.toolIndex = 0 THEN 0 ELSE state.toolIndex - 1)
         mine == {a \in state.active : a.id = id}
         begun == IF mine = {} THEN Null ELSE (CHOOSE a \in mine : TRUE).tool
     IN /\ calls' = IF id \in DOMAIN calls THEN [calls EXCEPT ![id].of = @ \cup {hooks[p].tool}]
                      ELSE Set(calls, id, [of |-> {hooks[p].tool}, begun |-> begun])
        /\ Advance(p, [state EXCEPT !.active = @ \ mine])
  /\ UNCHANGED <<file, session, turns, messages, cursor, trouble>>

\* The responses with token counts, of the conversation or of its subagents.
Counted(mine) == {m \in DOMAIN written : m \notin blank /\ (written[m] # Null) = mine}

\* The transcript so far, or that of the subagents, in the order of the messages.
Entries(mine) == [m \in Counted(mine) |-> [id |-> EntryId(m), tokens |-> m]]

\* The bubbles of Cursor's own database.
Bubbles == [m \in Counted(TRUE) |-> [id |-> EntryId(m), tokens |-> m]]

\* Mutant: by position only.
CorrelatedInOrder(entries, known) ==
  LET place(m) == Cardinality({l \in DOMAIN entries : l <= m})
  IN [m \in DOMAIN entries |->
       IF place(m) <= Len(known) THEN [entries[m] EXCEPT !.id = known[place(m)]] ELSE entries[m]]

\* drainTranscript: the i-th entry that matches no known placeholder takes the
\* place of the i-th placeholder that no entry matches.
Correlated(entries, known) ==
  LET spare == {m \in DOMAIN entries : \A k \in DOMAIN known : known[k] # entries[m].id}
      free == {k \in DOMAIN known : \A m \in DOMAIN entries : entries[m].id # known[k]}
      Level(m, k) ==
        Cardinality({l \in spare : l <= m}) = Cardinality({l \in free : l <= k})
  IN [m \in DOMAIN entries |->
       IF m \in spare /\ \E k \in free : Level(m, k)
         THEN [entries[m] EXCEPT !.id = known[CHOOSE k \in free : Level(m, k)]]
         ELSE entries[m]]

Backfill(p, records) == Proceed(p, [hooks[p] EXCEPT !.todo = Tail(@), !.records = records])

Only(records, ms) == [m \in DOMAIN records \cap ms |-> records[m]]

\* Mutant: only what is known to be pending is filled in.
ScanPending(p) ==
  /\ Doing(p, "scan")
  /\ LET pending == hooks[p].state.pending IN
       Backfill(p, Only(Entries(TRUE), {m \in DOMAIN written : \E k \in DOMAIN pending : pending[k] = EntryId(m)}))
  /\ UNCHANGED <<file, store, cursor, trouble>>

\* runBackfill's sources: the transcript, and the database if that has nothing.
\* The placeholders are the state's; it forgets them.
ScanTranscript(p) ==
  /\ Doing(p, "scan")
  /\ IF hooks[p].event = "subagentStop"
       THEN Backfill(p, Entries(FALSE))
       ELSE Backfill(p, Correlated(Entries(TRUE), hooks[p].state.pending))
  /\ UNCHANGED <<file, store, cursor, trouble>>

ScanSqlite(p) ==
  /\ Doing(p, "scan") /\ hooks[p].event # "subagentStop"
  /\ Backfill(p, Bubbles)
  /\ UNCHANGED <<file, store, cursor, trouble>>

\* Neither can be read; a line still being written hides all of a transcript.
ScanFails(p) ==
  /\ Doing(p, "scan")
  /\ Backfill(p, <<>>)
  /\ Mishap("unreadable")
  /\ UNCHANGED <<file, store, cursor>>

\* runBackfill's loop: the row's turn is left alone.
RecordLlmMessage(p) ==
  /\ Busy(p)
  /\ LET records == hooks[p].records IN
       \E m \in DOMAIN records :
         /\ \A l \in DOMAIN records : m <= l
         /\ messages' = Set(messages, records[m].id, [Message(records[m].id) EXCEPT !.tokens = records[m].tokens])
         /\ Proceed(p, [hooks[p] EXCEPT !.records = Only(records, DOMAIN records \ {m})])
  /\ UNCHANGED <<file, session, turns, calls, cursor, trouble>>

\* stop closes the turn that is open, and forgets tools and placeholders.
CloseTurn(p) ==
  /\ Doing(p, "close")
  /\ LET id == hooks[p].state.turn IN
       turns' = IF id = Null THEN turns ELSE Set(turns, id, [Turn(id) EXCEPT !.ended = TRUE])
  /\ Advance(p, [hooks[p].state EXCEPT !.turn = Null, !.active = {}, !.pending = <<>>])
  /\ UNCHANGED <<file, session, messages, calls, cursor, trouble>>

WriteState(p) ==
  /\ Doing(p, "write")
  /\ file' = hooks[p].state
  /\ Advance(p, hooks[p].state)
  /\ UNCHANGED <<store, cursor, trouble>>

CaptureGit(p) ==
  /\ Doing(p, "git")
  /\ Advance(p, hooks[p].state)
  /\ UNCHANGED <<file, store, cursor, trouble>>

EndSession(p) ==
  /\ Doing(p, "end")
  /\ session' = session \cup {"known", "ended"}
  /\ Advance(p, hooks[p].state)
  /\ UNCHANGED <<file, turns, messages, calls, cursor, trouble>>

DeleteState(p) ==
  /\ Doing(p, "delete")
  /\ file' = Null
  /\ Advance(p, hooks[p].state)
  /\ UNCHANGED <<store, cursor, trouble>>

\* The deadline passes, a call throws, or the process is killed.
Abandon(p) ==
  /\ Busy(p)
  /\ hooks' = [hooks EXCEPT ![p] = Idle]
  /\ Mishap("abandoned")
  /\ UNCHANGED <<file, store, cursor>>

Step(p) ==
  \/ ReadState(p) \/ RecordSession(p) \/ RecordTurn(p) \/ RecordPlaceholder(p) \/ RecordToolCall(p)
  \/ ScanTranscript(p) \/ ScanSqlite(p) \/ ScanFails(p) \/ RecordLlmMessage(p)
  \/ CloseTurn(p) \/ WriteState(p) \/ CaptureGit(p) \/ EndSession(p) \/ DeleteState(p)
  \/ Abandon(p)

-----------------------------------------------------------------------------
(* Cursor.  It waits for a conversation's, a prompt's and a stop's hooks,  *)
(* and for a tool's before the tool goes on; other hooks may overlap.      *)

Begin(p) ==
  /\ Quiet /\ phase # "busy" /\ starts < MaxStarts
  /\ phase' = "idle" /\ starts' = starts + 1
  /\ IF starts = 0 THEN UNCHANGED trouble ELSE Mishap("replayed")
  /\ UNCHANGED <<file, store, kind, prompts, written, blank, issued>>
  /\ Run(p, "sessionStart", Null)

\* It began before the writer was installed.
BeginUnseen ==
  /\ phase = "off"
  /\ phase' = "idle" /\ starts' = 1
  /\ UNCHANGED <<file, hooks, store, kind, prompts, written, blank, issued, trouble>>

Prompt(p) ==
  /\ Quiet /\ phase = "idle" /\ prompts < MaxPrompts
  /\ phase' = "busy" /\ prompts' = prompts + 1
  /\ UNCHANGED <<file, store, kind, written, blank, issued, starts, trouble>>
  /\ Run(p, "beforeSubmitPrompt", Null)

Working == phase = "busy" /\ ~Running("beforeSubmitPrompt")

\* A hook begins while another runs.
Overlap == upset' = (IF Quiet THEN upset ELSE upset \cup {"overlapped"}) /\ UNCHANGED mishaps

Respond(p) ==
  /\ Working /\ Len(written) < MaxMessages
  /\ written' = Append(written, prompts)
  /\ \/ Overlap /\ UNCHANGED blank
     \/ Quiet /\ Mishap("uncounted") /\ blank' = blank \cup {Len(written) + 1}
  /\ UNCHANGED <<file, store, kind, phase, prompts, issued, starts>>
  /\ Run(p, "afterAgentResponse", Null)

ToolBegins(p, t) ==
  /\ Working /\ t \notin DOMAIN issued
  /\ issued' = Set(issued, t, prompts)
  /\ IF \E u \in DOMAIN issued : (\A k \in DOMAIN calls : u \notin calls[k].of) \/ RunningFor(u)
       THEN Mishap("parallel") ELSE Overlap
  /\ UNCHANGED <<file, store, kind, phase, prompts, written, blank, starts>>
  /\ Run(p, "preToolUse", t)

ToolEnds(p, t) ==
  /\ Working /\ t \in DOMAIN issued /\ issued[t] = prompts
  /\ ~RunningFor(t) /\ \A k \in DOMAIN calls : t \notin calls[k].of
  /\ Overlap
  /\ UNCHANGED <<file, store, cursor>>
  /\ Run(p, "postToolUse", t) \/ Run(p, "postToolUseFailure", t)

\* A subagent that had one response ends.
SubagentEnds(p) ==
  /\ Working /\ Len(written) < MaxMessages
  /\ written' = Append(written, Null)
  /\ Overlap
  /\ UNCHANGED <<file, store, kind, phase, prompts, blank, issued, starts>>
  /\ Run(p, "subagentStop", Null)

Answered(p) ==
  /\ Working /\ Quiet
  /\ phase' = "idle"
  /\ UNCHANGED <<file, store, kind, prompts, written, blank, issued, starts, trouble>>
  /\ Run(p, "stop", Null)

\* The user goes on without a stop.
Interrupt ==
  /\ Working /\ Quiet
  /\ phase' = "idle"
  /\ Mishap("interrupted")
  /\ UNCHANGED <<file, hooks, store, kind, prompts, written, blank, issued, starts>>

End(p) ==
  /\ phase \in {"idle", "busy"}
  /\ phase' = "over"
  /\ IF Quiet THEN UNCHANGED trouble ELSE Mishap("cutShort")
  /\ UNCHANGED <<file, store, kind, prompts, written, blank, issued, starts>>
  /\ Run(p, "sessionEnd", Null)

Harness ==
  \/ BeginUnseen \/ Interrupt
  \/ \E p \in Procs : Begin(p) \/ Prompt(p) \/ Respond(p) \/ SubagentEnds(p) \/ Answered(p) \/ End(p)
  \/ \E p \in Procs, t \in Tools : ToolBegins(p, t) \/ ToolEnds(p, t)

Next == Harness \/ \E p \in Procs : Step(p)

Init ==
  /\ kind \in Kinds
  /\ file = Null
  /\ hooks = [p \in Procs |-> Idle]
  /\ session = {} /\ turns = <<>> /\ messages = <<>> /\ calls = <<>>
  /\ phase = "off" /\ prompts = 0 /\ starts = 0
  /\ written = <<>> /\ blank = {} /\ issued = <<>>
  /\ mishaps = 0 /\ upset = {}

Spec == Init /\ [][Next]_vars

-----------------------------------------------------------------------------
\* What rows refer to exists, and the tokens are those of a message.
TypeOK ==
  /\ session = {} => turns = <<>> /\ messages = <<>> /\ calls = <<>>
  /\ \A id \in DOMAIN messages :
       /\ messages[id].turn \in DOMAIN turns \cup {Null}
       /\ messages[id].tokens \in DOMAIN written \cup {Null}
  /\ \A p \in Procs : Busy(p) => hooks[p].event \in DOMAIN Dispatch

\* When transcript entries have the generation's id and counts, a response's row never
\* gets the tokens of another generation, whatever placeholders were lost to
\* overlapping hooks or read twice (transcript/drain.ts, stop.ts).
TokensOfGeneration ==
  kind.same /\ kind.named /\ "uncounted" \notin upset =>
    \A id \in DOMAIN messages : messages[id].tokens # Null => EntryId(messages[id].tokens) = id

\* A sessionEnd that gets as far as closing the session has filled in all rows,
\* whatever the hooks before it failed to (session-end.ts).
EndBackfilled ==
  kind.same /\ kind.named /\ upset \cap {"unreadable", "cutShort", "uncounted"} = {} =>
    \A p \in Procs : Doing(p, "delete") =>
      \A m \in DOMAIN written : written[m] # Null =>
        /\ EntryId(m) \in DOMAIN messages
        /\ messages[EntryId(m)].tokens # Null

\* Responses and prompts of different generations do not share rows, and a
\* response belongs to the turn of its generation; without ids in the payload,
\* only as long as no hook fails or overlaps and no session starts over.
ResponsesApart ==
  kind.named \/ upset \cap {"abandoned", "replayed", "cutShort", "overlapped", "parallel"} = {} =>
    /\ \A id \in DOMAIN turns : Cardinality(turns[id].of) = 1
    /\ \A id \in DOMAIN messages :
         /\ Cardinality(messages[id].of) <= 1
         /\ messages[id].turn # Null /\ upset \cap {"abandoned", "replayed", "cutShort"} = {} =>
              messages[id].of = turns[messages[id].turn].of

\* Tool calls have rows of their own, with their own start time or none;
\* without ids in the payload, only while tools and hooks take turns.
ToolsApart ==
  kind.named \/ upset \subseteq {"unreadable", "interrupted", "uncounted"} =>
    \A id \in DOMAIN calls : \E t \in Tools :
      /\ calls[id].of = {t}
      /\ calls[id].begun \in {t, Null}
      /\ upset = {} => calls[id].begun = t

\* Turns, responses and tool calls have rows of their own.
RowsApart == ResponsesApart /\ ToolsApart

\* transcript/drain.ts:138-141, stop.ts:81-84, session-end.ts:88-91: with one
\* message a turn, no message has its tokens in two rows.
NotCountedTwice ==
  upset = {} /\ IsInjective(written) =>
    \A i, j \in DOMAIN messages : i # j => messages[i].tokens = Null \/ messages[i].tokens # messages[j].tokens
=============================================================================
