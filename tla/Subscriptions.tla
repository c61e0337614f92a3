---------------------------- MODULE Subscriptions ----------------------------
(***************************************************************************)
(* Monthly billing periods: computeMonthlyPeriod of the harness kit, the   *)
(* rows the Claude Code and Cursor writers upsert with it, and the period  *)
(* each of their messages is linked to.  Claude Code computes the period   *)
(* when a session starts or resumes and keeps it in the session's state;   *)
(* Cursor computes it again at every stop.                                 *)
(*                                                                         *)
(* A date is a local calendar day; a period runs from the start of one day *)
(* to the millisecond before another, which is the one recorded here.      *)
(* Messages are those whose cost the writers compute; plans, fees and      *)
(* quotas are left out, a subagent's transcript is part of its session's,  *)
(* and what the hooks of one session do to each other is in ClaudeHooks    *)
(* and CursorHooks.  The module is about one of the harnesses: the other   *)
(* has a block of its own in config.json and rows of its own.              *)
(***************************************************************************)
EXTENDS Naturals, Integers, Sequences

CONSTANTS
  Conversations,   \* sessions of Claude Code, or conversations of Cursor
  Days,            \* the days on which something may happen
  Configs,         \* what subscriptionStartDay may be set to
  MaxMessages,     \* bound on the messages of a conversation
  MaxEdits,        \* bound on the edits of config.json
  None             \* no subscription configured, no period, not begun

Years == Nat
Months == 1 .. 12
Dates == [year : Years, month : Months, day : 1 .. 31]

\* What the state file of a conversation knows: the subscriptionId, and how much
\* of the transcript has been read.
States == [sub : Dates \cup {None}, read : Nat]

ASSUME DaysAssumption == Days \subseteq {d \in Dates : d.year > 0}
ASSUME ConfigsAssumption == Configs \subseteq Int
ASSUME BoundsAssumption == MaxMessages \in Nat /\ MaxEdits \in Nat
ASSUME NoneAssumption == None \notin Int \cup Dates \cup States

Harnesses == {"claude-code", "cursor"}

\* The order of getTime() on the days.
Index(date) == 32 * (12 * date.year + date.month) + date.day

-----------------------------------------------------------------------------
(* computeMonthlyPeriod                                                    *)

Leap(year) == year % 4 = 0 /\ (year % 100 # 0 \/ year % 400 = 0)

DaysInMonth(year, month) ==
  CASE month = 2 -> IF Leap(year) THEN 29 ELSE 28
    [] month \in {4, 6, 9, 11} -> 30
    [] OTHER -> 31

\* periodStartDate: the day a month's period starts on, clamped to its length.
PeriodStart(year, month, startDay) ==
  [year |-> year, month |-> month,
   day |-> IF startDay <= DaysInMonth(year, month) THEN startDay ELSE DaysInMonth(year, month)]

Before(year, month) ==
  IF month - 1 < 1 THEN [year |-> year - 1, month |-> 12] ELSE [year |-> year, month |-> month - 1]

\* Mutant: the year does not roll over.
AfterInYear(year, month) ==
  IF month + 1 > 12 THEN [year |-> year, month |-> 1] ELSE [year |-> year, month |-> month + 1]

After(year, month) ==
  IF month + 1 > 12 THEN [year |-> year + 1, month |-> 1] ELSE [year |-> year, month |-> month + 1]

\* Mutant: the start day itself still belongs to the period before.
StartMonthLate(now, startDay) ==
  IF now.day > PeriodStart(now.year, now.month, startDay).day
    THEN [year |-> now.year, month |-> now.month]
    ELSE Before(now.year, now.month)

\* The month the current period started in.
StartMonth(now, startDay) ==
  IF now.day >= PeriodStart(now.year, now.month, startDay).day
    THEN [year |-> now.year, month |-> now.month]
    ELSE Before(now.year, now.month)

\* Mutant: the end is a month after today's, not after the start.
PeriodFromToday(now, startDay) ==
  LET start == StartMonth(now, startDay)
      next == After(now.year, now.month)
  IN [from |-> PeriodStart(start.year, start.month, startDay),
      to |-> PeriodStart(next.year, next.month, startDay)]

\* From this day until the one before the day `to`.
MonthlyPeriod(now, startDay) ==
  LET start == StartMonth(now, startDay)
      next == After(start.year, start.month)
  IN [from |-> PeriodStart(start.year, start.month, startDay),
      to |-> PeriodStart(next.year, next.month, startDay)]

\* loadSubscriptionConfig: a start day no month has counts as 1.
ValidStartDay(x) == IF x >= 1 /\ x <= 31 THEN x ELSE 1

-----------------------------------------------------------------------------
VARIABLES
  harness,   \* which harness this is
  today,
  config,    \* its subscriptionStartDay, or no subscription
  edits,     \* how often the config file was changed since the first day
  rows,      \* its rows of the subscriptions table: period_start -> the day after period_end
  begun,     \* per conversation the day of the first thing that happened in it
  state,     \* its state file, if there is one
  messages   \* its messages: the day of each, the row it is linked to, and
             \* whether its cost_source is subscription_covered

vars == <<harness, today, config, edits, rows, begun, state, messages>>

Init ==
  /\ harness \in Harnesses
  /\ today \in Days
  /\ config \in Configs \cup {None}
  /\ edits = 0
  /\ rows = [k \in {} |-> None]
  /\ begun = [c \in Conversations |-> None]
  /\ state = [c \in Conversations |-> None]
  /\ messages = [c \in Conversations |-> <<>>]

Current == MonthlyPeriod(today, ValidStartDay(config))
CurrentId == IF config = None THEN None ELSE Current.from

\* recordSubscription of the current period, when there is a subscription: the
\* row of this start is inserted, or its end updated.
RecordPeriod ==
  IF config = None THEN UNCHANGED rows
  ELSE rows' = [k \in DOMAIN rows \cup {Current.from} |->
                  IF k = Current.from THEN Current.to ELSE rows[k]]

\* Messages after the first `from` are upserted, covered by `id` if there is one.
Link(list, from, id) ==
  [i \in DOMAIN list |->
     IF i > from THEN [on |-> list[i].on, link |-> id, covered |-> id # None] ELSE list[i]]

\* The state of a conversation none is found for.
Fresh == [sub |-> None, read |-> 0]

Begin(c) == begun' = [begun EXCEPT ![c] = IF @ = None THEN today ELSE @]

-----------------------------------------------------------------------------
\* SessionStart, of a new or resumed session: the state is written anew, with
\* the current period and nothing read.
SessionStart(c) ==
  /\ RecordPeriod
  /\ Begin(c)
  /\ state' = [state EXCEPT ![c] = [sub |-> CurrentId, read |-> 0]]
  /\ UNCHANGED <<harness, today, config, edits, messages>>

\* One that dies, or runs into its deadline, before the state is written.
SessionStartDies(c) ==
  /\ RecordPeriod
  /\ Begin(c)
  /\ UNCHANGED <<harness, today, config, edits, state, messages>>

\* A prompt of a conversation without state (the writer was installed later).
Prompt(c) ==
  /\ state[c] = None
  /\ Begin(c)
  /\ state' = [state EXCEPT ![c] = Fresh]
  /\ UNCHANGED <<harness, today, config, edits, rows, messages>>

\* The model answers: a line of the transcript, and of Cursor a row too, linked
\* to the state's period and of unknown cost, unless its hook finds no state or
\* dies.
Answer(c) ==
  /\ Len(messages[c]) < MaxMessages
  /\ Begin(c)
  /\ \E id \in {None} \cup (IF harness = "cursor" /\ state[c] # None THEN {state[c].sub} ELSE {}) :
       messages' = [messages EXCEPT ![c] = Append(@, [on |-> today, link |-> id, covered |-> FALSE])]
  /\ UNCHANGED <<harness, today, config, edits, rows, state>>

\* drainTranscript of Claude Code: what the state has not read yet, or after
\* another path everything, is upserted with the state's subscription.
Drain(c, found) ==
  \E from \in {0, found.read} : messages' = [messages EXCEPT ![c] = Link(@, from, found.sub)]

\* runBackfill of Cursor: the whole transcript is upserted with the current
\* period; without messages there is nothing to record.
Backfill(c) ==
  IF messages[c] = <<>> THEN UNCHANGED <<rows, messages>>
  ELSE RecordPeriod /\ messages' = [messages EXCEPT ![c] = Link(@, 0, CurrentId)]

\* Stop and SubagentStop; without a state they do nothing.
Stop(c) ==
  /\ state[c] # None
  /\ \/ harness = "claude-code"
        /\ Drain(c, state[c])
        /\ state' = [state EXCEPT ![c].read = Len(messages[c])]
        /\ UNCHANGED rows
     \/ harness = "cursor"
        /\ Backfill(c)
        /\ UNCHANGED state
  /\ UNCHANGED <<harness, today, config, edits, begun>>

\* SessionEnd reads what is left, with a new state if it finds none, and
\* deletes the state.
SessionEnd(c) ==
  /\ Begin(c)
  /\ \/ harness = "claude-code" /\ Drain(c, IF state[c] = None THEN Fresh ELSE state[c]) /\ UNCHANGED rows
     \/ harness = "cursor" /\ Backfill(c)
  /\ state' = [state EXCEPT ![c] = None]
  /\ UNCHANGED <<harness, today, config, edits>>

\* The user edits config.json, or it cannot be read.
EditConfig ==
  /\ edits < MaxEdits
  /\ config' \in Configs \cup {None}
  /\ edits' = edits + 1
  /\ UNCHANGED <<harness, today, rows, begun, state, messages>>

\* Time passes.
Later ==
  /\ \E d \in Days : Index(d) > Index(today) /\ today' = d
  /\ UNCHANGED <<harness, config, edits, rows, begun, state, messages>>

Next ==
  \/ \E c \in Conversations :
       \/ SessionStart(c) \/ SessionStartDies(c) \/ Prompt(c)
       \/ Answer(c) \/ Stop(c) \/ SessionEnd(c)
  \/ EditConfig
  \/ Later

Spec == Init /\ [][Next]_vars

-----------------------------------------------------------------------------
\* Every variable keeps to its type.
TypeOK ==
  /\ harness \in Harnesses
  /\ today \in Days /\ config \in Configs \cup {None} /\ edits \in 0 .. MaxEdits
  /\ DOMAIN rows \subseteq Dates /\ rows \in [DOMAIN rows -> Dates]
  /\ begun \in [Conversations -> Days \cup {None}]
  /\ state \in [Conversations -> States \cup {None}]
  /\ messages \in [Conversations -> Seq([on : Days, link : Dates \cup {None}, covered : BOOLEAN])]

Covers(id, date) == Index(id) <= Index(date) /\ Index(date) < Index(rows[id])

\* A row that is written covers the day it is written on (periods.ts: the
\* period "now" is in, across short months and the turn of the year).
RowsCurrent ==
  [][\A k \in DOMAIN rows' :
       \/ k \in DOMAIN rows /\ rows'[k] = rows[k]
       \/ Index(k) <= Index(today) /\ Index(today) < Index(rows'[k])]_vars

\* As long as nobody edits the start day, no day is paid for twice: two rows
\* share no day, however long the months between them are
\* (periods.ts:39-40).
RowsApart ==
  edits = 0 => \A j, k \in DOMAIN rows :
    j = k \/ Index(rows[j]) <= Index(k) \/ Index(rows[k]) <= Index(j)

\* A link names a row of the harness (the foreign key of
\* llm_messages.subscription_id), whatever is edited; and until the start day is,
\* it is the period of another day only in a conversation that has gone on past
\* the end of the period it began in.
LinksJustified ==
  \A c \in Conversations : \A i \in DOMAIN messages[c] :
    LET m == messages[c][i] IN
      m.link # None =>
        /\ m.link \in DOMAIN rows
        /\ edits = 0 => \/ Covers(m.link, m.on)
                        \/ MonthlyPeriod(begun[c], ValidStartDay(config)) # Current
=============================================================================
