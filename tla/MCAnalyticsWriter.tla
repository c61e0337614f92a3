-------------------------- MODULE MCAnalyticsWriter --------------------------
(* AnalyticsWriter for TLC: what one harness reports of one session.         *)
EXTENDS AnalyticsWriter

CONSTANTS h, s, t, u, m, k, plan1, v, dir

\* Claude Code's and Pi's turn ids are numbered, Cursor's (here u) are not.
TurnsNumbered == {<<s, t>>}

Identify == [type |-> "harness", about |-> "h", step |-> 1, harness |-> h, version |-> v]
Session(step, started, ended) ==
  [type |-> "session", about |-> "s", step |-> step, harness |-> h, session |-> s,
   cwd |-> IF step = 1 THEN dir ELSE Null, started |-> started, ended |-> ended]
Turn(turn, step, started, ended) ==
  [type |-> "turn", about |-> "t", step |-> step, harness |-> h, session |-> s,
   turn |-> turn, started |-> started, ended |-> ended]
Message(step, turn, plan, tokens) ==
  [type |-> "message", about |-> "m", step |-> step, harness |-> h, session |-> s,
   turn |-> turn, plan |-> plan, message |-> m, tokens |-> tokens]
Tool(step, ended) ==
  [type |-> "tool", about |-> "k", step |-> step, harness |-> h, session |-> s,
   turn |-> t, tool |-> k, ended |-> ended]
Plan == [type |-> "plan", about |-> "p", step |-> 1, harness |-> h, plan |-> plan1, used |-> 1]
Raw == [type |-> "raw", about |-> "r", step |-> 1, harness |-> h]

\* A session with a turn and a tool call, from start to end.
Lifecycle ==
  {Identify, Session(1, 1, Null), Session(2, 0, 4), Turn(t, 1, 2, Null), Turn(t, 2, 0, 3),
   Tool(1, 3)}

\* A message that is paid by a subscription, as its second report says.
Paid(turn) ==
  {Identify, Session(1, 1, Null), Turn(turn, 1, 2, Null), Plan, Message(1, turn, Null, 0),
   Message(2, Null, plan1, 7)}

\* A raw event beside a turn, and nothing else.
Events == {Identify, Session(1, 1, Null), Turn(u, 1, 2, Null), Raw}

EachReport == {Lifecycle, Paid(u), Events}
JustPaid == {Paid(t)}
=============================================================================
