------------------------- MODULE CursorHooksProofs -------------------------
(***************************************************************************)
(* What the Cursor writer guarantees about token counts and about the rows *)
(* of turns, responses and tool calls, for every number of processes,      *)
(* prompts, messages, tools and mishaps.                                   *)
(***************************************************************************)
EXTENDS CursorHooks, SequenceTheorems, FiniteSetTheorems, TLAPS

-----------------------------------------------------------------------------
(* Stages of a handler                                                     *)

Stages ==
  [sessionStart       |-> {<<"session", "write", "git">>, <<"write", "git">>, <<"git">>},
   beforeSubmitPrompt |-> {<<"read", "turn", "write">>, <<"turn", "write">>, <<"write">>},
   afterAgentResponse |-> {<<"read", "placeholder", "write">>, <<"placeholder", "write">>,
                           <<"write">>},
   preToolUse         |-> {<<"read", "write">>, <<"write">>},
   postToolUse        |-> {<<"read", "tool", "write">>, <<"tool", "write">>, <<"write">>},
   postToolUseFailure |-> {<<"read", "tool", "write">>, <<"tool", "write">>, <<"write">>},
   stop               |-> {<<"read", "scan", "close", "write">>, <<"scan", "close", "write">>,
                           <<"close", "write">>, <<"write">>},
   subagentStop       |-> {<<"read", "scan">>, <<"scan">>, <<>>},
   sessionEnd         |-> {<<"read", "scan", "end", "delete">>, <<"scan", "end", "delete">>,
                           <<"end", "delete">>, <<"delete">>}]

Ends == {"postToolUse", "postToolUseFailure"}
Tooling == {"afterAgentResponse", "preToolUse", "subagentStop"} \cup Ends
Closers == {"stop", "subagentStop", "sessionEnd"}
Counting == {"beforeSubmitPrompt", "afterAgentResponse", "preToolUse", "stop"} \cup Ends

\* The step that comes next.
Point(todo) == IF todo = <<>> THEN "done" ELSE Head(todo)

\* A hook of event e goes from one step to the next.
Goes(e, at, to) ==
  /\ to \notin {"read", "session"}
  /\ at = "read" =>
       /\ to # "done" /\ e # "sessionStart"
       /\ to = "turn" <=> e = "beforeSubmitPrompt"
       /\ to = "placeholder" <=> e = "afterAgentResponse"
       /\ to = "tool" <=> e \in Ends
       /\ to = "scan" <=> e \in Closers
       /\ to = "write" <=> e = "preToolUse"
  /\ at = "session" => e = "sessionStart" /\ to = "write"
  /\ at = "turn" => e = "beforeSubmitPrompt" /\ to = "write"
  /\ at = "placeholder" => e = "afterAgentResponse" /\ to = "write"
  /\ at = "tool" => e \in Ends /\ to = "write"
  /\ at = "scan" =>
       \/ e = "stop" /\ to = "close"
       \/ e = "subagentStop" /\ to = "done"
       \/ e = "sessionEnd" /\ to = "end"
  /\ at = "close" => e = "stop" /\ to = "write"
  /\ at = "write" => IF e = "sessionStart" THEN to = "git" ELSE e \in Counting /\ to = "done"
  /\ at = "git" => e = "sessionStart" /\ to = "done"
  /\ at = "end" => e = "sessionEnd" /\ to = "delete"
  /\ at = "delete" => e = "sessionEnd" /\ to = "done"

\* Where records may wait to be written.
Loaded == {"done", "close", "end"}

\* The handlers, by the step that comes next.
LEMMA Handlers ==
  ASSUME NEW e \in DOMAIN Stages, NEW todo \in Stages[e]
  PROVE
  /\ todo = <<>> <=> Point(todo) = "done"
  /\ Point(todo) = "done" => e = "subagentStop"
  /\ Point(todo) \in Loaded => e \in Closers
  /\ Point(todo) \in {"read", "session"} <=> todo = Dispatch[e]
  /\ todo # <<>> =>
       /\ Tail(todo) \in Stages[e] \cup {<<>>}
       /\ Tail(todo) = <<>> <=> Point(Tail(todo)) = "done"
       /\ Goes(e, Point(todo), Point(Tail(todo)))
<1>0. /\ <<>> # <<"git">> /\ \A x : Point(<<x>>) = x /\ Tail(<<x>>) = <<>>
      /\ \A x, y : Point(<<x, y>>) = x /\ Tail(<<x, y>>) = <<y>>
      /\ \A x, y, z : Point(<<x, y, z>>) = x /\ Tail(<<x, y, z>>) = <<y, z>>
      /\ \A x, y, z, u : Point(<<x, y, z, u>>) = x /\ Tail(<<x, y, z, u>>) = <<y, z, u>>
      /\ Point(<<>>) = "done"
      /\ \A x : <<x>> # <<>>
      /\ \A x, y : <<x, y>> # <<>> /\ \A z : <<x, y, z>> # <<>> /\ \A u : <<x, y, z, u>> # <<>>
  BY DEF Point
<1> USE <1>0 DEF Goes, Ends, Closers, Counting, Loaded
<1>1. CASE e = "sessionStart"
  <2>1. Stages[e] = {<<"session", "write", "git">>, <<"write", "git">>, <<"git">>} /\ Dispatch[e] = <<"session", "write", "git">>
    BY <1>1 DEF Stages, Dispatch, sessionStart
  <2>2. CASE todo = <<"session", "write", "git">> BY <1>1, <2>1, <2>2
  <2>3. CASE todo = <<"write", "git">> BY <1>1, <2>1, <2>3
  <2>4. CASE todo = <<"git">> BY <1>1, <2>1, <2>4
  <2> QED BY <2>1, <2>2, <2>3, <2>4
<1>2. CASE e = "beforeSubmitPrompt"
  <2>1. Stages[e] = {<<"read", "turn", "write">>, <<"turn", "write">>, <<"write">>} /\ Dispatch[e] = <<"read", "turn", "write">>
    BY <1>2 DEF Stages, Dispatch, beforeSubmitPrompt
  <2>2. CASE todo = <<"read", "turn", "write">> BY <1>2, <2>1, <2>2
  <2>3. CASE todo = <<"turn", "write">> BY <1>2, <2>1, <2>3
  <2>4. CASE todo = <<"write">> BY <1>2, <2>1, <2>4
  <2> QED BY <2>1, <2>2, <2>3, <2>4
<1>3. CASE e = "afterAgentResponse"
  <2>1. Stages[e] = {<<"read", "placeholder", "write">>, <<"placeholder", "write">>, <<"write">>}
        /\ Dispatch[e] = <<"read", "placeholder", "write">>
    BY <1>3 DEF Stages, Dispatch, afterAgentResponse
  <2>2. CASE todo = <<"read", "placeholder", "write">> BY <1>3, <2>1, <2>2
  <2>3. CASE todo = <<"placeholder", "write">> BY <1>3, <2>1, <2>3
  <2>4. CASE todo = <<"write">> BY <1>3, <2>1, <2>4
  <2> QED BY <2>1, <2>2, <2>3, <2>4
<1>4. CASE e = "preToolUse"
  <2>1. Stages[e] = {<<"read", "write">>, <<"write">>} /\ Dispatch[e] = <<"read", "write">>
    BY <1>4 DEF Stages, Dispatch, preToolUse
  <2>2. CASE todo = <<"read", "write">> BY <1>4, <2>1, <2>2
  <2>3. CASE todo = <<"write">> BY <1>4, <2>1, <2>3
  <2> QED BY <2>1, <2>2, <2>3
<1>5. CASE e \in {"postToolUse", "postToolUseFailure"}
  <2>1. Stages[e] = {<<"read", "tool", "write">>, <<"tool", "write">>, <<"write">>} /\ Dispatch[e] = <<"read", "tool", "write">>
    BY <1>5 DEF Stages, Dispatch, postToolUse, postToolUseFailure
  <2>2. CASE todo = <<"read", "tool", "write">> BY <1>5, <2>1, <2>2
  <2>3. CASE todo = <<"tool", "write">> BY <1>5, <2>1, <2>3
  <2>4. CASE todo = <<"write">> BY <1>5, <2>1, <2>4
  <2> QED BY <2>1, <2>2, <2>3, <2>4
<1>6. CASE e = "stop"
  <2>1. Stages[e] = {<<"read", "scan", "close", "write">>, <<"scan", "close", "write">>, <<"close", "write">>, <<"write">>}
        /\ Dispatch[e] = <<"read", "scan", "close", "write">>
    BY <1>6 DEF Stages, Dispatch, stop
  <2>2. CASE todo = <<"read", "scan", "close", "write">> BY <1>6, <2>1, <2>2
  <2>3. CASE todo = <<"scan", "close", "write">> BY <1>6, <2>1, <2>3
  <2>4. CASE todo = <<"close", "write">> BY <1>6, <2>1, <2>4
  <2>5. CASE todo = <<"write">> BY <1>6, <2>1, <2>5
  <2> QED BY <2>1, <2>2, <2>3, <2>4, <2>5
<1>7. CASE e = "subagentStop"
  <2>1. Stages[e] = {<<"read", "scan">>, <<"scan">>, <<>>} /\ Dispatch[e] = <<"read", "scan">>
    BY <1>7 DEF Stages, Dispatch, subagentStop
  <2>2. CASE todo = <<"read", "scan">> BY <1>7, <2>1, <2>2
  <2>3. CASE todo = <<"scan">> BY <1>7, <2>1, <2>3
  <2>4. CASE todo = <<>> BY <1>7, <2>1, <2>4
  <2> QED BY <2>1, <2>2, <2>3, <2>4
<1>8. CASE e = "sessionEnd"
  <2>1. Stages[e] = {<<"read", "scan", "end", "delete">>, <<"scan", "end", "delete">>, <<"end", "delete">>, <<"delete">>}
        /\ Dispatch[e] = <<"read", "scan", "end", "delete">>
    BY <1>8 DEF Stages, Dispatch, sessionEnd
  <2>2. CASE todo = <<"read", "scan", "end", "delete">> BY <1>8, <2>1, <2>2
  <2>3. CASE todo = <<"scan", "end", "delete">> BY <1>8, <2>1, <2>3
  <2>4. CASE todo = <<"end", "delete">> BY <1>8, <2>1, <2>4
  <2>5. CASE todo = <<"delete">> BY <1>8, <2>1, <2>5
  <2> QED BY <2>1, <2>2, <2>3, <2>4, <2>5
<1> QED BY <1>1, <1>2, <1>3, <1>4, <1>5, <1>6, <1>7, <1>8 DEF Stages

-----------------------------------------------------------------------------
(* The inductive invariant, its part about types                           *)

HookFields == {"event", "todo", "state", "tool", "generation", "records"}
Mishaps == {"replayed", "uncounted", "parallel", "interrupted", "cutShort", "unreadable",
            "abandoned", "overlapped"}

TurnRows == [of : SUBSET Nat, ended : BOOLEAN]
MessageRows == [turn : TurnIds \cup {Null}, tokens : Nat \cup {Null}, of : SUBSET Nat]
CallRows == [of : SUBSET Tools, begun : Tools \cup {Null}]

At(p) == Point(hooks[p].todo)
Began(p) == At(p) \notin {"read", "session"}

\* A hook is at a stage of its handler, with a state and records of messages.
Hook(p) ==
  /\ DOMAIN hooks[p] = HookFields
  /\ hooks[p].event \in DOMAIN Stages
  /\ hooks[p].todo \in Stages[hooks[p].event]
  /\ hooks[p].state \in SessionStates
  /\ hooks[p].generation = prompts
  /\ IF hooks[p].event \in {"preToolUse"} \cup Ends THEN hooks[p].tool \in Tools
                                                    ELSE hooks[p].tool = Null
  /\ \A m \in DOMAIN hooks[p].records :
       /\ m \in DOMAIN written
       /\ hooks[p].records[m] \in [id : MessageIds, tokens : Nat]
       /\ hooks[p].records[m].tokens = m
  /\ DOMAIN hooks[p].records # {} => At(p) \in Loaded

Rows ==
  /\ \A id \in DOMAIN turns : turns[id] \in TurnRows
  /\ \A id \in DOMAIN messages : messages[id] \in MessageRows
  /\ \A id \in DOMAIN calls : calls[id] \in CallRows

Shape ==
  /\ kind \in Kinds
  /\ DOMAIN hooks = Procs
  /\ \A p \in Procs : Busy(p) => Hook(p)
  /\ file \in SessionStates \cup {Null}
  /\ written \in Seq(Nat \cup {Null})
  /\ prompts \in Nat /\ starts \in Nat
  /\ upset \subseteq Mishaps
  /\ Rows

\* The state file and what running hooks have read of it.
Copies == ({file} \ {Null}) \cup {hooks[p].state : p \in {q \in Procs : Busy(q)}}

\* The session's row comes before the rows and the state that refer to it.
Recorded ==
  /\ session = {} => turns = <<>> /\ messages = <<>> /\ calls = <<>>
  /\ file # Null => session # {}
  /\ \A p \in Procs : Busy(p) /\ Began(p) => session # {}

\* Turns and messages that are referred to exist.
Linked ==
  /\ \A id \in DOMAIN messages :
       /\ messages[id].turn \in DOMAIN turns \cup {Null}
       /\ messages[id].tokens \in DOMAIN written \cup {Null}
  /\ \A s \in Copies : s.turn \in DOMAIN turns \cup {Null}

\* A tool is issued for a prompt that was submitted before.
Prompting == Running("beforeSubmitPrompt")
Issued ==
  \A t \in DOMAIN issued :
    /\ t \in Tools /\ issued[t] \in 0 .. prompts
    /\ Prompting => issued[t] < prompts

\* The tools in a state have different ids.
Distinct(s) == \A a, b \in s.active : a.id = b.id => a = b

TypeInv ==
  Shape /\ Recorded /\ Linked /\ Issued /\ \A s \in Copies : Distinct(s)

-----------------------------------------------------------------------------
(* What a step does to the hooks                                           *)

LEMMA IdleIsNoHook == \A h : DOMAIN h = HookFields => h # Idle
BY DEF Idle, HookFields

\* The hook of p goes on to its next step, with state s and records r.
Moved(p, s, r) ==
  /\ DOMAIN hooks' = Procs
  /\ \A q \in Procs : q # p => hooks'[q] = hooks[q]
  /\ Busy(p)' \/ hooks'[p] = Idle
  /\ Busy(p)' =>
       /\ DOMAIN hooks'[p] = HookFields
       /\ hooks'[p].event = hooks[p].event /\ hooks'[p].tool = hooks[p].tool
       /\ hooks'[p].generation = hooks[p].generation
       /\ hooks'[p].state = s /\ hooks'[p].records = r
       /\ hooks'[p].todo \in Stages[hooks[p].event]
       /\ Goes(hooks[p].event, At(p), At(p)')
       /\ At(p)' = "done" => DOMAIN r # {}
  /\ ~Busy(p)' => Goes(hooks[p].event, At(p), "done") /\ DOMAIN r = {}

LEMMA Moves ==
  ASSUME Shape, NEW p \in Procs, Busy(p), hooks[p].todo # <<>>, NEW s, NEW r,
         DOMAIN r # {} => At(p) = "scan",
         hooks' = [hooks EXCEPT ![p] =
           IF Tail(hooks[p].todo) = <<>> /\ DOMAIN r = {} THEN Idle
           ELSE [hooks[p] EXCEPT !.todo = Tail(@), !.state = s, !.records = r]]
  PROVE  Moved(p, s, r)
<1> DEFINE h == [hooks[p] EXCEPT !.todo = Tail(@), !.state = s, !.records = r]
<1>1. /\ DOMAIN hooks = Procs /\ DOMAIN hooks[p] = HookFields
      /\ hooks[p].event \in DOMAIN Stages /\ hooks[p].todo \in Stages[hooks[p].event]
  BY DEF Shape, Hook
<1>2. /\ DOMAIN h = HookFields
      /\ h.event = hooks[p].event /\ h.tool = hooks[p].tool /\ h.generation = hooks[p].generation
      /\ h.todo = Tail(hooks[p].todo) /\ h.state = s /\ h.records = r
  BY <1>1 DEF HookFields
<1>3. /\ DOMAIN hooks' = Procs
      /\ \A q \in Procs : q # p => hooks'[q] = hooks[q]
      /\ hooks'[p] = IF Tail(hooks[p].todo) = <<>> /\ DOMAIN r = {} THEN Idle ELSE h
  BY <1>1
<1>4. h # Idle
  BY <1>2, IdleIsNoHook
<1>5. /\ Tail(hooks[p].todo) \in Stages[hooks[p].event] \cup {<<>>}
      /\ Tail(hooks[p].todo) = <<>> <=> Point(Tail(hooks[p].todo)) = "done"
      /\ Goes(hooks[p].event, Point(hooks[p].todo), Point(Tail(hooks[p].todo)))
  BY <1>1, Handlers
<1> HIDE DEF h
<1>6. CASE Tail(hooks[p].todo) = <<>> /\ DOMAIN r = {}
  BY <1>3, <1>5, <1>6 DEF Moved, Busy, At
<1>7. CASE ~(Tail(hooks[p].todo) = <<>> /\ DOMAIN r = {})
  <2>1. hooks'[p] = h /\ Busy(p)'
    BY <1>3, <1>4, <1>7 DEF Busy
  <2>2. Tail(hooks[p].todo) \in Stages[hooks[p].event]
    <3>1. CASE Tail(hooks[p].todo) = <<>>
      <4>1. hooks[p].event = "subagentStop"
        BY <1>5, <1>7, <3>1 DEF Goes, At
      <4> QED BY <3>1, <4>1 DEF Stages
    <3> QED BY <1>5, <3>1
  <2> QED BY <1>2, <1>3, <1>5, <1>7, <2>1, <2>2 DEF Moved, At
<1> QED BY <1>6, <1>7

\* Records of messages that have been written.
Records(r) ==
  \A m \in DOMAIN r :
    /\ m \in DOMAIN written
    /\ r[m] \in [id : MessageIds, tokens : Nat]
    /\ r[m].tokens = m

\* What runs keeps its shape, and no copy of the state is new but the one.
LEMMA HooksMove ==
  ASSUME Shape, NEW p \in Procs, Busy(p), NEW s \in SessionStates, NEW r, Moved(p, s, r),
         Records(r), DOMAIN r # {} => At(p) = "scan", UNCHANGED <<written, prompts>>
  PROVE  /\ \A q \in Procs : Busy(q)' => Hook(q)'
         /\ \A q \in Procs : Busy(q)' => Busy(q) /\ hooks'[q].event = hooks[q].event
         /\ Copies' \subseteq ({file'} \ {Null}) \cup (Copies \cup {s})
<1>1. \A q \in Procs : q # p => (Busy(q)' <=> Busy(q))
  BY DEF Moved, Busy
<1>2. ASSUME NEW q \in Procs, q # p, Busy(q)' PROVE Hook(q)'
  <2>1. Hook(q) /\ hooks'[q] = hooks[q]
    BY <1>1, <1>2 DEF Shape, Moved
  <2> QED BY <2>1 DEF Hook, At
<1>3. ASSUME Busy(p)' PROVE Hook(p)'
  <2>1. Hook(p) BY DEF Shape
  <2>2. DOMAIN r # {} => At(p)' \in Loaded
    BY <1>3 DEF Moved, Goes, Loaded
  <2> QED BY <1>3, <2>1, <2>2 DEF Hook, Moved, Records
<1>4. ASSUME NEW x \in Copies' PROVE x \in ({file'} \ {Null}) \cup (Copies \cup {s})
  <2>1. CASE x \in {file'} \ {Null} BY <2>1
  <2>2. ASSUME NEW q \in Procs, Busy(q)', x = hooks'[q].state PROVE x \in Copies \cup {s}
    BY <1>1, <2>2 DEF Moved, Copies
  <2> QED BY <1>4, <2>1, <2>2 DEF Copies
<1> QED BY <1>1, <1>2, <1>3, <1>4 DEF Moved

\* A step of a handler without records.
LEMMA Advances ==
  ASSUME Shape, NEW p \in Procs, NEW step, Doing(p, step), NEW s \in SessionStates,
         Advance(p, s), UNCHANGED <<written, prompts>>
  PROVE  /\ Busy(p) /\ At(p) = step /\ Hook(p) /\ DOMAIN hooks[p].records = {}
         /\ Moved(p, s, hooks[p].records)
         /\ \A q \in Procs : Busy(q)' => Hook(q)'
         /\ \A q \in Procs : Busy(q)' => Busy(q) /\ hooks'[q].event = hooks[q].event
         /\ Copies' \subseteq ({file'} \ {Null}) \cup (Copies \cup {s})
<1> DEFINE h == [hooks[p] EXCEPT !.todo = Tail(@), !.state = s]
           g == [hooks[p] EXCEPT !.todo = Tail(@), !.state = s, !.records = hooks[p].records]
<1>1. /\ Busy(p) /\ At(p) = step /\ DOMAIN hooks[p].records = {} /\ hooks[p].todo # <<>>
      /\ DOMAIN hooks[p] = HookFields /\ Hook(p)
  BY DEF Doing, At, Point, Shape, Hook
<1>2. h.todo = Tail(hooks[p].todo) /\ h.records = hooks[p].records /\ h = g
  BY <1>1 DEF HookFields
<1>3. hooks' = [hooks EXCEPT ![p] = IF h.todo = <<>> /\ DOMAIN h.records = {} THEN Idle ELSE h]
  BY DEF Advance, Proceed
<1>4. hooks' = [hooks EXCEPT ![p] = IF Tail(hooks[p].todo) = <<>> /\ DOMAIN hooks[p].records = {} THEN Idle ELSE g]
  BY <1>2, <1>3
<1>5. Moved(p, s, hooks[p].records)
  BY <1>1, <1>4, Moves
<1>6. Records(hooks[p].records)
  BY <1>1 DEF Records
<1> QED BY <1>1, <1>5, <1>6, HooksMove

\* A step that gathers records.
LEMMA Backfills ==
  ASSUME Shape, NEW p \in Procs, Doing(p, "scan"), NEW r, Backfill(p, r), Records(r),
         UNCHANGED <<written, prompts>>
  PROVE  /\ Busy(p) /\ At(p) = "scan" /\ Hook(p) /\ hooks[p].state \in Copies
         /\ Moved(p, hooks[p].state, r)
         /\ \A q \in Procs : Busy(q)' => Hook(q)'
         /\ \A q \in Procs : Busy(q)' => Busy(q) /\ hooks'[q].event = hooks[q].event
         /\ Copies' \subseteq ({file'} \ {Null}) \cup Copies
<1> DEFINE h == [hooks[p] EXCEPT !.todo = Tail(@), !.records = r]
           g == [hooks[p] EXCEPT !.todo = Tail(@), !.state = hooks[p].state, !.records = r]
<1>1. /\ Busy(p) /\ At(p) = "scan" /\ hooks[p].todo # <<>>
      /\ DOMAIN hooks[p] = HookFields /\ Hook(p) /\ hooks[p].state \in Copies
      /\ hooks[p].state \in SessionStates
  BY DEF Doing, At, Point, Shape, Hook, Copies
<1>2. h.todo = Tail(hooks[p].todo) /\ h.records = r /\ h = g
  BY <1>1 DEF HookFields
<1>3. hooks' = [hooks EXCEPT ![p] = IF h.todo = <<>> /\ DOMAIN h.records = {} THEN Idle ELSE h]
  BY DEF Backfill, Proceed
<1>4. hooks' = [hooks EXCEPT ![p] = IF Tail(hooks[p].todo) = <<>> /\ DOMAIN r = {} THEN Idle ELSE g]
  BY <1>2, <1>3
<1>5. Moved(p, hooks[p].state, r)
  BY <1>1, <1>4, Moves
<1> QED BY <1>1, <1>5, HooksMove

\* A step that writes a record: the first one, of message m.
LEMMA Writes ==
  ASSUME Shape, NEW p \in Procs, RecordLlmMessage(p)
  PROVE  /\ Busy(p) /\ Hook(p) /\ At(p) \in Loaded /\ hooks[p].event \in Closers
         /\ \A q \in Procs : Busy(q)' => Hook(q)'
         /\ \A q \in Procs : Busy(q)' => Busy(q) /\ hooks'[q].event = hooks[q].event
         /\ DOMAIN hooks' = Procs /\ \A q \in Procs : q # p => hooks'[q] = hooks[q]
         /\ Copies' \subseteq Copies
         /\ \E m \in DOMAIN hooks[p].records :
              /\ LET r == hooks[p].records[m] IN
                   messages' = Set(messages, r.id, [Message(r.id) EXCEPT !.tokens = r.tokens])
              /\ Busy(p)' =>
                   /\ hooks'[p].state = hooks[p].state /\ hooks'[p].todo = hooks[p].todo
                   /\ hooks'[p].tool = hooks[p].tool
                   /\ hooks'[p].records = Only(hooks[p].records, DOMAIN hooks[p].records \ {m})
              /\ ~Busy(p)' => At(p) = "done"
<1> USE DEF RecordLlmMessage
<1>1. /\ Busy(p) /\ DOMAIN hooks = Procs /\ Hook(p) /\ UNCHANGED <<file, written, prompts>>
      /\ DOMAIN hooks[p] = HookFields
  BY DEF Shape, Hook, cursor
<1>2. PICK m \in DOMAIN hooks[p].records :
        /\ LET r == hooks[p].records[m] IN
             messages' = Set(messages, r.id, [Message(r.id) EXCEPT !.tokens = r.tokens])
        /\ Proceed(p, [hooks[p] EXCEPT !.records = Only(hooks[p].records, DOMAIN hooks[p].records \ {m})])
  OBVIOUS
<1> DEFINE r == Only(hooks[p].records, DOMAIN hooks[p].records \ {m})
           h == [hooks[p] EXCEPT !.records = r]
<1>3. /\ DOMAIN h = HookFields /\ h.event = hooks[p].event /\ h.tool = hooks[p].tool
      /\ h.generation = hooks[p].generation /\ h.todo = hooks[p].todo /\ h.state = hooks[p].state
      /\ h.records = r
  BY <1>1 DEF HookFields
<1>4. DOMAIN r = DOMAIN hooks[p].records \ {m} /\ \A l \in DOMAIN r : r[l] = hooks[p].records[l]
  BY DEF Only
<1>5. At(p) \in Loaded /\ hooks[p].event \in Closers
  BY <1>1, <1>2, Handlers DEF Hook, At
<1>6. /\ DOMAIN hooks' = Procs /\ \A q \in Procs : q # p => hooks'[q] = hooks[q]
      /\ hooks'[p] = IF hooks[p].todo = <<>> /\ DOMAIN r = {} THEN Idle ELSE h
  BY <1>1, <1>2, <1>3 DEF Proceed
<1>7. h # Idle BY <1>3, IdleIsNoHook
<1>8. At(p) = "done" <=> hooks[p].todo = <<>>
  BY <1>1, Handlers DEF Hook, At
<1> HIDE DEF h, r
<1>9. \A q \in Procs : Busy(q)' => Busy(q) /\ hooks'[q].event = hooks[q].event
  BY <1>1, <1>3, <1>6 DEF Busy
<1>10. ASSUME NEW q \in Procs, Busy(q)' PROVE Hook(q)'
  <2>1. CASE q # p
    <3>1. Hook(q) /\ hooks'[q] = hooks[q] BY <1>6, <1>9, <1>10, <2>1 DEF Shape
    <3> QED BY <1>1, <3>1 DEF Hook, At
  <2>2. CASE q = p
    <3>1. hooks'[p] = h BY <1>6, <1>10, <2>2 DEF Busy
    <3> QED BY <1>1, <1>3, <1>4, <1>5, <2>2, <3>1 DEF Hook, At
  <2> QED BY <2>1, <2>2
<1>11. Copies' \subseteq Copies
  BY <1>1, <1>3, <1>6, <1>9 DEF Copies, Busy
<1>12. Busy(p)' => hooks'[p] = h
  BY <1>6 DEF Busy
<1>13. ~Busy(p)' => At(p) = "done"
  BY <1>6, <1>7, <1>8 DEF Busy
<1>14. Busy(p)' => /\ hooks'[p].state = hooks[p].state /\ hooks'[p].todo = hooks[p].todo
                   /\ hooks'[p].tool = hooks[p].tool
                   /\ hooks'[p].records = Only(hooks[p].records, DOMAIN hooks[p].records \ {m})
  BY <1>3, <1>12 DEF r
<1> QED BY <1>1, <1>2, <1>5, <1>6, <1>9, <1>10, <1>11, <1>13, <1>14

LEMMA FreshState == Fresh \in SessionStates /\ Fresh.turn = Null /\ Fresh.active = {} /\ DOMAIN Fresh.pending = {}
<1>1. <<>> \in Seq(MessageIds) /\ DOMAIN <<>> = {}
  OBVIOUS
<1> QED BY <1>1 DEF Fresh, SessionStates

\* A hook that starts.
LEMMA Starts ==
  ASSUME Shape, NEW p \in Procs, NEW e \in DOMAIN Dispatch, NEW t, Run(p, e, t),
         prompts' \in Nat, Quiet \/ prompts' = prompts,
         IF e \in {"preToolUse"} \cup Ends THEN t \in Tools ELSE t = Null,
         DOMAIN written \subseteq DOMAIN written'
  PROVE  /\ ~Busy(p) /\ Busy(p)' /\ ~Began(p)'
         /\ hooks'[p].event = e /\ hooks'[p].tool = t /\ hooks'[p].state = Fresh
         /\ DOMAIN hooks'[p].records = {}
         /\ DOMAIN hooks' = Procs /\ \A q \in Procs : q # p => hooks'[q] = hooks[q]
         /\ \A q \in Procs : Busy(q)' => Hook(q)'
         /\ Copies' \subseteq ({file'} \ {Null}) \cup (Copies \cup {Fresh})
<1> DEFINE h == [event |-> e, todo |-> Dispatch[e], state |-> Fresh, tool |-> t,
                 generation |-> prompts', records |-> <<>>]
<1>1. DOMAIN hooks = Procs /\ ~Busy(p) /\ hooks' = [hooks EXCEPT ![p] = h]
  BY DEF Shape, Run
<1>2. /\ DOMAIN h = HookFields /\ h.event = e /\ h.todo = Dispatch[e] /\ h.state = Fresh /\ h.tool = t
      /\ h.generation = prompts' /\ DOMAIN h.records = {}
  BY DEF HookFields
<1>3. h # Idle BY <1>2, IdleIsNoHook
<1>4. /\ DOMAIN hooks' = Procs /\ hooks'[p] = h
      /\ \A q \in Procs : q # p => hooks'[q] = hooks[q]
  BY <1>1
<1>5. e \in DOMAIN Stages /\ Dispatch[e] \in Stages[e]
  BY DEF Dispatch, Stages, sessionStart, beforeSubmitPrompt, afterAgentResponse, preToolUse,
         postToolUse, postToolUseFailure, stop, subagentStop, sessionEnd
<1>6. Point(Dispatch[e]) \in {"read", "session"}
  BY <1>5, Handlers
<1> HIDE DEF h
<1>7. ASSUME NEW q \in Procs, Busy(q)' PROVE Hook(q)'
  <2>1. CASE q # p
    <3>1. Hook(q) /\ hooks'[q] = hooks[q] /\ prompts' = prompts
      BY <1>4, <1>7, <2>1 DEF Shape, Busy, Quiet
    <3> QED BY <3>1 DEF Hook, At
  <2>2. CASE q = p
    BY <1>2, <1>4, <1>5, <2>2, FreshState DEF Hook
  <2> QED BY <2>1, <2>2
<1>8. Copies' \subseteq ({file'} \ {Null}) \cup (Copies \cup {Fresh})
  BY <1>2, <1>4 DEF Copies, Busy
<1> QED BY <1>1, <1>2, <1>3, <1>4, <1>6, <1>7, <1>8 DEF Busy, Began, At

-----------------------------------------------------------------------------
(* Types                                                                   *)

\* A step of a hook keeps them if it knows the session and its new state s does.
LEMMA StepKeepsTypes ==
  ASSUME TypeInv, NEW p \in Procs, NEW s \in SessionStates,
         DOMAIN hooks' = Procs, \A q \in Procs : Busy(q)' => Hook(q)',
         \A q \in Procs : Busy(q)' => Busy(q) /\ hooks'[q].event = hooks[q].event,
         Copies' \subseteq ({file'} \ {Null}) \cup (Copies \cup {s}), file' \in Copies \cup {s, Null},
         UNCHANGED cursor, upset' \subseteq Mishaps, Rows', session' # {},
         DOMAIN turns \subseteq DOMAIN turns', s.turn \in DOMAIN turns' \cup {Null}, Distinct(s),
         \A id \in DOMAIN messages' :
           /\ messages'[id].turn \in DOMAIN turns' \cup {Null}
           /\ messages'[id].tokens \in DOMAIN written \cup {Null}
  PROVE  TypeInv'
<1> USE DEF TypeInv
<1>1. /\ kind \in Kinds /\ written \in Seq(Nat \cup {Null}) /\ prompts \in Nat /\ starts \in Nat
      /\ UNCHANGED <<kind, phase, prompts, written, blank, issued, starts>>
  BY DEF Shape, cursor
<1>2. \A x \in Copies : x \in SessionStates
  BY DEF Copies, Shape, Hook
<1>3. file' \in SessionStates \cup {Null}
  BY <1>2
<1>4. Shape'
  BY <1>1, <1>3 DEF Shape
<1>5. Recorded'
  BY DEF Recorded
<1>6. Linked'
  BY <1>1 DEF Linked
<1>7. Prompting' => Prompting
  BY DEF Prompting, Running
<1>8. Issued'
  BY <1>1, <1>7 DEF Issued
<1>9. \A x \in Copies' : x \in Copies \cup {s}
  BY NullAssumption
<1> QED BY <1>4, <1>5, <1>6, <1>8, <1>9 DEF Distinct

LEMMA AdvanceKeepsTypes ==
  ASSUME TypeInv, NEW p \in Procs, NEW step, Doing(p, step), NEW s \in SessionStates,
         Advance(p, s), file' \in Copies \cup {s, Null},
         UNCHANGED cursor, upset' \subseteq Mishaps, Rows', session' # {},
         DOMAIN turns \subseteq DOMAIN turns', s.turn \in DOMAIN turns' \cup {Null}, Distinct(s),
         \A id \in DOMAIN messages' :
           /\ messages'[id].turn \in DOMAIN turns' \cup {Null}
           /\ messages'[id].tokens \in DOMAIN written \cup {Null}
  PROVE  TypeInv'
<1>1. UNCHANGED <<written, prompts>> /\ Shape
  BY DEF cursor, TypeInv
<1>2. /\ DOMAIN hooks' = Procs
      /\ \A q \in Procs : Busy(q)' => Hook(q)'
      /\ \A q \in Procs : Busy(q)' => Busy(q) /\ hooks'[q].event = hooks[q].event
      /\ Copies' \subseteq ({file'} \ {Null}) \cup (Copies \cup {s})
  BY <1>1, Advances DEF Moved
<1> QED BY <1>2, StepKeepsTypes

\* So does a hook that stops.
LEMMA StopKeepsTypes ==
  ASSUME TypeInv, NEW p \in Procs, hooks' = [hooks EXCEPT ![p] = Idle],
         UNCHANGED <<file, store, cursor>>, upset' \subseteq Mishaps
  PROVE  TypeInv'
<1> USE DEF TypeInv
<1>1. UNCHANGED <<file, session, turns, messages, calls, kind, phase, prompts, written, blank, issued, starts>>
  BY DEF store, cursor
<1>2. DOMAIN hooks' = Procs /\ \A q \in Procs : Busy(q)' => Busy(q) /\ hooks'[q] = hooks[q]
  BY DEF Shape, Busy
<1>3. Shape'
  BY <1>1, <1>2 DEF Shape, Hook, At, Rows
<1>4. Recorded'
  BY <1>1, <1>2 DEF Recorded, Began, At
<1>5. Copies' \subseteq Copies
  BY <1>1, <1>2 DEF Copies
<1>6. Linked'
  BY <1>1, <1>5 DEF Linked
<1>7. Issued'
  <2>1. Prompting' => Prompting
    BY <1>2 DEF Prompting, Running
  <2> QED BY <1>1, <2>1 DEF Issued
<1> QED BY <1>3, <1>4, <1>5, <1>6, <1>7 DEF Distinct

\* What a running hook knows.
LEMMA HookFacts ==
  ASSUME TypeInv, NEW p \in Procs, Busy(p)
  PROVE  /\ Hook(p) /\ hooks[p].state \in SessionStates /\ hooks[p].state \in Copies
         /\ hooks[p].state.turn \in DOMAIN turns \cup {Null} /\ Distinct(hooks[p].state)
         /\ hooks[p].generation = prompts /\ prompts \in Nat
         /\ Began(p) => session # {}
         /\ Rows
BY DEF TypeInv, Shape, Hook, Copies, Linked, Recorded

LEMMA FileFacts ==
  ASSUME TypeInv, file # Null
  PROVE  /\ file \in SessionStates /\ file \in Copies /\ session # {}
         /\ file.turn \in DOMAIN turns \cup {Null} /\ Distinct(file)
BY DEF TypeInv, Shape, Copies, Linked, Recorded

\* Started tool calls have their ids.
LEMMA BufferFacts ==
  ASSUME NEW p, NEW s \in SessionStates, hooks[p].tool \in Tools, Distinct(s)
  PROVE  LET b == Buffered(p, s)
             id == HarnessToolCallId(hooks[p].tool, s.toolIndex) IN
         /\ b \in SessionStates /\ Distinct(b)
         /\ b.turn = s.turn /\ b.turnIndex = s.turnIndex /\ b.messageIndex = s.messageIndex
         /\ b.pending = s.pending /\ b.toolIndex = s.toolIndex + 1
         /\ b.active = {a \in s.active : a.id # id} \cup {[id |-> id, tool |-> hooks[p].tool]}
         /\ id \in CallIds
<1> DEFINE id == HarnessToolCallId(hooks[p].tool, s.toolIndex)
           new == [id |-> id, tool |-> hooks[p].tool]
<1>1. /\ s.toolIndex \in Nat /\ s.active \in SUBSET [id : CallIds, tool : Tools]
  BY DEF SessionStates
<1>2. id \in CallIds
  BY <1>1 DEF HarnessToolCallId, CallIds
<1>3. new \in [id : CallIds, tool : Tools] /\ new.id = id
  BY <1>2
<1> HIDE DEF id, new
<1> DEFINE active == {a \in s.active : a.id # id} \cup {new}
           b == [s EXCEPT !.active = active, !.toolIndex = @ + 1]
<1>4. active \in SUBSET [id : CallIds, tool : Tools] /\ s.toolIndex + 1 \in Nat
  BY <1>1, <1>3
<1>5. \A x, y \in active : x.id = y.id => x = y
  BY <1>3 DEF Distinct
<1>6. /\ b \in SessionStates /\ b.active = active /\ b.toolIndex = s.toolIndex + 1
      /\ b.turn = s.turn /\ b.turnIndex = s.turnIndex /\ b.messageIndex = s.messageIndex
      /\ b.pending = s.pending
  BY <1>4 DEF SessionStates
<1>7. Distinct(b)
  BY <1>5, <1>6 DEF Distinct
<1>8. Buffered(p, s) = b
  BY DEF Buffered, id, new
<1> QED BY <1>2, <1>6, <1>7, <1>8 DEF id, new

LEMMA ReadTypes ==
  ASSUME TypeInv, NEW p \in Procs, ReadState(p)
  PROVE  TypeInv'
<1>1. /\ Doing(p, "read") /\ UNCHANGED <<turns, messages, calls, cursor, trouble>>
      /\ Busy(p) /\ UNCHANGED <<written, prompts, upset>>
  BY DEF ReadState, Doing, cursor, trouble
<1>2. DOMAIN hooks = Procs /\ Shape /\ Hook(p)
  BY <1>1, HookFacts DEF TypeInv, Shape
<1>3. Rows' /\ upset' \subseteq Mishaps /\ Linked
  BY <1>1, <1>2 DEF Rows, TypeInv, Shape
<1>4. \A id \in DOMAIN messages' :
           /\ messages'[id].turn \in DOMAIN turns' \cup {Null}
           /\ messages'[id].tokens \in DOMAIN written \cup {Null}
  BY <1>1, <1>3 DEF Linked
<1>5. CASE Missing(p)
  <2>1. CASE hooks[p].event = "beforeSubmitPrompt"
    <3>1. session' # {} /\ Advance(p, Fresh) /\ UNCHANGED file /\ file = Null
      BY <1>5, <2>1 DEF Missing
    <3> QED BY <1>1, <1>2, <1>3, <1>4, <3>1, FreshState, AdvanceKeepsTypes DEF Distinct
  <2>2. CASE hooks[p].event = "sessionEnd"
    <3>1. session' # {} /\ Advance(p, Fresh) /\ file' = Fresh
      BY <1>5, <2>2 DEF Missing
    <3> QED BY <1>1, <1>2, <1>3, <1>4, <3>1, FreshState, AdvanceKeepsTypes DEF Distinct
  <2>3. CASE hooks[p].event \notin {"beforeSubmitPrompt", "sessionEnd"}
    <3>1. hooks' = [hooks EXCEPT ![p] = Idle] /\ UNCHANGED <<session, file>>
      BY <1>5, <2>3 DEF Missing
    <3> QED BY <1>1, <1>3, <3>1, StopKeepsTypes DEF store
  <2> QED BY <2>1, <2>2, <2>3
<1>6. CASE file # Null /\ UNCHANGED <<session, file>> /\
           Advance(p, IF hooks[p].event = "preToolUse" THEN Buffered(p, file) ELSE file)
  <2>1. /\ file \in SessionStates /\ file \in Copies /\ session # {}
        /\ file.turn \in DOMAIN turns \cup {Null} /\ Distinct(file)
    BY <1>6, FileFacts
  <2>2. CASE hooks[p].event = "preToolUse"
    <3>1. hooks[p].tool \in Tools
      BY <1>2, <2>2 DEF Hook
    <3> DEFINE b == Buffered(p, file)
    <3>2. b \in SessionStates /\ Distinct(b) /\ b.turn = file.turn
      BY <2>1, <3>1, BufferFacts
    <3>3. Advance(p, b)
      BY <1>6, <2>2
    <3> HIDE DEF b
    <3> QED BY <1>1, <1>2, <1>3, <1>4, <1>6, <2>1, <3>2, <3>3, AdvanceKeepsTypes
  <2>3. CASE hooks[p].event # "preToolUse"
    <3>1. Advance(p, file) BY <1>6, <2>3
    <3> QED BY <1>1, <1>2, <1>3, <1>4, <1>6, <2>1, <3>1, AdvanceKeepsTypes
  <2> QED BY <2>2, <2>3
<1> QED BY <1>5, <1>6 DEF ReadState

LEMMA SessionTypes ==
  ASSUME TypeInv, NEW p \in Procs, RecordSession(p)
  PROVE  TypeInv'
<1>1. /\ Doing(p, "session") /\ session' # {} /\ Advance(p, Fresh)
      /\ UNCHANGED <<file, turns, messages, calls, cursor, upset>>
  BY DEF RecordSession, trouble
<1>2. Rows' /\ upset' \subseteq Mishaps /\ Linked /\ file' \in Copies \cup {Null}
  BY <1>1 DEF Rows, TypeInv, Shape, Copies
<1>3. \A id \in DOMAIN messages' :
           /\ messages'[id].turn \in DOMAIN turns' \cup {Null}
           /\ messages'[id].tokens \in DOMAIN written \cup {Null}
  BY <1>1, <1>2 DEF Linked
<1> QED BY <1>1, <1>2, <1>3, FreshState, AdvanceKeepsTypes DEF Distinct

\* The state that a hook at work has, and the session it knows.
LEMMA AtWork ==
  ASSUME TypeInv, NEW p \in Procs, NEW step, step \notin {"read", "session"}, Doing(p, step)
  PROVE  /\ Busy(p) /\ At(p) = step /\ Began(p) /\ session # {} /\ Hook(p)
         /\ hooks[p].state \in SessionStates /\ Distinct(hooks[p].state)
         /\ hooks[p].state \in Copies
         /\ hooks[p].state.turn \in DOMAIN turns \cup {Null}
         /\ hooks[p].generation = prompts /\ prompts \in Nat /\ Rows /\ Linked /\ upset \subseteq Mishaps
         /\ file \in Copies \cup {Null}
<1>1. Busy(p) /\ At(p) = step
  BY DEF Doing, At, Point
<1>2. Linked /\ upset \subseteq Mishaps /\ file \in Copies \cup {Null}
  BY DEF TypeInv, Shape, Copies
<1> QED BY <1>1, <1>2, HookFacts DEF Began

LEMMA TurnTypes ==
  ASSUME TypeInv, NEW p \in Procs, RecordTurn(p)
  PROVE  TypeInv'
<1> DEFINE i == hooks[p].state.turnIndex + 1
           id == HarnessTurnId(hooks[p].generation, i)
           s == [hooks[p].state EXCEPT !.turnIndex = i, !.turn = id]
<1>1. /\ Doing(p, "turn")
      /\ turns' = Set(turns, id, [Turn(id) EXCEPT !.of = @ \cup {hooks[p].generation}])
      /\ Advance(p, s)
      /\ UNCHANGED <<file, session, messages, calls, cursor, upset>>
  BY DEF RecordTurn, trouble
<1>2. /\ session # {} /\ hooks[p].state \in SessionStates /\ Distinct(hooks[p].state)
      /\ hooks[p].generation = prompts /\ prompts \in Nat /\ Rows /\ Linked /\ upset \subseteq Mishaps
      /\ file \in Copies \cup {Null}
  BY <1>1, AtWork
<1>3. i \in Nat /\ id \in TurnIds
  BY <1>2 DEF SessionStates, HarnessTurnId, TurnIds
<1> HIDE DEF i, id
<1>4. s \in SessionStates /\ s.turn = id /\ s.active = hooks[p].state.active
  BY <1>2, <1>3 DEF SessionStates
<1>5. [Turn(id) EXCEPT !.of = @ \cup {hooks[p].generation}] \in TurnRows
  BY <1>2 DEF Turn, Rows, TurnRows
<1>6. DOMAIN turns' = DOMAIN turns \cup {id} /\ \A x \in DOMAIN turns' : turns'[x] \in TurnRows
  BY <1>1, <1>2, <1>5 DEF Set, Rows
<1>7. Rows' /\ upset' \subseteq Mishaps
  BY <1>1, <1>2, <1>6 DEF Rows
<1>8. \A x \in DOMAIN messages' :
           /\ messages'[x].turn \in DOMAIN turns' \cup {Null}
           /\ messages'[x].tokens \in DOMAIN written \cup {Null}
  BY <1>1, <1>2, <1>6 DEF Linked
<1>9. Distinct(s)
  BY <1>2, <1>4 DEF Distinct
<1> HIDE DEF s
<1> QED BY <1>1, <1>2, <1>4, <1>6, <1>7, <1>8, <1>9, AdvanceKeepsTypes

\* Where the state goes when it gets a placeholder more.
LEMMA PendingFacts ==
  ASSUME NEW s \in SessionStates, NEW id \in MessageIds
  PROVE  LET t == [s EXCEPT !.messageIndex = @ + 1, !.pending = Append(@, id)] IN
         /\ t \in SessionStates /\ t.active = s.active /\ t.turn = s.turn
         /\ t.turnIndex = s.turnIndex /\ t.toolIndex = s.toolIndex
         /\ t.messageIndex = s.messageIndex + 1
         /\ \A k \in DOMAIN t.pending :
              t.pending[k] = id \/ (k \in DOMAIN s.pending /\ t.pending[k] = s.pending[k])
<1>1. s.messageIndex \in Nat /\ s.pending \in Seq(MessageIds)
  BY DEF SessionStates
<1>2. /\ Append(s.pending, id) \in Seq(MessageIds) /\ Len(s.pending) \in Nat
      /\ Len(Append(s.pending, id)) = Len(s.pending) + 1
      /\ \A k \in 1 .. Len(s.pending) : Append(s.pending, id)[k] = s.pending[k]
      /\ Append(s.pending, id)[Len(s.pending) + 1] = id
  BY <1>1, AppendProperties, LenProperties
<1>3. DOMAIN s.pending = 1 .. Len(s.pending) /\ DOMAIN Append(s.pending, id) = 1 .. Len(s.pending) + 1
  BY <1>1, <1>2, LenProperties
<1>4. \A k \in DOMAIN Append(s.pending, id) :
        \/ Append(s.pending, id)[k] = id
        \/ k \in DOMAIN s.pending /\ Append(s.pending, id)[k] = s.pending[k]
  BY <1>2, <1>3
<1> DEFINE q == Append(s.pending, id)
           t == [s EXCEPT !.messageIndex = @ + 1, !.pending = Append(@, id)]
<1>5. t = [s EXCEPT !.messageIndex = s.messageIndex + 1, !.pending = q]
  BY DEF SessionStates
<1>6. q \in Seq(MessageIds) /\ s.messageIndex + 1 \in Nat
  BY <1>1, <1>2
<1>7. \A k \in DOMAIN q : q[k] = id \/ (k \in DOMAIN s.pending /\ q[k] = s.pending[k])
  BY <1>4
<1> HIDE DEF q
<1>8. /\ t \in SessionStates /\ t.active = s.active /\ t.turn = s.turn
      /\ t.turnIndex = s.turnIndex /\ t.toolIndex = s.toolIndex
      /\ t.messageIndex = s.messageIndex + 1 /\ t.pending = q
  BY <1>5, <1>6 DEF SessionStates
<1> QED BY <1>7, <1>8

LEMMA MessageFacts ==
  ASSUME Rows, NEW id
  PROVE  Message(id) \in MessageRows
BY DEF Message, Rows, MessageRows

LEMMA PlaceholderTypes ==
  ASSUME TypeInv, NEW p \in Procs, RecordPlaceholder(p)
  PROVE  TypeInv'
<1> DEFINE state == hooks[p].state
           id == HarnessMessageId(hooks[p].generation, state.messageIndex)
           row == [turn |-> IF state.turn = Null THEN Message(id).turn ELSE state.turn,
                   tokens |-> Null, of |-> Message(id).of \cup {hooks[p].generation}]
           s == [state EXCEPT !.messageIndex = @ + 1, !.pending = Append(@, id)]
<1>1. /\ Doing(p, "placeholder") /\ messages' = Set(messages, id, row) /\ Advance(p, s)
      /\ UNCHANGED <<file, session, turns, calls, cursor, upset>>
  BY DEF RecordPlaceholder, trouble
<1>2. /\ session # {} /\ state \in SessionStates /\ Distinct(state)
      /\ state.turn \in DOMAIN turns \cup {Null}
      /\ hooks[p].generation = prompts /\ prompts \in Nat /\ Rows /\ Linked /\ upset \subseteq Mishaps
      /\ file \in Copies \cup {Null}
  BY <1>1, AtWork
<1>3. id \in MessageIds
  BY <1>2 DEF SessionStates, HarnessMessageId, MessageIds
<1> HIDE DEF id
<1>4. s \in SessionStates /\ s.turn = state.turn /\ s.active = state.active
  BY <1>2, <1>3, PendingFacts
<1>5. Distinct(s)
  BY <1>2, <1>4 DEF Distinct
<1>6. /\ Message(id) \in MessageRows
      /\ Message(id).turn \in DOMAIN turns \cup {Null}
  BY <1>2, MessageFacts DEF Message, Linked
<1>7. state.turn \in TurnIds \cup {Null}
  BY <1>2 DEF SessionStates
<1>8. /\ row \in MessageRows /\ row.turn \in DOMAIN turns \cup {Null} /\ row.tokens = Null
  BY <1>2, <1>6, <1>7 DEF MessageRows
<1> HIDE DEF row, s
<1>9. Rows' /\ upset' \subseteq Mishaps
  BY <1>1, <1>2, <1>8 DEF Rows, Set
<1>10. \A x \in DOMAIN messages' :
           /\ messages'[x].turn \in DOMAIN turns' \cup {Null}
           /\ messages'[x].tokens \in DOMAIN written \cup {Null}
  BY <1>1, <1>2, <1>8 DEF Linked, Set
<1>11. s.turn \in DOMAIN turns' \cup {Null}
  BY <1>1, <1>2, <1>4
<1> QED BY <1>1, <1>2, <1>4, <1>5, <1>9, <1>10, <1>11, AdvanceKeepsTypes

LEMMA ToolTypes ==
  ASSUME TypeInv, NEW p \in Procs, RecordToolCall(p)
  PROVE  TypeInv'
<1> DEFINE state == hooks[p].state
           tool == hooks[p].tool
           id == HarnessToolCallId(tool, IF state.toolIndex = 0 THEN 0 ELSE state.toolIndex - 1)
           mine == {a \in state.active : a.id = id}
           begun == IF mine = {} THEN Null ELSE (CHOOSE a \in mine : TRUE).tool
           s == [state EXCEPT !.active = @ \ mine]
<1>1. /\ Doing(p, "tool") /\ Advance(p, s)
      /\ calls' = IF id \in DOMAIN calls THEN [calls EXCEPT ![id].of = @ \cup {tool}]
                    ELSE Set(calls, id, [of |-> {tool}, begun |-> begun])
      /\ UNCHANGED <<file, session, turns, messages, cursor, upset>>
  BY DEF RecordToolCall, trouble
<1>2. /\ session # {} /\ state \in SessionStates /\ Distinct(state) /\ Hook(p) /\ At(p) = "tool"
      /\ state.turn \in DOMAIN turns \cup {Null}
      /\ Rows /\ Linked /\ upset \subseteq Mishaps /\ file \in Copies \cup {Null}
  BY <1>1, AtWork
<1>3. tool \in Tools
  <2>1. hooks[p].todo # <<>> /\ hooks[p].event \in Ends
    BY <1>1, <1>2, Handlers DEF Doing, Hook, At, Goes
  <2> QED BY <1>2, <2>1 DEF Hook
<1>4. state.active \in SUBSET [id : CallIds, tool : Tools]
  BY <1>2 DEF SessionStates
<1>5. begun \in Tools \cup {Null}
  BY <1>4
<1> HIDE DEF id
<1>6. s \in SessionStates /\ s.turn = state.turn /\ s.active \subseteq state.active
  BY <1>2, <1>4 DEF SessionStates
<1>7. Distinct(s)
  BY <1>2, <1>6 DEF Distinct
<1> HIDE DEF begun, s
<1>8. \A x \in DOMAIN calls' : calls'[x] \in CallRows
  <2>1. CASE id \in DOMAIN calls
    <3>1. calls[id] \in CallRows BY <1>2, <2>1 DEF Rows
    <3>2. [calls[id] EXCEPT !.of = @ \cup {tool}] \in CallRows
      BY <1>3, <3>1 DEF CallRows
    <3>3. calls' = [calls EXCEPT ![id] = [calls[id] EXCEPT !.of = @ \cup {tool}]]
      BY <1>1, <2>1
    <3>4. \A x \in DOMAIN calls : calls'[x] = IF x = id THEN [calls[id] EXCEPT !.of = @ \cup {tool}] ELSE calls[x]
      BY <3>3
    <3>5. DOMAIN calls' = DOMAIN calls
      BY <3>3
    <3> QED BY <1>2, <3>2, <3>4, <3>5 DEF Rows
  <2>2. CASE id \notin DOMAIN calls
    <3>1. [of |-> {tool}, begun |-> begun] \in CallRows
      BY <1>3, <1>5 DEF CallRows
    <3> QED BY <1>1, <1>2, <2>2, <3>1 DEF Rows, Set
  <2> QED BY <2>1, <2>2
<1>9. Rows' /\ upset' \subseteq Mishaps
  BY <1>1, <1>2, <1>8 DEF Rows
<1>10. \A x \in DOMAIN messages' :
           /\ messages'[x].turn \in DOMAIN turns' \cup {Null}
           /\ messages'[x].tokens \in DOMAIN written \cup {Null}
  BY <1>1, <1>2 DEF Linked
<1>11. s.turn \in DOMAIN turns' \cup {Null}
  BY <1>1, <1>2, <1>6
<1> QED BY <1>1, <1>2, <1>6, <1>7, <1>9, <1>10, <1>11, AdvanceKeepsTypes

\* What a transcript or the database has are records of messages.
LEMMA EntryFacts ==
  ASSUME Shape
  PROVE  \A mine : Records(Entries(mine)) /\ Records(Bubbles)
<1>1. \A m \in DOMAIN written : m \in Nat /\ written[m] \in Nat \cup {Null}
  <2>1. written \in Seq(Nat \cup {Null}) BY DEF Shape
  <2> QED BY <2>1, LenProperties, ElementOfSeq
<1>2. \A m \in DOMAIN written : EntryId(m) \in MessageIds
  BY <1>1 DEF EntryId, MessageIds
<1> QED BY <1>1, <1>2 DEF Records, Entries, Bubbles, Counted

LEMMA CorrelatedFacts ==
  ASSUME NEW entries, Records(entries), NEW known \in Seq(MessageIds)
  PROVE  /\ Records(Correlated(entries, known)) /\ DOMAIN Correlated(entries, known) = DOMAIN entries
         /\ \A m \in DOMAIN entries :
              \/ Correlated(entries, known)[m] = entries[m]
              \/ \E k \in DOMAIN known :
                   /\ \A l \in DOMAIN entries : entries[l].id # known[k]
                   /\ Correlated(entries, known)[m].id = known[k]
<1> DEFINE free == {k \in DOMAIN known : \A m \in DOMAIN entries : entries[m].id # known[k]}
           spare == {m \in DOMAIN entries : \A k \in DOMAIN known : known[k] # entries[m].id}
           Level(m, k) == Cardinality({l \in spare : l <= m}) = Cardinality({l \in free : l <= k})
           place(m) == CHOOSE k \in free : Level(m, k)
           moved(m) == m \in spare /\ \E k \in free : Level(m, k)
<1>1. Correlated(entries, known) =
        [m \in DOMAIN entries |-> IF moved(m) THEN [entries[m] EXCEPT !.id = known[place(m)]] ELSE entries[m]]
  BY DEF Correlated
<1>2. \A m : moved(m) => place(m) \in free
  OBVIOUS
<1>3. \A k \in DOMAIN known : known[k] \in MessageIds
  BY LenProperties, ElementOfSeq
<1> HIDE DEF moved, place
<1>4. \A m \in DOMAIN entries : moved(m) =>
        /\ [entries[m] EXCEPT !.id = known[place(m)]] \in [id : MessageIds, tokens : Nat]
        /\ [entries[m] EXCEPT !.id = known[place(m)]].tokens = m
        /\ [entries[m] EXCEPT !.id = known[place(m)]].id = known[place(m)]
  BY <1>2, <1>3 DEF Records
<1> QED BY <1>1, <1>2, <1>4 DEF Records

\* A scan keeps the state, and its records are records of messages.
LEMMA ScanFacts ==
  ASSUME TypeInv, NEW p \in Procs, ScanTranscript(p) \/ ScanSqlite(p) \/ ScanFails(p)
  PROVE  \E r : /\ Doing(p, "scan") /\ Backfill(p, r) /\ Records(r)
                /\ \/ ScanTranscript(p) /\ hooks[p].event = "subagentStop" /\ r = Entries(FALSE)
                   \/ /\ ScanTranscript(p) /\ hooks[p].event # "subagentStop"
                      /\ r = Correlated(Entries(TRUE), hooks[p].state.pending)
                   \/ ScanSqlite(p) /\ r = Bubbles
                   \/ ScanFails(p) /\ r = <<>> /\ "unreadable" \in upset'
                /\ UNCHANGED <<file, store, cursor>> /\ upset \subseteq upset'
                /\ upset' \subseteq Mishaps
<1>0. Shape /\ upset \subseteq Mishaps
  BY DEF TypeInv, Shape
<1>1. CASE ScanTranscript(p) /\ hooks[p].event = "subagentStop"
  BY <1>0, <1>1, EntryFacts DEF ScanTranscript, trouble
<1>2. CASE ScanTranscript(p) /\ hooks[p].event # "subagentStop"
  <2>1. hooks[p].state \in SessionStates
    BY <1>2, AtWork DEF ScanTranscript
  <2>2. hooks[p].state.pending \in Seq(MessageIds)
    BY <2>1 DEF SessionStates
  <2> QED BY <1>0, <1>2, <2>2, EntryFacts, CorrelatedFacts DEF ScanTranscript, trouble
<1>3. CASE ScanSqlite(p)
  BY <1>0, <1>3, EntryFacts DEF ScanSqlite, trouble
<1>4. CASE ScanFails(p)
  <2>1. Records(<<>>) BY DEF Records
  <2> QED BY <1>0, <1>4, <2>1 DEF ScanFails, Mishap, Mishaps
<1> QED BY <1>1, <1>2, <1>3, <1>4

LEMMA ScanTypes ==
  ASSUME TypeInv, NEW p \in Procs, ScanTranscript(p) \/ ScanSqlite(p) \/ ScanFails(p)
  PROVE  TypeInv'
<1>1. PICK r : /\ Doing(p, "scan") /\ Backfill(p, r) /\ Records(r)
               /\ UNCHANGED <<file, store, cursor>> /\ upset' \subseteq Mishaps
  BY ScanFacts
<1>2. /\ UNCHANGED <<file, session, turns, messages, calls, written, prompts>> /\ UNCHANGED cursor
  BY <1>1 DEF store, cursor
<1>3. /\ session # {} /\ hooks[p].state \in SessionStates /\ Distinct(hooks[p].state)
      /\ hooks[p].state.turn \in DOMAIN turns \cup {Null} /\ Rows /\ Linked
      /\ file \in Copies \cup {Null} /\ Shape
  BY <1>1, AtWork DEF TypeInv
<1>4. /\ DOMAIN hooks' = Procs
      /\ \A q \in Procs : Busy(q)' => Hook(q)'
      /\ \A q \in Procs : Busy(q)' => Busy(q) /\ hooks'[q].event = hooks[q].event
      /\ Copies' \subseteq ({file'} \ {Null}) \cup Copies
  BY <1>1, <1>2, <1>3, Backfills DEF Moved
<1>5. Rows' BY <1>2, <1>3 DEF Rows
<1>6. \A x \in DOMAIN messages' :
           /\ messages'[x].turn \in DOMAIN turns' \cup {Null}
           /\ messages'[x].tokens \in DOMAIN written \cup {Null}
  BY <1>2, <1>3 DEF Linked
<1> DEFINE s == hooks[p].state
<1>7. s \in SessionStates /\ Distinct(s) /\ s.turn \in DOMAIN turns' \cup {Null}
      /\ Copies' \subseteq ({file'} \ {Null}) \cup (Copies \cup {s}) /\ file' \in Copies \cup {s, Null}
      /\ session' # {} /\ DOMAIN turns \subseteq DOMAIN turns'
  BY <1>2, <1>3, <1>4
<1> HIDE DEF s
<1> QED BY <1>1, <1>2, <1>4, <1>5, <1>6, <1>7, StepKeepsTypes

\* A step that leaves the rows of turns and messages alone, and of the state file
\* takes what the hook has.
LEMMA QuietStepTypes ==
  ASSUME TypeInv, NEW p \in Procs, NEW step \in {"write", "git", "end", "delete"}, Doing(p, step),
         Advance(p, hooks[p].state), file' \in {file, hooks[p].state, Null}, session \subseteq session',
         UNCHANGED <<turns, messages, calls, cursor, upset>>
  PROVE  TypeInv'
<1> DEFINE s == hooks[p].state
<1>1. /\ session' # {} /\ s \in SessionStates /\ Distinct(s)
      /\ s.turn \in DOMAIN turns \cup {Null} /\ Rows /\ Linked /\ upset \subseteq Mishaps
      /\ file \in Copies \cup {Null}
  BY AtWork
<1>2. Rows' /\ upset' \subseteq Mishaps /\ s.turn \in DOMAIN turns' \cup {Null}
  BY <1>1 DEF Rows
<1>3. \A x \in DOMAIN messages' :
           /\ messages'[x].turn \in DOMAIN turns' \cup {Null}
           /\ messages'[x].tokens \in DOMAIN written \cup {Null}
  BY <1>1 DEF Linked
<1>4. Advance(p, s) /\ file' \in Copies \cup {s, Null}
  BY <1>1
<1> HIDE DEF s
<1> QED BY <1>1, <1>2, <1>3, <1>4, AdvanceKeepsTypes

LEMMA QuietSteps ==
  ASSUME TypeInv, NEW p \in Procs, WriteState(p) \/ CaptureGit(p) \/ EndSession(p) \/ DeleteState(p)
  PROVE  TypeInv'
<1>1. CASE WriteState(p)
  BY <1>1, QuietStepTypes DEF WriteState, store, trouble
<1>2. CASE CaptureGit(p)
  BY <1>2, QuietStepTypes DEF CaptureGit, store, trouble
<1>3. CASE EndSession(p)
  BY <1>3, QuietStepTypes DEF EndSession, trouble
<1>4. CASE DeleteState(p)
  BY <1>4, QuietStepTypes DEF DeleteState, store, trouble
<1> QED BY <1>1, <1>2, <1>3, <1>4

\* stop: what becomes of the turn, and of the state.
LEMMA CloseFacts ==
  ASSUME TypeInv, NEW p \in Procs, CloseTurn(p)
  PROVE  LET s == [hooks[p].state EXCEPT !.turn = Null, !.active = {}, !.pending = <<>>] IN
         /\ Doing(p, "close") /\ Advance(p, s) /\ UNCHANGED <<file, session, messages, calls, cursor, upset>>
         /\ s \in SessionStates /\ s.turn = Null /\ s.active = {} /\ DOMAIN s.pending = {}
         /\ s.turnIndex = hooks[p].state.turnIndex /\ s.toolIndex = hooks[p].state.toolIndex
         /\ s.messageIndex = hooks[p].state.messageIndex
         /\ DOMAIN turns' = DOMAIN turns
         /\ \A x \in DOMAIN turns : turns'[x] \in TurnRows /\ turns'[x].of = turns[x].of
<1> DEFINE id == hooks[p].state.turn
           s == [hooks[p].state EXCEPT !.turn = Null, !.active = {}, !.pending = <<>>]
<1>1. /\ Doing(p, "close")
      /\ turns' = IF id = Null THEN turns ELSE Set(turns, id, [Turn(id) EXCEPT !.ended = TRUE])
      /\ Advance(p, s)
      /\ UNCHANGED <<file, session, messages, calls, cursor, upset>>
  BY DEF CloseTurn, trouble
<1>2. /\ hooks[p].state \in SessionStates /\ id \in DOMAIN turns \cup {Null} /\ Rows
  BY <1>1, AtWork
<1>3. <<>> \in Seq(MessageIds) /\ DOMAIN <<>> = {}
  OBVIOUS
<1>4. /\ s \in SessionStates /\ s.turn = Null /\ s.active = {} /\ DOMAIN s.pending = {}
      /\ s.turnIndex = hooks[p].state.turnIndex /\ s.toolIndex = hooks[p].state.toolIndex
      /\ s.messageIndex = hooks[p].state.messageIndex
  BY <1>2, <1>3 DEF SessionStates
<1>5. DOMAIN turns' = DOMAIN turns /\ \A x \in DOMAIN turns : turns'[x] \in TurnRows /\ turns'[x].of = turns[x].of
  <2>1. CASE id = Null
    BY <1>1, <1>2, <2>1 DEF Rows
  <2>2. CASE id # Null
    <3>1. turns[id] \in TurnRows /\ Turn(id) = turns[id] /\ id \in DOMAIN turns
      BY <1>2, <2>2 DEF Rows, Turn
    <3>2. [Turn(id) EXCEPT !.ended = TRUE] \in TurnRows /\ [Turn(id) EXCEPT !.ended = TRUE].of = turns[id].of
      BY <3>1 DEF TurnRows
    <3> QED BY <1>1, <1>2, <2>2, <3>1, <3>2 DEF Set, Rows
  <2> QED BY <2>1, <2>2
<1> QED BY <1>1, <1>4, <1>5

LEMMA CloseTypes ==
  ASSUME TypeInv, NEW p \in Procs, CloseTurn(p)
  PROVE  TypeInv'
<1> DEFINE s == [hooks[p].state EXCEPT !.turn = Null, !.active = {}, !.pending = <<>>]
<1>1. /\ Doing(p, "close") /\ Advance(p, s) /\ UNCHANGED <<file, session, messages, calls, cursor, upset>>
      /\ s \in SessionStates /\ s.turn = Null /\ s.active = {}
      /\ DOMAIN turns' = DOMAIN turns /\ \A x \in DOMAIN turns : turns'[x] \in TurnRows
  BY CloseFacts
<1>2. /\ session # {} /\ Rows /\ Linked /\ upset \subseteq Mishaps /\ file \in Copies \cup {Null}
  BY <1>1, AtWork
<1> HIDE DEF s
<1>3. Rows' /\ upset' \subseteq Mishaps /\ Distinct(s) /\ s.turn \in DOMAIN turns' \cup {Null}
  BY <1>1, <1>2 DEF Rows, Distinct
<1>4. \A x \in DOMAIN messages' :
           /\ messages'[x].turn \in DOMAIN turns' \cup {Null}
           /\ messages'[x].tokens \in DOMAIN written \cup {Null}
  BY <1>1, <1>2 DEF Linked
<1> QED BY <1>1, <1>2, <1>3, <1>4, AdvanceKeepsTypes

\* The row that a record goes to keeps all but its tokens.
LEMMA RecordFacts ==
  ASSUME TypeInv, NEW p \in Procs, RecordLlmMessage(p)
  PROVE  \E m \in DOMAIN hooks[p].records :
           LET id == hooks[p].records[m].id IN
           /\ m \in DOMAIN written /\ m \in Nat /\ id \in MessageIds
           /\ DOMAIN messages' = DOMAIN messages \cup {id}
           /\ \A x \in DOMAIN messages' \ {id} : messages'[x] = messages[x]
           /\ messages'[id] \in MessageRows /\ messages'[id].tokens = m
           /\ messages'[id].turn = Message(id).turn /\ messages'[id].of = Message(id).of
           /\ Busy(p)' => hooks'[p].records = Only(hooks[p].records, DOMAIN hooks[p].records \ {m})
<1>1. PICK m \in DOMAIN hooks[p].records :
              /\ LET r == hooks[p].records[m] IN
                   messages' = Set(messages, r.id, [Message(r.id) EXCEPT !.tokens = r.tokens])
              /\ Busy(p)' => hooks'[p].records = Only(hooks[p].records, DOMAIN hooks[p].records \ {m})
  BY Writes DEF TypeInv
<1>2. /\ Hook(p) /\ Rows
  BY HookFacts DEF RecordLlmMessage
<1> DEFINE r == hooks[p].records[m]
           row == [Message(r.id) EXCEPT !.tokens = r.tokens]
<1>3. m \in DOMAIN written /\ r.tokens = m /\ r.id \in MessageIds /\ r.tokens \in Nat
  BY <1>2 DEF Hook
<1>4. Message(r.id) \in MessageRows
  BY <1>2, MessageFacts
<1>5. row \in MessageRows /\ row.tokens = m /\ row.turn = Message(r.id).turn /\ row.of = Message(r.id).of
  BY <1>3, <1>4 DEF MessageRows
<1> HIDE DEF row
<1>6. messages' = Set(messages, r.id, row)
  BY <1>1 DEF row
<1>7. /\ DOMAIN messages' = DOMAIN messages \cup {r.id}
      /\ \A x \in DOMAIN messages' \ {r.id} : messages'[x] = messages[x]
      /\ messages'[r.id] = row
  BY <1>6 DEF Set
<1> QED BY <1>1, <1>3, <1>5, <1>7

LEMMA RecordTypes ==
  ASSUME TypeInv, NEW p \in Procs, RecordLlmMessage(p)
  PROVE  TypeInv'
<1>1. PICK m \in DOMAIN hooks[p].records :
           LET id == hooks[p].records[m].id IN
           /\ m \in DOMAIN written
           /\ DOMAIN messages' = DOMAIN messages \cup {id}
           /\ \A x \in DOMAIN messages' \ {id} : messages'[x] = messages[x]
           /\ messages'[id] \in MessageRows /\ messages'[id].tokens = m
           /\ messages'[id].turn = Message(id).turn
  BY RecordFacts
<1>2. /\ Busy(p) /\ Hook(p) /\ At(p) \in Loaded
      /\ DOMAIN hooks' = Procs
      /\ \A q \in Procs : Busy(q)' => Hook(q)'
      /\ \A q \in Procs : Busy(q)' => Busy(q) /\ hooks'[q].event = hooks[q].event
      /\ Copies' \subseteq Copies
  BY Writes DEF TypeInv
<1>3. UNCHANGED <<file, session, turns, calls, upset>> /\ UNCHANGED cursor
  BY DEF RecordLlmMessage, trouble
<1>4. /\ hooks[p].state \in SessionStates /\ hooks[p].state \in Copies /\ Distinct(hooks[p].state)
      /\ hooks[p].state.turn \in DOMAIN turns \cup {Null} /\ Rows /\ session # {}
  BY <1>2, HookFacts DEF Began, Loaded
<1>5. Linked /\ upset \subseteq Mishaps /\ file \in Copies \cup {Null}
  BY DEF TypeInv, Shape, Copies
<1>6. \A x : Message(x).turn \in DOMAIN turns \cup {Null}
  BY <1>5 DEF Message, Linked
<1>7. Rows'
  BY <1>1, <1>3, <1>4 DEF Rows
<1>8. \A x \in DOMAIN messages' :
           /\ messages'[x].turn \in DOMAIN turns' \cup {Null}
           /\ messages'[x].tokens \in DOMAIN written \cup {Null}
  <2> TAKE x \in DOMAIN messages'
  <2>1. CASE x = hooks[p].records[m].id
    BY <1>1, <1>3, <1>6, <2>1
  <2>2. CASE x # hooks[p].records[m].id
    BY <1>1, <1>3, <1>5, <2>2 DEF Linked
  <2> QED BY <2>1, <2>2
<1> DEFINE s == hooks[p].state
<1>9. /\ s \in SessionStates /\ Distinct(s) /\ s.turn \in DOMAIN turns' \cup {Null}
      /\ Copies' \subseteq ({file'} \ {Null}) \cup (Copies \cup {s}) /\ file' \in Copies \cup {s, Null}
      /\ session' # {} /\ DOMAIN turns \subseteq DOMAIN turns' /\ upset' \subseteq Mishaps
  BY <1>2, <1>3, <1>4, <1>5
<1> HIDE DEF s
<1> QED BY <1>2, <1>3, <1>7, <1>8, <1>9, StepKeepsTypes

LEMMA AbandonTypes ==
  ASSUME TypeInv, NEW p \in Procs, Abandon(p)
  PROVE  TypeInv'
<1>1. upset' \subseteq Mishaps
  BY DEF Abandon, Mishap, Mishaps, TypeInv, Shape
<1> QED BY <1>1, StopKeepsTypes DEF Abandon

LEMMA StepTypes ==
  ASSUME TypeInv, NEW p \in Procs, Step(p)
  PROVE  TypeInv'
BY ReadTypes, SessionTypes, TurnTypes, PlaceholderTypes, ToolTypes, ScanTypes, RecordTypes, CloseTypes,
   QuietSteps, AbandonTypes DEF Step

\* So does a hook that starts, if what Cursor did fits.
LEMMA StartKeepsTypes ==
  ASSUME TypeInv, NEW p \in Procs, NEW e \in DOMAIN Dispatch, NEW t, Run(p, e, t),
         IF e \in {"preToolUse"} \cup Ends THEN t \in Tools ELSE t = Null,
         UNCHANGED <<file, store, kind>>, upset' \subseteq Mishaps,
         prompts' \in Nat, starts' \in Nat, Quiet \/ prompts' = prompts,
         written' \in Seq(Nat \cup {Null}), DOMAIN written \subseteq DOMAIN written',
         Issued'
  PROVE  TypeInv'
<1> USE DEF TypeInv
<1>1. /\ ~Busy(p) /\ ~Began(p)' /\ DOMAIN hooks' = Procs
      /\ \A q \in Procs : q # p => hooks'[q] = hooks[q]
      /\ \A q \in Procs : Busy(q)' => Hook(q)'
      /\ Copies' \subseteq ({file'} \ {Null}) \cup (Copies \cup {Fresh})
  BY Starts
<1>2. UNCHANGED <<file, session, turns, messages, calls, kind>>
  BY DEF store
<1>3. Shape'
  BY <1>1, <1>2 DEF Shape, Rows
<1>4. Recorded'
  BY <1>1, <1>2 DEF Recorded, Began, At, Busy
<1>5. Copies' \subseteq Copies \cup {Fresh}
  BY <1>1, <1>2 DEF Copies
<1>6. Linked'
  BY <1>2, <1>5, FreshState DEF Linked
<1>7. \A s \in Copies' : Distinct(s)'
  BY <1>5, FreshState DEF Distinct
<1> QED BY <1>3, <1>4, <1>6, <1>7

\* A message more.
LEMMA AnotherMessage ==
  ASSUME Shape, NEW x \in Nat \cup {Null}, written' = Append(written, x)
  PROVE  /\ written' \in Seq(Nat \cup {Null}) /\ DOMAIN written \subseteq DOMAIN written'
         /\ \A m \in DOMAIN written : written'[m] = written[m]
         /\ Len(written) + 1 \in DOMAIN written' /\ written'[Len(written) + 1] = x
         /\ DOMAIN written' = DOMAIN written \cup {Len(written) + 1} /\ Len(written) + 1 \notin DOMAIN written
<1>1. written \in Seq(Nat \cup {Null}) BY DEF Shape
<1>2. /\ written' \in Seq(Nat \cup {Null}) /\ Len(written) \in Nat
      /\ Len(written') = Len(written) + 1
      /\ \A k \in 1 .. Len(written) : written'[k] = written[k]
      /\ written'[Len(written) + 1] = x
  BY <1>1, AppendProperties, LenProperties
<1>3. DOMAIN written = 1 .. Len(written) /\ DOMAIN written' = 1 .. Len(written) + 1
  BY <1>1, <1>2, LenProperties
<1> QED BY <1>2, <1>3

LEMMA Events ==
  /\ {"sessionStart", "beforeSubmitPrompt", "afterAgentResponse", "preToolUse", "postToolUse",
      "postToolUseFailure", "stop", "subagentStop", "sessionEnd"} = DOMAIN Dispatch
BY DEF Dispatch

\* Nobody starts to prompt.
LEMMA NotPrompting ==
  ASSUME Shape, NEW p \in Procs, NEW e, NEW t, Run(p, e, t), e # "beforeSubmitPrompt"
  PROVE  Prompting' => Prompting
<1>1. DOMAIN hooks = Procs /\ ~Busy(p) /\
      hooks' = [hooks EXCEPT ![p] = [event |-> e, todo |-> Dispatch[e], state |-> Fresh, tool |-> t,
                 generation |-> prompts', records |-> <<>>]]
  BY DEF Shape, Run
<1>2. hooks'[p].event = e /\ \A q \in Procs : q # p => hooks'[q] = hooks[q]
  BY <1>1
<1> QED BY <1>2 DEF Prompting, Running, Busy

LEMMA HarnessTypes ==
  ASSUME TypeInv, Harness
  PROVE  TypeInv'
<1> USE DEF TypeInv
<1>0. Shape /\ upset \subseteq Mishaps /\ prompts \in Nat /\ starts \in Nat /\ written \in Seq(Nat \cup {Null})
      /\ Issued
  BY DEF Shape
<1>1. ASSUME NEW p \in Procs, Begin(p) PROVE TypeInv'
  <2>1. /\ Run(p, "sessionStart", Null) /\ UNCHANGED <<file, store, kind, prompts, written, issued>>
        /\ starts' \in Nat
    BY <1>0, <1>1 DEF Begin
  <2>3. upset' \subseteq Mishaps
    BY <1>0, <1>1 DEF Begin, Mishap, trouble, Mishaps
  <2>2. Issued'
    BY <1>0, <2>1, NotPrompting DEF Issued
  <2> QED BY <1>0, <2>1, <2>2, <2>3, Events, StartKeepsTypes DEF Ends
<1>2. CASE BeginUnseen
  <2>1. /\ UNCHANGED <<file, hooks, session, turns, messages, calls, kind, prompts, written, issued, upset>>
        /\ starts' \in Nat
    BY <1>2 DEF BeginUnseen, store, trouble
  <2>2. Copies' = Copies BY <2>1 DEF Copies, Busy
  <2>3. Shape' BY <2>1 DEF Shape, Rows, Hook, Busy, At
  <2>4. Recorded' BY <2>1 DEF Recorded, Busy, Began, At
  <2>5. Linked' BY <2>1, <2>2 DEF Linked
  <2>6. Issued' BY <2>1 DEF Issued, Prompting, Running, Busy
  <2> QED BY <2>2, <2>3, <2>4, <2>5, <2>6 DEF Distinct
<1>3. CASE Interrupt
  <2>1. /\ UNCHANGED <<file, hooks, session, turns, messages, calls, kind, prompts, written, issued, starts>>
        /\ upset' \subseteq Mishaps
    BY <1>0, <1>3 DEF Interrupt, store, Mishap, Mishaps
  <2>2. Copies' = Copies BY <2>1 DEF Copies, Busy
  <2>3. Shape' BY <2>1 DEF Shape, Rows, Hook, Busy, At
  <2>4. Recorded' BY <2>1 DEF Recorded, Busy, Began, At
  <2>5. Linked' BY <2>1, <2>2 DEF Linked
  <2>6. Issued' BY <2>1 DEF Issued, Prompting, Running, Busy
  <2> QED BY <2>2, <2>3, <2>4, <2>5, <2>6 DEF Distinct
<1>4. ASSUME NEW p \in Procs, Prompt(p) PROVE TypeInv'
  <2>1. /\ Run(p, "beforeSubmitPrompt", Null) /\ UNCHANGED <<file, store, kind, written, issued, starts>>
        /\ upset' \subseteq Mishaps /\ prompts' = prompts + 1 /\ Quiet
    BY <1>0, <1>4 DEF Prompt, trouble
  <2>2. Issued'
    BY <1>0, <2>1 DEF Issued
  <2>3. prompts' \in Nat /\ starts' \in Nat /\ written' \in Seq(Nat \cup {Null}) /\ DOMAIN written' = DOMAIN written
    BY <1>0, <2>1
  <2>4. "beforeSubmitPrompt" \in DOMAIN Dispatch /\ "beforeSubmitPrompt" \notin {"preToolUse"} \cup Ends
    BY Events DEF Ends
  <2> QED BY <2>1, <2>2, <2>3, <2>4, StartKeepsTypes DEF Ends
<1>5. ASSUME NEW p \in Procs, Respond(p) PROVE TypeInv'
  <2>1. /\ Run(p, "afterAgentResponse", Null) /\ UNCHANGED <<file, store, kind, prompts, issued, starts>>
        /\ upset' \subseteq Mishaps /\ written' = Append(written, prompts)
    BY <1>0, <1>5 DEF Respond, Overlap, Mishap, Mishaps
  <2>2. Issued'
    BY <1>0, <2>1, NotPrompting DEF Issued
  <2>3. written' \in Seq(Nat \cup {Null}) /\ DOMAIN written \subseteq DOMAIN written'
    BY <1>0, <2>1, AnotherMessage
  <2> QED BY <1>0, <2>1, <2>2, <2>3, Events, StartKeepsTypes DEF Ends
<1>6. ASSUME NEW p \in Procs, SubagentEnds(p) PROVE TypeInv'
  <2>1. /\ Run(p, "subagentStop", Null) /\ UNCHANGED <<file, store, kind, prompts, issued, starts>>
        /\ upset' \subseteq Mishaps /\ written' = Append(written, Null)
    BY <1>0, <1>6 DEF SubagentEnds, Overlap, Mishaps
  <2>2. Issued'
    BY <1>0, <2>1, NotPrompting DEF Issued
  <2>3. written' \in Seq(Nat \cup {Null}) /\ DOMAIN written \subseteq DOMAIN written'
    BY <1>0, <2>1, AnotherMessage
  <2> QED BY <1>0, <2>1, <2>2, <2>3, Events, StartKeepsTypes DEF Ends
<1>7. ASSUME NEW p \in Procs, Answered(p) PROVE TypeInv'
  <2>1. /\ Run(p, "stop", Null) /\ UNCHANGED <<file, store, kind, prompts, written, issued, starts>>
        /\ upset' \subseteq Mishaps
    BY <1>0, <1>7 DEF Answered, trouble
  <2>2. Issued'
    BY <1>0, <2>1, NotPrompting DEF Issued
  <2> QED BY <1>0, <2>1, <2>2, Events, StartKeepsTypes DEF Ends
<1>8. ASSUME NEW p \in Procs, End(p) PROVE TypeInv'
  <2>1. /\ Run(p, "sessionEnd", Null) /\ UNCHANGED <<file, store, kind, prompts, written, issued, starts>>
        /\ upset' \subseteq Mishaps
    BY <1>0, <1>8 DEF End, trouble, Mishap, Mishaps
  <2>2. Issued'
    BY <1>0, <2>1, NotPrompting DEF Issued
  <2> QED BY <1>0, <2>1, <2>2, Events, StartKeepsTypes DEF Ends
<1>9. ASSUME NEW p \in Procs, NEW t \in Tools, ToolBegins(p, t) PROVE TypeInv'
  <2>1. /\ Run(p, "preToolUse", t) /\ UNCHANGED <<file, store, kind, prompts, written, starts>>
        /\ upset' \subseteq Mishaps /\ ~Prompting /\ issued' = Set(issued, t, prompts)
    BY <1>0, <1>9 DEF ToolBegins, Overlap, Mishap, Mishaps, Working, Prompting
  <2>2. Issued'
    BY <1>0, <2>1, NotPrompting DEF Issued, Set
  <2> QED BY <1>0, <2>1, <2>2, Events, StartKeepsTypes
<1>10. ASSUME NEW p \in Procs, NEW t \in Tools, ToolEnds(p, t) PROVE TypeInv'
  <2>1. /\ UNCHANGED <<file, store, kind, prompts, written, issued, starts>>
        /\ upset' \subseteq Mishaps
    BY <1>0, <1>10 DEF ToolEnds, Overlap, Mishaps, cursor
  <2>2. PICK e \in Ends : Run(p, e, t)
    BY <1>10 DEF ToolEnds, Ends
  <2>3. e # "beforeSubmitPrompt" /\ e \in DOMAIN Dispatch
    BY Events DEF Ends
  <2>4. Issued'
    BY <1>0, <2>1, <2>2, <2>3, NotPrompting DEF Issued
  <2> QED BY <1>0, <2>1, <2>2, <2>3, <2>4, StartKeepsTypes
<1> QED BY <1>1, <1>2, <1>3, <1>4, <1>5, <1>6, <1>7, <1>8, <1>9, <1>10 DEF Harness

LEMMA StutterTypes ==
  ASSUME TypeInv, UNCHANGED vars
  PROVE  TypeInv'
<1>1. UNCHANGED <<file, hooks, session, turns, messages, calls, kind, prompts, written, issued, starts, upset>>
  BY DEF vars, store, cursor, trouble
<1>2. Copies' = Copies BY <1>1 DEF Copies, Busy
<1>3. Shape' BY <1>1 DEF TypeInv, Shape, Rows, Hook, Busy, At
<1>4. Recorded' BY <1>1 DEF TypeInv, Recorded, Busy, Began, At
<1>5. Linked' BY <1>1, <1>2 DEF TypeInv, Linked
<1>6. Issued' BY <1>1 DEF TypeInv, Issued, Prompting, Running, Busy
<1> QED BY <1>2, <1>3, <1>4, <1>5, <1>6 DEF TypeInv, Distinct

LEMMA InitTypes ==
  ASSUME Init
  PROVE  TypeInv
<1>1. /\ \A p \in Procs : ~Busy(p)
      /\ DOMAIN hooks = Procs /\ Copies = {}
  BY DEF Init, Busy, Copies
<1>2. <<>> \in Seq(Nat \cup {Null}) /\ DOMAIN <<>> = {}
  OBVIOUS
<1>3. Shape
  BY <1>1, <1>2 DEF Init, Shape, Rows
<1> QED BY <1>1, <1>2, <1>3 DEF Init, TypeInv, Recorded, Linked, Issued

\* What holds always.
THEOREM CursorTypes == Spec => []TypeInv
<1>1. TypeInv /\ [Next]_vars => TypeInv'
  BY StepTypes, HarnessTypes, StutterTypes DEF Next
<1> QED BY <1>1, InitTypes, PTL DEF Spec

\* TypeOK: what rows refer to exists, and the tokens are those of a message.
THEOREM CursorTypesHold == Spec => []TypeOK
<1>1. TypeInv => TypeOK
  <2> SUFFICES ASSUME TypeInv PROVE TypeOK
    OBVIOUS
  <2>1. \A p \in Procs : Busy(p) => hooks[p].event \in DOMAIN Dispatch
    BY DEF TypeInv, Shape, Hook, Stages, Dispatch
  <2> QED BY <2>1 DEF TypeOK, TypeInv, Recorded, Linked
<1> QED BY <1>1, CursorTypes, PTL

-----------------------------------------------------------------------------
(* Where states and records come from                                      *)

Derived(p, x) ==
  /\ \A k \in DOMAIN x.pending :
       \/ \E y \in Copies : \E l \in DOMAIN y.pending : x.pending[k] = y.pending[l]
       \/ /\ At(p) = "placeholder" /\ Busy(p)
          /\ x.pending[k] = HarnessMessageId(prompts, hooks[p].state.messageIndex)
  /\ \A a \in x.active :
       \/ \E y \in Copies : a \in y.active
       \/ /\ hooks[p].tool \in Tools
          /\ \E i \in Nat : a = [id |-> HarnessToolCallId(hooks[p].tool, i), tool |-> hooks[p].tool]

Scans(p) == ScanTranscript(p) \/ ScanSqlite(p) \/ ScanFails(p)

\* What a step of p does to hooks and copies of the state.
Comes(p) ==
  /\ DOMAIN hooks' = Procs
  /\ \A q \in Procs : Busy(q)' => Busy(q) /\ hooks'[q].event = hooks[q].event
  /\ \A q \in Procs : q # p => hooks'[q] = hooks[q]
  /\ Busy(p)' => hooks'[p].tool = hooks[p].tool
  /\ \A x \in Copies' : Derived(p, x)
  /\ Busy(p)' /\ ~Scans(p) => \A m \in DOMAIN hooks'[p].records :
       m \in DOMAIN hooks[p].records /\ hooks'[p].records[m] = hooks[p].records[m]

LEMMA OldComes ==
  ASSUME NEW p
  PROVE  (\A x \in Copies : Derived(p, x)) /\ Derived(p, Fresh)
BY FreshState DEF Derived

LEMMA AdvanceComes ==
  ASSUME TypeInv, NEW p \in Procs, NEW step, Doing(p, step), NEW s \in SessionStates, Advance(p, s),
         file' \in Copies \cup {s, Null, Fresh}, UNCHANGED <<written, prompts>>, Derived(p, s)
  PROVE  Comes(p)
<1>1. Shape BY DEF TypeInv
<1>2. /\ DOMAIN hooks[p].records = {} /\ Moved(p, s, hooks[p].records)
      /\ \A q \in Procs : Busy(q)' => Busy(q) /\ hooks'[q].event = hooks[q].event
      /\ Copies' \subseteq ({file'} \ {Null}) \cup (Copies \cup {s})
  BY <1>1, Advances
<1>3. \A x \in Copies' : x \in Copies \/ x \in {s, Fresh}
  BY <1>2
<1> QED BY <1>2, <1>3, OldComes DEF Comes, Moved

\* A state that has no pending responses and no tools but those of another.
LEMMA LessDerived ==
  ASSUME NEW p, NEW y \in Copies, NEW s, s.active \subseteq y.active,
         DOMAIN s.pending = {} \/ s.pending = y.pending
  PROVE  Derived(p, s)
BY DEF Derived

LEMMA StopComes ==
  ASSUME TypeInv, NEW p \in Procs, hooks' = [hooks EXCEPT ![p] = Idle], UNCHANGED file
  PROVE  Comes(p)
<1>1. DOMAIN hooks' = Procs /\ ~Busy(p)' /\ \A q \in Procs : q # p => hooks'[q] = hooks[q]
  BY DEF TypeInv, Shape, Busy
<1>2. \A q \in Procs : Busy(q)' => Busy(q) /\ hooks'[q] = hooks[q]
  BY <1>1 DEF Busy
<1>3. Copies' \subseteq Copies
  BY <1>2 DEF Copies
<1> QED BY <1>1, <1>2, <1>3, OldComes DEF Comes

LEMMA StepComes ==
  ASSUME TypeInv, NEW p \in Procs, Step(p)
  PROVE  Comes(p) /\ UNCHANGED cursor /\ upset \subseteq upset'
<1>0. UNCHANGED cursor /\ upset \subseteq upset'
  BY DEF Step, ReadState, RecordSession, RecordTurn, RecordPlaceholder, RecordToolCall, ScanTranscript,
         ScanSqlite, ScanFails, RecordLlmMessage, CloseTurn, WriteState, CaptureGit, EndSession,
         DeleteState, Abandon, Mishap, trouble
<1>1. UNCHANGED <<written, prompts>> /\ file \in Copies \cup {Null} /\ UNCHANGED cursor
  BY <1>0 DEF cursor, Copies
<1>2. CASE ReadState(p)
  <2>1. Doing(p, "read") /\ Busy(p) /\ Hook(p) /\ hooks[p].state \in SessionStates
    BY <1>2, HookFacts DEF ReadState, Doing
  <2>2. CASE Missing(p)
    <3>1. CASE hooks[p].event \in {"beforeSubmitPrompt", "sessionEnd"}
      <4>1. Advance(p, Fresh) /\ file' \in {file, Fresh}
        BY <2>2, <3>1 DEF Missing
      <4>2. file' \in Copies \cup {Fresh, Null, Fresh}
        BY <1>1, <4>1
      <4>3. Comes(p)
        BY <1>1, <2>1, <4>1, <4>2, FreshState, OldComes, AdvanceComes
      <4> QED BY <1>0, <4>3
    <3>2. CASE hooks[p].event \notin {"beforeSubmitPrompt", "sessionEnd"}
      <4>1. hooks' = [hooks EXCEPT ![p] = Idle] /\ UNCHANGED file
        BY <2>2, <3>2 DEF Missing
      <4> QED BY <4>1, StopComes, <1>0
    <3> QED BY <1>0, <3>1, <3>2
  <2>3. CASE file # Null /\ UNCHANGED <<session, file>> /\
           Advance(p, IF hooks[p].event = "preToolUse" THEN Buffered(p, file) ELSE file)
    <3>1. file \in SessionStates /\ file \in Copies /\ Distinct(file) BY <2>3, FileFacts
    <3>2. CASE hooks[p].event = "preToolUse"
      <4>1. hooks[p].tool \in Tools BY <2>1, <3>2 DEF Hook
      <4> DEFINE b == Buffered(p, file)
      <4>2. b \in SessionStates /\ Advance(p, b)
        BY <2>3, <3>1, <3>2, <4>1, BufferFacts
      <4>3. /\ b.pending = file.pending
            /\ \A a \in b.active : a \in file.active \/
                 a = [id |-> HarnessToolCallId(hooks[p].tool, file.toolIndex), tool |-> hooks[p].tool]
        BY <3>1, <4>1, BufferFacts
      <4>4. file.toolIndex \in Nat BY <3>1 DEF SessionStates
      <4>5. Derived(p, b)
        BY <3>1, <4>1, <4>3, <4>4 DEF Derived
      <4> HIDE DEF b
      <4> QED BY <1>1, <2>1, <2>3, <4>2, <4>5, AdvanceComes, <1>0
    <3>3. CASE hooks[p].event # "preToolUse"
      <4>1. Advance(p, file) /\ Derived(p, file) BY <2>3, <3>1, <3>3, OldComes
      <4> QED BY <1>1, <2>1, <2>3, <3>1, <4>1, AdvanceComes, <1>0
    <3> QED BY <3>2, <3>3
  <2> QED BY <1>2, <2>2, <2>3 DEF ReadState
<1>3. CASE RecordSession(p)
  BY <1>0, <1>1, <1>3, FreshState, OldComes, AdvanceComes DEF RecordSession
<1>4. CASE RecordTurn(p)
  <2> DEFINE i == hooks[p].state.turnIndex + 1
             id == HarnessTurnId(hooks[p].generation, i)
             s == [hooks[p].state EXCEPT !.turnIndex = i, !.turn = id]
  <2>1. Doing(p, "turn") /\ Advance(p, s) /\ UNCHANGED file
    BY <1>4 DEF RecordTurn
  <2>2. hooks[p].state \in SessionStates /\ hooks[p].state \in Copies /\ hooks[p].generation = prompts /\ prompts \in Nat
    BY <2>1, AtWork
  <2>3. i \in Nat /\ id \in TurnIds
    BY <2>2 DEF SessionStates, HarnessTurnId, TurnIds
  <2> HIDE DEF i, id
  <2>4. s \in SessionStates /\ s.active = hooks[p].state.active /\ s.pending = hooks[p].state.pending
    BY <2>2, <2>3 DEF SessionStates
  <2>5. Derived(p, s)
    BY <2>2, <2>4, LessDerived
  <2> HIDE DEF s
  <2> QED BY <1>0, <1>1, <2>1, <2>4, <2>5, AdvanceComes
<1>5. CASE RecordPlaceholder(p)
  <2> DEFINE state == hooks[p].state
             id == HarnessMessageId(hooks[p].generation, state.messageIndex)
             s == [state EXCEPT !.messageIndex = @ + 1, !.pending = Append(@, id)]
  <2>1. Doing(p, "placeholder") /\ Advance(p, s) /\ UNCHANGED file
    BY <1>5 DEF RecordPlaceholder
  <2>2. state \in SessionStates /\ state \in Copies /\ hooks[p].generation = prompts /\ prompts \in Nat
        /\ Busy(p) /\ At(p) = "placeholder"
    BY <2>1, AtWork
  <2>3. id \in MessageIds /\ id = HarnessMessageId(prompts, state.messageIndex)
    BY <2>2 DEF SessionStates, HarnessMessageId, MessageIds
  <2> HIDE DEF id
  <2>p. state \in SessionStates /\ id \in MessageIds
    BY <2>2, <2>3
  <2>a. /\ s \in SessionStates /\ s.active = state.active
        /\ \A k \in DOMAIN s.pending :
             s.pending[k] = id \/ (k \in DOMAIN state.pending /\ s.pending[k] = state.pending[k])
    <3> HIDE DEF state
    <3> QED BY <2>p, PendingFacts
  <2> HIDE DEF s
  <2>5. Derived(p, s)
    BY <2>2, <2>3, <2>a DEF Derived
  <2> QED BY <1>0, <1>1, <2>1, <2>a, <2>5, AdvanceComes
<1>6. CASE RecordToolCall(p)
  <2> DEFINE state == hooks[p].state
             id == HarnessToolCallId(hooks[p].tool, IF state.toolIndex = 0 THEN 0 ELSE state.toolIndex - 1)
             mine == {a \in state.active : a.id = id}
             s == [state EXCEPT !.active = @ \ mine]
  <2>1. Doing(p, "tool") /\ Advance(p, s) /\ UNCHANGED file
    BY <1>6 DEF RecordToolCall
  <2>2. state \in SessionStates /\ state \in Copies
    BY <2>1, AtWork
  <2>3. state.active \in SUBSET [id : CallIds, tool : Tools]
    BY <2>2 DEF SessionStates
  <2> HIDE DEF id
  <2>4. s \in SessionStates /\ s.active \subseteq state.active /\ s.pending = state.pending
    BY <2>2, <2>3 DEF SessionStates
  <2> HIDE DEF s
  <2>5. Derived(p, s)
    BY <2>2, <2>4, LessDerived
  <2> QED BY <1>0, <1>1, <2>1, <2>4, <2>5, AdvanceComes
<1>7. CASE Scans(p)
  <2>1. PICK r : Doing(p, "scan") /\ Backfill(p, r) /\ Records(r) /\ UNCHANGED file
    BY <1>7, ScanFacts DEF Scans
  <2>2. /\ Moved(p, hooks[p].state, r)
        /\ \A q \in Procs : Busy(q)' => Busy(q) /\ hooks'[q].event = hooks[q].event
        /\ Copies' \subseteq ({file'} \ {Null}) \cup Copies
    BY <1>1, <2>1, Backfills DEF TypeInv
  <2>3. Copies' \subseteq Copies
    BY <1>1, <2>1, <2>2
  <2> QED BY <1>0, <1>7, <2>2, <2>3, OldComes DEF Comes, Moved
<1>8. CASE RecordLlmMessage(p)
  <2>1. PICK m \in DOMAIN hooks[p].records :
          Busy(p)' => /\ hooks'[p].tool = hooks[p].tool
                      /\ hooks'[p].records = Only(hooks[p].records, DOMAIN hooks[p].records \ {m})
    BY <1>8, Writes DEF TypeInv
  <2>2. /\ DOMAIN hooks' = Procs /\ Copies' \subseteq Copies
        /\ \A q \in Procs : Busy(q)' => Busy(q) /\ hooks'[q].event = hooks[q].event
        /\ \A q \in Procs : q # p => hooks'[q] = hooks[q]
    BY <1>8, Writes DEF TypeInv
  <2> QED BY <1>0, <2>1, <2>2, OldComes DEF Comes, Only
<1>9. CASE CloseTurn(p)
  <2> DEFINE s == [hooks[p].state EXCEPT !.turn = Null, !.active = {}, !.pending = <<>>]
  <2>1. /\ Doing(p, "close") /\ Advance(p, s) /\ UNCHANGED file
        /\ s \in SessionStates /\ s.active = {} /\ DOMAIN s.pending = {}
    BY <1>9, CloseFacts
  <2> HIDE DEF s
  <2>2. Derived(p, s) BY <2>1 DEF Derived
  <2> QED BY <1>0, <1>1, <2>1, <2>2, AdvanceComes
<1>10. ASSUME NEW step \in {"write", "git", "end", "delete"}, Doing(p, step), Advance(p, hooks[p].state),
              file' \in {file, hooks[p].state, Null}
       PROVE  Comes(p)
  <2> DEFINE s == hooks[p].state
  <2>1. s \in SessionStates /\ s \in Copies
    BY <1>10, AtWork
  <2>2. Derived(p, s) /\ Advance(p, s) /\ file' \in Copies \cup {s, Null, Fresh} BY <1>1, <1>10, <2>1, OldComes
  <2> HIDE DEF s
  <2> QED BY <1>1, <1>10, <2>1, <2>2, AdvanceComes
<1>11. CASE WriteState(p) \/ CaptureGit(p) \/ EndSession(p) \/ DeleteState(p)
  BY <1>0, <1>10, <1>11 DEF WriteState, CaptureGit, EndSession, DeleteState
<1>12. CASE Abandon(p)
  BY <1>0, <1>12, StopComes DEF Abandon
<1> QED BY <1>2, <1>3, <1>4, <1>5, <1>6, <1>7, <1>8, <1>9, <1>11, <1>12 DEF Step, Scans

\* A hook of event e begins.
Opens(p, e, t) ==
  /\ ~Busy(p) /\ Busy(p)' /\ ~Began(p)'
  /\ hooks'[p].event = e /\ hooks'[p].tool = t /\ hooks'[p].state = Fresh
  /\ DOMAIN hooks'[p].records = {}
  /\ DOMAIN hooks' = Procs
  /\ \A q \in Procs : q # p => hooks'[q] = hooks[q]
  /\ Copies' \subseteq Copies \cup {Fresh}

\* What Cursor does when it begins.
Causes(p, e, t) ==
  \/ Begin(p) /\ e = "sessionStart" /\ t = Null
  \/ Prompt(p) /\ e = "beforeSubmitPrompt" /\ t = Null
  \/ Respond(p) /\ e = "afterAgentResponse" /\ t = Null
  \/ SubagentEnds(p) /\ e = "subagentStop" /\ t = Null
  \/ Answered(p) /\ e = "stop" /\ t = Null
  \/ End(p) /\ e = "sessionEnd" /\ t = Null
  \/ t \in Tools /\ ToolBegins(p, t) /\ e = "preToolUse"
  \/ t \in Tools /\ ToolEnds(p, t) /\ e \in Ends

LEMMA HarnessOpens ==
  ASSUME TypeInv, Harness
  PROVE  /\ UNCHANGED <<file, session, turns, messages, calls, kind>> /\ upset \subseteq upset'
         /\ \/ (BeginUnseen \/ Interrupt) /\ UNCHANGED hooks /\ UNCHANGED <<prompts, written, blank, issued>>
            \/ \E p \in Procs, e \in DOMAIN Dispatch : \E t : Causes(p, e, t) /\ Opens(p, e, t)
<1> USE DEF store, trouble, cursor, Mishap, Overlap
<1>0. Shape /\ prompts \in Nat /\ written \in Seq(Nat \cup {Null})
  BY DEF TypeInv, Shape
<1>1. ASSUME NEW p \in Procs, NEW e \in DOMAIN Dispatch, NEW t, Run(p, e, t), Causes(p, e, t),
             prompts' \in Nat, Quiet \/ prompts' = prompts, UNCHANGED file,
             DOMAIN written \subseteq DOMAIN written'
      PROVE  Opens(p, e, t)
  <2>1. IF e \in {"preToolUse"} \cup Ends THEN t \in Tools ELSE t = Null
    BY <1>1 DEF Causes, Ends
  <2>2. Copies' \subseteq ({file'} \ {Null}) \cup (Copies \cup {Fresh})
    BY <1>0, <1>1, <2>1, Starts
  <2>3. Copies' \subseteq Copies \cup {Fresh}
    BY <1>1, <2>2 DEF Copies
  <2> QED BY <1>0, <1>1, <2>1, <2>3, Starts DEF Opens
<1>2. ASSUME NEW p \in Procs, Begin(p)
      PROVE  UNCHANGED <<file, store, kind>> /\ upset \subseteq upset' /\ Opens(p, "sessionStart", Null)
  BY <1>0, <1>1, <1>2, Events DEF Begin, Causes
<1>3. ASSUME NEW p \in Procs, Prompt(p)
      PROVE  UNCHANGED <<file, store, kind>> /\ upset \subseteq upset' /\ Opens(p, "beforeSubmitPrompt", Null)
  <2>1. /\ Run(p, "beforeSubmitPrompt", Null) /\ UNCHANGED <<file, store, kind, written, upset>>
        /\ prompts' = prompts + 1 /\ Quiet
    BY <1>3 DEF Prompt
  <2> QED BY <1>0, <1>1, <1>3, <2>1, Events DEF Causes
<1>4. ASSUME NEW p \in Procs, Respond(p)
      PROVE  UNCHANGED <<file, store, kind>> /\ upset \subseteq upset' /\ Opens(p, "afterAgentResponse", Null)
  <2>1. written' = Append(written, prompts) BY <1>4 DEF Respond
  <2>2. DOMAIN written \subseteq DOMAIN written' BY <1>0, <2>1, AnotherMessage
  <2>3. Run(p, "afterAgentResponse", Null) /\ UNCHANGED <<file, store, kind, prompts>> /\ upset \subseteq upset'
    BY <1>4 DEF Respond
  <2> QED BY <1>0, <1>1, <1>4, <2>2, <2>3, Events DEF Causes
<1>5. ASSUME NEW p \in Procs, SubagentEnds(p)
      PROVE  UNCHANGED <<file, store, kind>> /\ upset \subseteq upset' /\ Opens(p, "subagentStop", Null)
  <2>1. written' = Append(written, Null) BY <1>5 DEF SubagentEnds
  <2>2. DOMAIN written \subseteq DOMAIN written' BY <1>0, <2>1, AnotherMessage
  <2>3. Run(p, "subagentStop", Null) /\ UNCHANGED <<file, store, kind, prompts>> /\ upset \subseteq upset'
    BY <1>5 DEF SubagentEnds
  <2> QED BY <1>0, <1>1, <1>5, <2>2, <2>3, Events DEF Causes
<1>6. ASSUME NEW p \in Procs, Answered(p)
      PROVE  UNCHANGED <<file, store, kind>> /\ upset \subseteq upset' /\ Opens(p, "stop", Null)
  BY <1>0, <1>1, <1>6, Events DEF Answered, Causes
<1>7. ASSUME NEW p \in Procs, End(p)
      PROVE  UNCHANGED <<file, store, kind>> /\ upset \subseteq upset' /\ Opens(p, "sessionEnd", Null)
  BY <1>0, <1>1, <1>7, Events DEF End, Causes
<1>8. ASSUME NEW p \in Procs, NEW t \in Tools, ToolBegins(p, t)
      PROVE  UNCHANGED <<file, store, kind>> /\ upset \subseteq upset' /\ Opens(p, "preToolUse", t)
  <2>1. Run(p, "preToolUse", t) /\ UNCHANGED <<file, store, kind, prompts, written>> /\ upset \subseteq upset'
    BY <1>8 DEF ToolBegins
  <2> QED BY <1>0, <1>1, <1>8, <2>1, Events DEF Causes
<1>9. ASSUME NEW p \in Procs, NEW t \in Tools, ToolEnds(p, t)
      PROVE  /\ UNCHANGED <<file, store, kind>> /\ upset \subseteq upset'
             /\ \E e \in Ends : Opens(p, e, t)
  <2>1. PICK e \in Ends : Run(p, e, t)
    BY <1>9 DEF ToolEnds, Ends
  <2>2. e \in DOMAIN Dispatch BY Events DEF Ends
  <2>3. UNCHANGED <<file, store, kind, prompts, written>> /\ upset \subseteq upset'
    BY <1>9 DEF ToolEnds
  <2> QED BY <1>0, <1>1, <1>9, <2>1, <2>2, <2>3 DEF Causes
<1>10. CASE BeginUnseen BY <1>10 DEF BeginUnseen
<1>11. CASE Interrupt BY <1>11 DEF Interrupt
<1>12. Ends \subseteq DOMAIN Dispatch BY Events DEF Ends
<1>13. CASE \E p \in Procs : Begin(p) \/ Prompt(p) \/ Respond(p) \/ SubagentEnds(p) \/ Answered(p) \/ End(p)
  BY <1>13, <1>2, <1>3, <1>4, <1>5, <1>6, <1>7, Events DEF Causes
<1>14. CASE \E p \in Procs, t \in Tools : ToolBegins(p, t) \/ ToolEnds(p, t)
  BY <1>14, <1>8, <1>9, <1>12, Events DEF Causes
<1> QED BY <1>10, <1>11, <1>13, <1>14 DEF Harness


-----------------------------------------------------------------------------
(* Token counts                                                            *)

Answer(id) == \E m \in DOMAIN written : written[m] # Null /\ id = <<"gen", written[m]>>

\* When entries have the generation's id and counts, records, placeholders and rows
\* with tokens are those of answers.
RowsExact ==
  \A id \in DOMAIN messages : messages[id].tokens # Null => EntryId(messages[id].tokens) = id
HooksExact ==
  \A p \in Procs : Busy(p) =>
    /\ \A m \in DOMAIN hooks[p].records : hooks[p].records[m].id = EntryId(m)
    /\ hooks[p].event = "afterAgentResponse" => Answer(<<"gen", prompts>>)
CopiesExact ==
  \A s \in Copies : \A k \in DOMAIN s.pending : Answer(s.pending[k])
Exact ==
  kind.same /\ kind.named /\ "uncounted" \notin upset =>
    blank = {} /\ RowsExact /\ HooksExact /\ CopiesExact

\* At which event's hooks a step is.
LEMMA Places ==
  ASSUME TypeInv, NEW p \in Procs, Busy(p)
  PROVE  /\ At(p) = "placeholder" => hooks[p].event = "afterAgentResponse"
         /\ At(p) = "turn" => hooks[p].event = "beforeSubmitPrompt"
         /\ At(p) = "tool" => hooks[p].event \in Ends
         /\ At(p) = "close" => hooks[p].event = "stop"
         /\ At(p) \in {"end", "delete"} => hooks[p].event = "sessionEnd"
         /\ At(p) \in {"session", "git"} => hooks[p].event = "sessionStart"
         /\ At(p) \in {"scan", "done"} => hooks[p].event \in Closers
         /\ At(p) = "done" => hooks[p].event = "subagentStop"
         /\ At(p) = "write" => hooks[p].event \in Counting \cup {"sessionStart"}
<1>1. hooks[p].event \in DOMAIN Stages /\ hooks[p].todo \in Stages[hooks[p].event]
  BY HookFacts DEF Hook
<1>2. CASE hooks[p].todo # <<>>
  BY <1>1, <1>2, Handlers DEF Goes, At, Closers
<1>3. CASE hooks[p].todo = <<>>
  BY <1>1, <1>3, Handlers DEF At, Closers
<1> QED BY <1>2, <1>3

\* No placeholder of an answer takes the place of another entry.
LEMMA NothingMoves ==
  ASSUME TypeInv, NEW p \in Procs, Doing(p, "scan"), kind.same, blank = {},
         \A k \in DOMAIN hooks[p].state.pending : Answer(hooks[p].state.pending[k])
  PROVE  \A m \in DOMAIN Entries(TRUE) :
           Correlated(Entries(TRUE), hooks[p].state.pending)[m] = Entries(TRUE)[m]
<1> DEFINE known == hooks[p].state.pending
<1>1. known \in Seq(MessageIds)
  BY AtWork DEF SessionStates
<1>2. Records(Entries(TRUE))
  BY EntryFacts DEF TypeInv
<1>3. ASSUME NEW k \in DOMAIN known
      PROVE  \E l \in DOMAIN Entries(TRUE) : Entries(TRUE)[l].id = known[k]
  <2>1. PICK l \in DOMAIN written : written[l] # Null /\ known[k] = <<"gen", written[l]>>
    BY <1>3 DEF Answer
  <2>2. l \in Counted(TRUE) /\ EntryId(l) = known[k]
    BY <2>1 DEF Counted, EntryId
  <2> QED BY <2>2 DEF Entries
<1> DEFINE entries == Entries(TRUE)
<1> HIDE DEF known, entries
<1>4. Records(entries) /\ known \in Seq(MessageIds)
  BY <1>1, <1>2 DEF entries
<1>5. \A m \in DOMAIN entries :
         \/ Correlated(entries, known)[m] = entries[m]
         \/ \E k \in DOMAIN known : \A l \in DOMAIN entries : entries[l].id # known[k]
  BY <1>4, CorrelatedFacts
<1> QED BY <1>3, <1>5 DEF known, entries

LEMMA StepExact ==
  ASSUME TypeInv, Exact, NEW p \in Procs, Step(p)
  PROVE  Exact'
<1> SUFFICES ASSUME kind'.same, kind'.named, "uncounted" \notin upset'
             PROVE  blank' = {} /\ RowsExact' /\ HooksExact' /\ CopiesExact'
  BY DEF Exact
<1>1. Comes(p) /\ UNCHANGED <<kind, prompts, written, blank>> /\ upset \subseteq upset'
  BY StepComes DEF cursor
<1>2. kind.same /\ kind.named /\ blank = {} /\ RowsExact /\ HooksExact /\ CopiesExact
  BY <1>1 DEF Exact
<1>3. \A m : EntryId(m)' = EntryId(m)
  BY <1>1 DEF EntryId
<1>4. \A id : Answer(id)' <=> Answer(id)
  BY <1>1 DEF Answer
<1>5. ASSUME NEW id \in DOMAIN messages', NEW m, m = messages'[id].tokens, m # Null
      PROVE  EntryId(m)' = id
  <2>1. CASE UNCHANGED messages BY <1>2, <1>3, <1>5, <2>1 DEF RowsExact
  <2>2. CASE RecordPlaceholder(p)
    <3>1. PICK x, turn, of : messages' = Set(messages, x, [turn |-> turn, tokens |-> Null, of |-> of])
      BY <2>2 DEF RecordPlaceholder
    <3>2. id # x BY <1>5, <3>1 DEF Set
    <3>3. id \in DOMAIN messages /\ messages'[id] = messages[id] BY <1>5, <3>1, <3>2 DEF Set
    <3> QED BY <1>2, <1>3, <1>5, <3>3 DEF RowsExact
  <2>3. CASE RecordLlmMessage(p)
    <3>1. PICK l \in DOMAIN hooks[p].records :
            /\ DOMAIN messages' = DOMAIN messages \cup {hooks[p].records[l].id}
            /\ \A x \in DOMAIN messages' \ {hooks[p].records[l].id} : messages'[x] = messages[x]
            /\ messages'[hooks[p].records[l].id].tokens = l
      BY <2>3, RecordFacts
    <3>2. Busy(p) BY <2>3 DEF RecordLlmMessage
    <3>3. hooks[p].records[l].id = EntryId(l) BY <1>2, <3>1, <3>2 DEF HooksExact
    <3>4. CASE id = hooks[p].records[l].id BY <1>3, <1>5, <3>1, <3>3, <3>4
    <3>5. CASE id # hooks[p].records[l].id
      <4>1. id \in DOMAIN messages /\ messages'[id] = messages[id] BY <1>5, <3>1, <3>5
      <4> QED BY <1>2, <1>3, <1>5, <4>1 DEF RowsExact
    <3> QED BY <3>4, <3>5
  <2>4. UNCHANGED messages \/ RecordPlaceholder(p) \/ RecordLlmMessage(p)
    BY DEF Step, ReadState, RecordSession, RecordTurn, RecordToolCall, ScanTranscript, ScanSqlite,
           ScanFails, CloseTurn, WriteState, CaptureGit, EndSession, DeleteState, Abandon, store
  <2> QED BY <2>1, <2>2, <2>3, <2>4
<1>6. ASSUME NEW q \in Procs, Busy(q)', NEW m \in DOMAIN hooks'[q].records
      PROVE  hooks'[q].records[m].id = EntryId(m)
  <2>1. CASE q # p BY <1>1, <1>2, <1>6, <2>1 DEF Comes, HooksExact
  <2>2. CASE q = p /\ ~Scans(p)
    BY <1>1, <1>2, <1>6, <2>2 DEF Comes, HooksExact
  <2>3. CASE q = p /\ Scans(p)
    <3>1. PICK r : /\ Doing(p, "scan") /\ Backfill(p, r) /\ Records(r)
                   /\ \/ r = Entries(FALSE) \/ r = Bubbles \/ r = <<>>
                      \/ r = Correlated(Entries(TRUE), hooks[p].state.pending)
      BY <2>3, ScanFacts DEF Scans
    <3>2. hooks'[p].records = r
      BY <1>1, <1>6, <2>3, <3>1, Backfills DEF TypeInv, Moved
    <3>3. hooks[p].state \in Copies /\ hooks[p].state.pending \in Seq(MessageIds)
      BY <3>1, AtWork DEF SessionStates
    <3>4. CASE r = Correlated(Entries(TRUE), hooks[p].state.pending)
      <4>1. m \in DOMAIN Entries(TRUE)
        <5>1. Records(Entries(TRUE)) BY EntryFacts DEF TypeInv
        <5>2. DOMAIN Correlated(Entries(TRUE), hooks[p].state.pending) = DOMAIN Entries(TRUE)
          BY <3>3, <5>1, CorrelatedFacts
        <5> QED BY <1>6, <2>3, <3>2, <3>4, <5>2
      <4>2. r[m] = Entries(TRUE)[m]
        BY <1>2, <3>1, <3>3, <3>4, <4>1, NothingMoves DEF CopiesExact
      <4> QED BY <2>3, <3>2, <4>1, <4>2 DEF Entries
    <3>5. CASE r = <<>>
      BY <1>6, <2>3, <3>2, <3>5
    <3>6. CASE r = Entries(FALSE)
      BY <1>6, <2>3, <3>2, <3>6 DEF Entries
    <3>7. CASE r = Bubbles
      BY <1>6, <2>3, <3>2, <3>7 DEF Bubbles
    <3> QED BY <3>1, <3>4, <3>5, <3>6, <3>7
  <2> QED BY <2>1, <2>2, <2>3
<1>7. ASSUME NEW q \in Procs, Busy(q)', hooks'[q].event = "afterAgentResponse"
      PROVE  Answer(<<"gen", prompts>>)
  <2>1. Busy(q) /\ hooks[q].event = "afterAgentResponse" BY <1>1, <1>7 DEF Comes
  <2> QED BY <1>2, <2>1 DEF HooksExact
<1>8. ASSUME NEW s \in Copies', NEW k \in DOMAIN s.pending
      PROVE  Answer(s.pending[k])
  <2>1. CASE \E y \in Copies : \E l \in DOMAIN y.pending : s.pending[k] = y.pending[l]
    BY <1>2, <2>1 DEF CopiesExact
  <2>2. CASE At(p) = "placeholder" /\ Busy(p) /\ s.pending[k] = HarnessMessageId(prompts, hooks[p].state.messageIndex)
    BY <1>2, <2>2, Places DEF HarnessMessageId, HooksExact
  <2> QED BY <1>1, <1>8, <2>1, <2>2 DEF Comes, Derived
<1>9. RowsExact' BY <1>5 DEF RowsExact
<1>10. HooksExact'
  <2>1. Answer(<<"gen", prompts>>)' <=> Answer(<<"gen", prompts>>) BY <1>1 DEF Answer
  <2> QED BY <1>1, <1>3, <1>6, <1>7, <2>1 DEF HooksExact
<1>11. CopiesExact' BY <1>4, <1>8 DEF CopiesExact
<1> QED BY <1>1, <1>2, <1>9, <1>10, <1>11

LEMMA HarnessExact ==
  ASSUME TypeInv, Exact, Harness
  PROVE  Exact'
<1> SUFFICES ASSUME kind'.same, kind'.named, "uncounted" \notin upset'
             PROVE  blank' = {} /\ RowsExact' /\ HooksExact' /\ CopiesExact'
  BY DEF Exact
<1>1. UNCHANGED <<file, messages, kind>> /\ upset \subseteq upset'
  BY HarnessOpens
<1>2. kind.same /\ kind.named /\ blank = {} /\ RowsExact /\ HooksExact /\ CopiesExact
  BY <1>1 DEF Exact
<1>3. Shape /\ Linked /\ prompts \in Nat /\ prompts # Null
  BY NullAssumption DEF TypeInv, Shape
<1>4. CASE (BeginUnseen \/ Interrupt) /\ UNCHANGED hooks /\ UNCHANGED <<prompts, written, blank, issued>>
  <2>1. \A m : EntryId(m)' = EntryId(m) BY <1>1, <1>4 DEF EntryId
  <2>2. \A id : Answer(id)' <=> Answer(id) BY <1>4 DEF Answer
  <2>3. Answer(<<"gen", prompts>>)' <=> Answer(<<"gen", prompts>>) BY <1>4 DEF Answer
  <2>4. Copies' = Copies /\ \A p \in Procs : Busy(p)' <=> Busy(p) BY <1>1, <1>4 DEF Copies, Busy
  <2> QED BY <1>1, <1>2, <1>4, <2>1, <2>2, <2>3, <2>4 DEF RowsExact, HooksExact, CopiesExact
<1>5. ASSUME NEW p \in Procs, NEW e \in DOMAIN Dispatch, NEW t, Causes(p, e, t), Opens(p, e, t)
      PROVE  blank' = {} /\ RowsExact' /\ HooksExact' /\ CopiesExact'
  <2>1. /\ blank' = blank /\ DOMAIN written \subseteq DOMAIN written'
        /\ \A m \in DOMAIN written : written'[m] = written[m]
        /\ Quiet \/ prompts' = prompts
        /\ e = "afterAgentResponse" => Answer(<<"gen", prompts>>)' /\ prompts' = prompts
    <3>1. CASE Respond(p)
      <4>1. /\ written' = Append(written, prompts) /\ prompts' = prompts /\ blank' = blank
        BY <3>1 DEF Respond, Mishap
      <4>2. /\ DOMAIN written \subseteq DOMAIN written'
            /\ \A m \in DOMAIN written : written'[m] = written[m]
            /\ Len(written) + 1 \in DOMAIN written' /\ written'[Len(written) + 1] = prompts
        BY <1>3, <4>1, AnotherMessage
      <4>3. Answer(<<"gen", prompts>>)' BY <1>3, <4>1, <4>2 DEF Answer
      <4> QED BY <4>1, <4>2, <4>3
    <3>2. CASE SubagentEnds(p) /\ e = "subagentStop"
      <4>1. written' = Append(written, Null) /\ UNCHANGED <<prompts, blank>>
        BY <3>2 DEF SubagentEnds
      <4> QED BY <1>3, <3>2, <4>1, AnotherMessage
    <3>3. CASE ~Respond(p) /\ ~(SubagentEnds(p) /\ e = "subagentStop")
      BY <1>5, <3>3 DEF Causes, Begin, Prompt, Answered, End, ToolBegins, ToolEnds, cursor, Ends
    <3> QED BY <3>1, <3>2, <3>3
  <2>2. \A m \in DOMAIN written : EntryId(m)' = EntryId(m)
    BY <1>1, <2>1 DEF EntryId
  <2>3. \A id : Answer(id) => Answer(id)'
    BY <2>1 DEF Answer
  <2>4. \A id \in DOMAIN messages : messages[id].tokens \in DOMAIN written \cup {Null}
    BY <1>3 DEF Linked
  <2>5. HooksExact'
    <3> SUFFICES ASSUME NEW q \in Procs, Busy(q)'
                 PROVE  /\ \A m \in DOMAIN hooks'[q].records : hooks'[q].records[m].id = EntryId(m)'
                        /\ hooks'[q].event = "afterAgentResponse" => Answer(<<"gen", prompts>>)'
      BY DEF HooksExact
    <3>1. CASE q = p BY <1>5, <2>1, <3>1 DEF Opens
    <3>2. CASE q # p
      <4>1. hooks'[q] = hooks[q] /\ Busy(q) BY <1>5, <3>2 DEF Opens, Busy
      <4>2. prompts' = prompts BY <2>1, <4>1 DEF Quiet
      <4>3. \A m \in DOMAIN hooks[q].records : m \in DOMAIN written
        BY <1>3, <4>1 DEF Shape, Hook
      <4>4. Answer(<<"gen", prompts>>) => Answer(<<"gen", prompts>>)'
        BY <2>1, <4>2 DEF Answer
      <4> QED BY <1>2, <2>2, <4>1, <4>3, <4>4 DEF HooksExact
    <3> QED BY <3>1, <3>2
  <2>6. CopiesExact'
    BY <1>2, <1>5, <2>3, FreshState DEF Opens, CopiesExact
  <2>7. RowsExact'
    BY <1>1, <1>2, <2>2, <2>4 DEF RowsExact
  <2> QED BY <1>2, <2>1, <2>5, <2>6, <2>7
<1> QED BY <1>4, <1>5, HarnessOpens

LEMMA StutterExact ==
  ASSUME Exact, UNCHANGED vars
  PROVE  Exact'
<1>1. UNCHANGED <<file, hooks, messages, kind, prompts, written, blank, upset>>
  BY DEF vars, store, cursor, trouble
<1>2. \A m : EntryId(m)' = EntryId(m) BY <1>1 DEF EntryId
<1>3. \A id : Answer(id)' <=> Answer(id) BY <1>1 DEF Answer
<1>4. Copies' = Copies /\ \A p \in Procs : Busy(p)' <=> Busy(p) BY <1>1 DEF Copies, Busy
<1>5. Answer(<<"gen", prompts>>)' <=> Answer(<<"gen", prompts>>) BY <1>1 DEF Answer
<1> QED BY <1>1, <1>2, <1>3, <1>4, <1>5 DEF Exact, RowsExact, HooksExact, CopiesExact

LEMMA ExactAlways == Spec => []Exact
<1>1. Init => Exact
  <2> SUFFICES ASSUME Init PROVE Exact
    OBVIOUS
  <2>1. (\A p \in Procs : ~Busy(p)) /\ Copies = {}
    BY DEF Init, Busy, Copies
  <2> QED BY <2>1 DEF Init, Exact, RowsExact, HooksExact, CopiesExact
<1>2. TypeInv /\ Exact /\ [Next]_vars => Exact'
  BY StepExact, HarnessExact, StutterExact DEF Next
<1> QED BY <1>1, <1>2, CursorTypes, PTL DEF Spec

\* TokensOfGeneration: whatever placeholders are lost or read twice, a response's
\* row never gets the tokens of another generation.
THEOREM TokensOfTheirGeneration == Spec => []TokensOfGeneration
<1>1. Exact => TokensOfGeneration
  BY DEF Exact, RowsExact, TokensOfGeneration
<1> QED BY <1>1, ExactAlways, PTL

-----------------------------------------------------------------------------
(* The steps by what they do to the state that a hook has                  *)

\* The hook of p goes on with state s, and keeps its records.
Continues(p, s) ==
  /\ Busy(p) /\ Hook(p) /\ hooks[p].state \in SessionStates /\ hooks[p].state \in Copies
  /\ DOMAIN hooks[p].records = {}
  /\ s \in SessionStates /\ Moved(p, s, hooks[p].records)

Reads(p, s) ==
  /\ ReadState(p) /\ At(p) = "read"
  /\ \/ file = Null /\ s = Fresh /\ hooks[p].event = "beforeSubmitPrompt" /\ UNCHANGED file
     \/ file = Null /\ s = Fresh /\ hooks[p].event = "sessionEnd" /\ file' = Fresh
     \/ /\ file # Null /\ file \in SessionStates /\ UNCHANGED file
        /\ s = IF hooks[p].event = "preToolUse" THEN Buffered(p, file) ELSE file

Worked(p, s) ==
  LET state == hooks[p].state IN
  \/ Reads(p, s)
  \/ RecordSession(p) /\ At(p) = "session" /\ s = Fresh
  \/ /\ RecordTurn(p) /\ At(p) = "turn"
     /\ s = [state EXCEPT !.turnIndex = @ + 1, !.turn = HarnessTurnId(prompts, state.turnIndex + 1)]
  \/ /\ RecordPlaceholder(p) /\ At(p) = "placeholder"
     /\ LET id == HarnessMessageId(prompts, state.messageIndex) IN
          id \in MessageIds /\ s = [state EXCEPT !.messageIndex = @ + 1, !.pending = Append(@, id)]
  \/ /\ RecordToolCall(p) /\ At(p) = "tool"
     /\ LET id == HarnessToolCallId(hooks[p].tool, IF state.toolIndex = 0 THEN 0 ELSE state.toolIndex - 1)
        IN s = [state EXCEPT !.active = @ \ {a \in state.active : a.id = id}]
  \/ CloseTurn(p) /\ At(p) = "close" /\ s = [state EXCEPT !.turn = Null, !.active = {}, !.pending = <<>>]
  \/ WriteState(p) /\ At(p) = "write" /\ s = state
  \/ CaptureGit(p) /\ At(p) = "git" /\ s = state
  \/ EndSession(p) /\ At(p) = "end" /\ s = state
  \/ DeleteState(p) /\ At(p) = "delete" /\ s = state

\* The hook of p ends without having done anything.
Quits(p) ==
  /\ hooks' = [hooks EXCEPT ![p] = Idle] /\ ~Busy(p)' /\ Busy(p)
  /\ UNCHANGED <<file, session, turns, messages, calls>>
  /\ \/ "abandoned" \in upset'
     \/ At(p) = "read" /\ file = Null /\ hooks[p].event \notin {"beforeSubmitPrompt", "sessionEnd"}

LEMMA Works ==
  ASSUME TypeInv, NEW p \in Procs, Step(p)
  PROVE  \/ Quits(p) \/ Scans(p) \/ RecordLlmMessage(p)
         \/ \E s : Continues(p, s) /\ Worked(p, s)
<1>1. Shape /\ UNCHANGED <<written, prompts>>
  BY StepComes DEF TypeInv, cursor
<1>2. ASSUME NEW step, Doing(p, step), NEW s \in SessionStates, Advance(p, s)
      PROVE  Continues(p, s) /\ At(p) = step
  <2>1. /\ Busy(p) /\ At(p) = step /\ Hook(p) /\ DOMAIN hooks[p].records = {}
        /\ Moved(p, s, hooks[p].records)
    BY <1>1, <1>2, Advances
  <2> QED BY <2>1, HookFacts DEF Continues
<1>3. ASSUME NEW step, Doing(p, step)
      PROVE  /\ hooks[p].state \in SessionStates /\ hooks[p].generation = prompts /\ prompts \in Nat
             /\ Busy(p) /\ At(p) = step /\ Hook(p)
  BY <1>3, HookFacts DEF Doing, At, Point
<1>4. CASE ReadState(p)
  <2>1. Doing(p, "read") BY <1>4 DEF ReadState
  <2>2. Busy(p) /\ Hook(p) /\ At(p) = "read" BY <1>3, <2>1
  <2>3. CASE file = Null /\ hooks[p].event = "beforeSubmitPrompt"
    <3>1. Advance(p, Fresh) /\ UNCHANGED file BY <1>4, <2>3 DEF ReadState, Missing
    <3>2. Continues(p, Fresh) BY <1>2, <2>1, <3>1, FreshState
    <3> QED BY <1>4, <2>2, <2>3, <3>1, <3>2 DEF Worked, Reads
  <2>4. CASE file = Null /\ hooks[p].event = "sessionEnd"
    <3>1. Advance(p, Fresh) /\ file' = Fresh BY <1>4, <2>4 DEF ReadState, Missing
    <3>2. Continues(p, Fresh) BY <1>2, <2>1, <3>1, FreshState
    <3> QED BY <1>4, <2>2, <2>4, <3>1, <3>2 DEF Worked, Reads
  <2>5. CASE file = Null /\ hooks[p].event \notin {"beforeSubmitPrompt", "sessionEnd"}
    <3>1. hooks' = [hooks EXCEPT ![p] = Idle] /\ UNCHANGED <<file, session, turns, messages, calls>>
      BY <1>4, <2>5 DEF ReadState, Missing
    <3>2. ~Busy(p)' BY <1>1, <3>1 DEF Busy, Shape
    <3> QED BY <2>2, <2>5, <3>1, <3>2 DEF Quits
  <2>6. CASE file # Null
    <3> DEFINE s == IF hooks[p].event = "preToolUse" THEN Buffered(p, file) ELSE file
    <3>1. Advance(p, s) /\ UNCHANGED file BY <1>4, <2>6 DEF ReadState, Missing
    <3>2. file \in SessionStates /\ Distinct(file) BY <2>6, FileFacts
    <3>3. s \in SessionStates
      <4>1. CASE hooks[p].event = "preToolUse"
        <5>1. hooks[p].tool \in Tools BY <2>2, <4>1 DEF Hook
        <5> QED BY <3>2, <4>1, <5>1, BufferFacts
      <4> QED BY <3>2, <4>1
    <3> HIDE DEF s
    <3>4. Continues(p, s) BY <1>2, <2>1, <3>1, <3>3
    <3>5. Reads(p, s) BY <1>4, <2>2, <2>6, <3>1, <3>2 DEF Reads, s
    <3> QED BY <3>4, <3>5 DEF Worked
  <2> QED BY <2>3, <2>4, <2>5, <2>6
<1>5. CASE RecordSession(p)
  BY <1>2, <1>5, FreshState DEF RecordSession, Worked
<1>6. CASE RecordTurn(p)
  <2> DEFINE state == hooks[p].state
             id == HarnessTurnId(hooks[p].generation, state.turnIndex + 1)
             s == [state EXCEPT !.turnIndex = state.turnIndex + 1, !.turn = id]
             t == [state EXCEPT !.turnIndex = @ + 1, !.turn = HarnessTurnId(prompts, state.turnIndex + 1)]
  <2>1. Doing(p, "turn") /\ Advance(p, s) BY <1>6 DEF RecordTurn
  <2>2. state \in SessionStates /\ hooks[p].generation = prompts /\ prompts \in Nat BY <1>3, <2>1
  <2>3. state.turnIndex + 1 \in Nat /\ id \in TurnIds
    BY <2>2 DEF SessionStates, HarnessTurnId, TurnIds
  <2>4. s \in SessionStates /\ s = t
    <3> HIDE DEF id
    <3>1. s \in SessionStates BY <2>2, <2>3 DEF SessionStates
    <3>2. id = HarnessTurnId(prompts, state.turnIndex + 1) BY <2>2 DEF id
    <3> QED BY <2>2, <3>1, <3>2 DEF SessionStates
  <2> HIDE DEF s
  <2>5. Continues(p, s) /\ At(p) = "turn" BY <1>2, <2>1, <2>4
  <2> QED BY <1>6, <2>4, <2>5 DEF Worked
<1>7. CASE RecordPlaceholder(p)
  <2> DEFINE state == hooks[p].state
             id == HarnessMessageId(hooks[p].generation, state.messageIndex)
             s == [state EXCEPT !.messageIndex = @ + 1, !.pending = Append(@, id)]
  <2>1. Doing(p, "placeholder") /\ Advance(p, s) BY <1>7 DEF RecordPlaceholder
  <2>2. state \in SessionStates /\ hooks[p].generation = prompts /\ prompts \in Nat BY <1>3, <2>1
  <2>3. id \in MessageIds /\ id = HarnessMessageId(prompts, state.messageIndex)
    BY <2>2 DEF SessionStates, HarnessMessageId, MessageIds
  <2>4. s \in SessionStates
    <3> HIDE DEF id, state
    <3>1. state \in SessionStates /\ id \in MessageIds BY <2>2, <2>3
    <3> QED BY <3>1, PendingFacts
  <2>5. Continues(p, s) /\ At(p) = "placeholder"
    <3> HIDE DEF s
    <3> QED BY <1>2, <2>1, <2>4
  <2> QED BY <1>7, <2>3, <2>5 DEF Worked
<1>8. CASE RecordToolCall(p)
  <2> DEFINE state == hooks[p].state
             id == HarnessToolCallId(hooks[p].tool, IF state.toolIndex = 0 THEN 0 ELSE state.toolIndex - 1)
             s == [state EXCEPT !.active = @ \ {a \in state.active : a.id = id}]
  <2>1. Doing(p, "tool") /\ Advance(p, s) BY <1>8 DEF RecordToolCall
  <2>2. state \in SessionStates BY <1>3, <2>1
  <2>3. s \in SessionStates
    <3> HIDE DEF id
    <3>1. state.active \in SUBSET [id : CallIds, tool : Tools] BY <2>2 DEF SessionStates
    <3> QED BY <2>2, <3>1 DEF SessionStates
  <2>5. Continues(p, s) /\ At(p) = "tool"
    <3> HIDE DEF s
    <3> QED BY <1>2, <2>1, <2>3
  <2> QED BY <1>8, <2>5 DEF Worked
<1>9. CASE CloseTurn(p)
  <2> DEFINE s == [hooks[p].state EXCEPT !.turn = Null, !.active = {}, !.pending = <<>>]
  <2>1. Doing(p, "close") /\ Advance(p, s) /\ s \in SessionStates BY <1>9, CloseFacts
  <2>2. Continues(p, s) /\ At(p) = "close"
    <3> HIDE DEF s
    <3> QED BY <1>2, <2>1
  <2> QED BY <1>9, <2>2 DEF Worked
<1>10. CASE WriteState(p)
  BY <1>2, <1>3, <1>10 DEF WriteState, Worked
<1>11. CASE CaptureGit(p)
  BY <1>2, <1>3, <1>11 DEF CaptureGit, Worked
<1>12. CASE EndSession(p)
  BY <1>2, <1>3, <1>12 DEF EndSession, Worked
<1>13. CASE DeleteState(p)
  BY <1>2, <1>3, <1>13 DEF DeleteState, Worked
<1>14. CASE Abandon(p)
  <2>1. hooks' = [hooks EXCEPT ![p] = Idle] /\ Busy(p) /\ "abandoned" \in upset'
        /\ UNCHANGED <<file, session, turns, messages, calls>>
    BY <1>14 DEF Abandon, Mishap, store
  <2>2. ~Busy(p)' BY <1>1, <2>1 DEF Busy, Shape
  <2> QED BY <2>1, <2>2 DEF Quits
<1> QED BY <1>4, <1>5, <1>6, <1>7, <1>8, <1>9, <1>10, <1>11, <1>12, <1>13, <1>14 DEF Step, Scans

\* What a scan finds.
LEMMA Scanned ==
  ASSUME TypeInv, NEW p \in Procs, Scans(p)
  PROVE  /\ Busy(p) /\ At(p) = "scan" /\ Hook(p) /\ hooks[p].state \in SessionStates
         /\ UNCHANGED <<file, session, turns, messages, calls>>
         /\ \E r : /\ Records(r) /\ Moved(p, hooks[p].state, r)
                   /\ \/ hooks[p].event = "subagentStop" /\ r = Entries(FALSE)
                      \/ hooks[p].event # "subagentStop" /\ r = Correlated(Entries(TRUE), hooks[p].state.pending)
                      \/ r = Bubbles
                      \/ r = <<>> /\ "unreadable" \in upset'
<1>1. PICK r : /\ Doing(p, "scan") /\ Backfill(p, r) /\ Records(r)
               /\ \/ hooks[p].event = "subagentStop" /\ r = Entries(FALSE)
                  \/ hooks[p].event # "subagentStop" /\ r = Correlated(Entries(TRUE), hooks[p].state.pending)
                  \/ r = Bubbles
                  \/ r = <<>> /\ "unreadable" \in upset'
               /\ UNCHANGED <<file, store, cursor>>
  BY ScanFacts DEF Scans
<1>2. UNCHANGED <<written, prompts>> BY <1>1 DEF cursor
<1>3. Busy(p) /\ At(p) = "scan" /\ Hook(p) /\ Moved(p, hooks[p].state, r)
  BY <1>1, <1>2, Backfills DEF TypeInv
<1> QED BY <1>1, <1>3, HookFacts DEF store

-----------------------------------------------------------------------------
(* The end of a session                                                    *)

Alone(p) == \A q \in Procs : Busy(q) => q = p

\* Unless it cut others short, what closes a session runs alone.
EndsAlone ==
  "cutShort" \notin upset =>
    \A p \in Procs : Busy(p) /\ hooks[p].event = "sessionEnd" => Alone(p) /\ phase = "over"

Filled(m) == EntryId(m) \in DOMAIN messages /\ messages[EntryId(m)].tokens # Null

\* From the scan on, what it has not filled in is what it still has to write.
ScanComplete ==
  kind.same /\ kind.named /\ upset \cap {"unreadable", "cutShort", "uncounted"} = {} =>
    \A p \in Procs : Busy(p) /\ At(p) \in {"end", "delete"} =>
      \A m \in DOMAIN written : written[m] # Null => m \in DOMAIN hooks[p].records \/ Filled(m)

LEMMA StepEndsAlone ==
  ASSUME TypeInv, EndsAlone, NEW p \in Procs, Step(p)
  PROVE  EndsAlone'
<1>1. Comes(p) /\ UNCHANGED phase /\ upset \subseteq upset'
  BY StepComes DEF cursor
<1> QED BY <1>1 DEF EndsAlone, Comes, Alone

LEMMA HarnessEndsAlone ==
  ASSUME TypeInv, EndsAlone, Harness
  PROVE  EndsAlone'
<1> SUFFICES ASSUME "cutShort" \notin upset', NEW p \in Procs, Busy(p)', hooks'[p].event = "sessionEnd"
             PROVE  Alone(p)' /\ phase' = "over"
  BY DEF EndsAlone
<1>1. upset \subseteq upset'
  BY HarnessOpens
<1>2. ASSUME NEW q \in Procs, Busy(q), hooks[q].event = "sessionEnd" PROVE Alone(q) /\ phase = "over"
  BY <1>1, <1>2 DEF EndsAlone
<1>3. CASE (BeginUnseen \/ Interrupt) /\ UNCHANGED hooks
  <2>1. Busy(p) /\ hooks[p].event = "sessionEnd" /\ (Alone(p)' <=> Alone(p)) BY <1>3 DEF Busy, Alone
  <2> QED BY <1>2, <1>3, <2>1 DEF BeginUnseen, Interrupt, Working
<1>4. ASSUME NEW q \in Procs, NEW e \in DOMAIN Dispatch, NEW t, Causes(q, e, t), Opens(q, e, t)
      PROVE  Alone(p)' /\ phase' = "over"
  <2>1. CASE p = q
    <3>1. e = "sessionEnd" BY <1>4, <2>1 DEF Opens
    <3>2. End(q) BY <1>4, <3>1 DEF Causes, Ends
    <3>3. Quiet /\ phase' = "over" BY <3>2 DEF End, Mishap
    <3> QED BY <1>4, <2>1, <3>3 DEF Opens, Quiet, Alone, Busy
  <2>2. CASE p # q
    <3>1. Busy(p) /\ hooks[p].event = "sessionEnd" BY <1>4, <2>2 DEF Opens, Busy
    <3>2. ~Quiet /\ phase = "over" BY <1>2, <3>1 DEF Quiet
    <3> QED BY <1>4, <3>2 DEF Causes, Begin, Prompt, Respond, SubagentEnds, Answered, End, ToolBegins,
                              ToolEnds, Working
  <2> QED BY <2>1, <2>2
<1> QED BY <1>3, <1>4, HarnessOpens

LEMMA StepScanComplete ==
  ASSUME TypeInv, Exact, EndsAlone, ScanComplete, NEW p \in Procs, Step(p)
  PROVE  ScanComplete'
<1> SUFFICES ASSUME kind'.same, kind'.named, upset' \cap {"unreadable", "cutShort", "uncounted"} = {},
                    NEW q \in Procs, Busy(q)', At(q)' \in {"end", "delete"},
                    NEW m \in DOMAIN written', written'[m] # Null
             PROVE  m \in DOMAIN hooks'[q].records \/ Filled(m)'
  BY DEF ScanComplete
<1>1. Comes(p) /\ UNCHANGED <<kind, written, blank>> /\ upset \subseteq upset'
  BY StepComes DEF cursor
<1>2. kind.same /\ kind.named /\ blank = {} /\ HooksExact /\ "cutShort" \notin upset /\ "unreadable" \notin upset'
  BY <1>1 DEF Exact
<1>3. ASSUME NEW x \in Procs, Busy(x), At(x) \in {"end", "delete"}
      PROVE  m \in DOMAIN hooks[x].records \/ Filled(m)
  BY <1>1, <1>3 DEF ScanComplete
<1>4. m \in DOMAIN written /\ written[m] # Null /\ EntryId(m)' = EntryId(m)
  BY <1>1 DEF EntryId
<1>5. Busy(q) /\ Busy(p)
  BY <1>1, Works, Scanned DEF Comes, Quits, Continues, RecordLlmMessage
<1>6. CASE q # p
  <2>1. At(q) \in {"end", "delete"}
    BY <1>1, <1>6 DEF Comes, At
  <2>2. Alone(q)
    BY <1>2, <1>5, <2>1, Places DEF EndsAlone
  <2> QED BY <1>5, <1>6, <2>2 DEF Alone
<1>7. CASE q = p
  <2>1. ~Quits(p) BY <1>7 DEF Quits
  <2>2. CASE Scans(p)
    <3>1. PICK r : /\ Records(r) /\ Moved(p, hooks[p].state, r) /\ At(p) = "scan"
                   /\ hooks[p].state \in SessionStates
                   /\ \/ hooks[p].event = "subagentStop"
                      \/ r = Correlated(Entries(TRUE), hooks[p].state.pending)
                      \/ r = Bubbles
      BY <1>2, <2>2, Scanned
    <3>2. hooks'[p].records = r /\ hooks[p].event = "sessionEnd"
      BY <1>7, <3>1 DEF Moved, Goes
    <3>3. m \in Counted(TRUE)
      BY <1>2, <1>4 DEF Counted
    <3>4. hooks[p].state.pending \in Seq(MessageIds) /\ Records(Entries(TRUE))
      BY <3>1, EntryFacts DEF SessionStates, TypeInv
    <3>5. DOMAIN Correlated(Entries(TRUE), hooks[p].state.pending) = DOMAIN Entries(TRUE)
      BY <3>4, CorrelatedFacts
    <3> QED BY <1>7, <3>1, <3>2, <3>3, <3>5 DEF Entries, Bubbles
  <2>3. CASE RecordLlmMessage(p)
    <3>1. PICK l \in DOMAIN hooks[p].records :
            /\ l \in Nat
            /\ DOMAIN messages' = DOMAIN messages \cup {hooks[p].records[l].id}
            /\ \A x \in DOMAIN messages' \ {hooks[p].records[l].id} : messages'[x] = messages[x]
            /\ messages'[hooks[p].records[l].id].tokens = l
            /\ hooks'[p].records = Only(hooks[p].records, DOMAIN hooks[p].records \ {l})
      BY <1>7, <2>3, RecordFacts
    <3>2. hooks[p].records[l].id = EntryId(l) /\ l # Null
      BY <1>2, <1>5, <3>1, NullAssumption DEF HooksExact
    <3>3. hooks'[p].todo = hooks[p].todo
      BY <1>7, <2>3, Writes DEF TypeInv
    <3>4. At(p) \in {"end", "delete"}
      BY <1>7, <3>3 DEF At
    <3>5. DOMAIN hooks'[p].records = DOMAIN hooks[p].records \ {l}
      BY <3>1 DEF Only
    <3>6. CASE m = l
      BY <1>4, <3>1, <3>2, <3>6 DEF Filled
    <3>7. CASE m # l /\ m \in DOMAIN hooks[p].records
      BY <1>7, <3>5, <3>7
    <3>8. CASE Filled(m)
      BY <1>4, <3>1, <3>2, <3>8 DEF Filled
    <3> QED BY <1>3, <1>5, <3>4, <3>6, <3>7, <3>8
  <2>4. ASSUME NEW s, Continues(p, s), Worked(p, s)
        PROVE  m \in DOMAIN hooks'[p].records \/ Filled(m)'
    <3>1. /\ DOMAIN hooks[p].records = {} /\ hooks'[p].records = hooks[p].records
          /\ hooks[p].event = hooks'[p].event
          /\ Goes(hooks[p].event, At(p), At(p)')
      BY <1>7, <2>4 DEF Continues, Moved
    <3>2. EndSession(p) /\ At(p) = "end"
      <4>1. hooks[p].event = "sessionEnd" BY <1>1, <1>5, <1>7, Places, <3>1, HookFacts, <2>4
        DEF Goes, Worked, Reads, Closers, Ends, Hook, Stages, Counting
      <4> QED BY <1>7, <2>4, <3>1, <4>1 DEF Goes, Worked, Reads, Closers, Counting, Ends
    <3>3. UNCHANGED messages BY <3>2 DEF EndSession
    <3>4. Filled(m) BY <1>3, <1>5, <3>1, <3>2
    <3> QED BY <1>4, <3>3, <3>4 DEF Filled
  <2> QED BY <1>7, <2>1, <2>2, <2>3, <2>4, Works
<1> QED BY <1>6, <1>7

LEMMA HarnessScanComplete ==
  ASSUME TypeInv, EndsAlone, ScanComplete, Harness
  PROVE  ScanComplete'
<1> SUFFICES ASSUME kind'.same, kind'.named, upset' \cap {"unreadable", "cutShort", "uncounted"} = {},
                    NEW q \in Procs, Busy(q)', At(q)' \in {"end", "delete"},
                    NEW m \in DOMAIN written', written'[m] # Null
             PROVE  m \in DOMAIN hooks'[q].records \/ Filled(m)'
  BY DEF ScanComplete
<1>1. UNCHANGED <<messages, kind>> /\ upset \subseteq upset'
  BY HarnessOpens
<1>2. /\ Busy(q) /\ hooks'[q] = hooks[q] /\ At(q) \in {"end", "delete"}
  <2>1. CASE UNCHANGED hooks BY <2>1 DEF Busy, At
  <2>2. ASSUME NEW p \in Procs, NEW e, NEW t, Opens(p, e, t)
        PROVE  Busy(q) /\ hooks'[q] = hooks[q]
    <3>1. q # p BY <2>2 DEF Opens, Began, Point
    <3> QED BY <2>2, <3>1 DEF Opens, Busy
  <2> QED BY <2>1, <2>2, HarnessOpens DEF At
<1>3. "cutShort" \notin upset /\ Alone(q) /\ phase = "over"
  BY <1>1, <1>2, Places DEF EndsAlone
<1>4. UNCHANGED written
  <2>1. ~Quiet BY <1>2 DEF Quiet
  <2> QED BY <1>3, <2>1 DEF Harness, BeginUnseen, Interrupt, Begin, Prompt, Respond, SubagentEnds, Answered, End,
        ToolBegins, ToolEnds, Working
<1> QED BY <1>1, <1>2, <1>4 DEF ScanComplete, Filled, EntryId

\* EndBackfilled: a sessionEnd that closes the session has filled in all rows.
THEOREM EndsBackfilled == Spec => []EndBackfilled
<1>1. Init => EndsAlone /\ ScanComplete
  BY DEF Init, Busy, EndsAlone, ScanComplete
<1>2. ASSUME UNCHANGED vars
      PROVE  (EndsAlone => EndsAlone') /\ (ScanComplete => ScanComplete')
  <2>1. UNCHANGED <<hooks, messages, kind, phase, written, upset>>
    BY <1>2 DEF vars, store, cursor, trouble
  <2>2. \A m : Filled(m)' <=> Filled(m)
    BY <2>1 DEF Filled, EntryId
  <2>3. \A p \in Procs : (Busy(p)' <=> Busy(p)) /\ (Alone(p)' <=> Alone(p)) /\ At(p)' = At(p)
    BY <2>1 DEF Busy, Alone, At
  <2> QED BY <2>1, <2>2, <2>3 DEF EndsAlone, ScanComplete
<1>3. TypeInv /\ Exact /\ EndsAlone /\ ScanComplete /\ [Next]_vars => EndsAlone' /\ ScanComplete'
  BY <1>2, StepEndsAlone, HarnessEndsAlone, StepScanComplete, HarnessScanComplete DEF Next
<1>4. ScanComplete => EndBackfilled
  <2> SUFFICES ASSUME ScanComplete, kind.same, kind.named,
                      upset \cap {"unreadable", "cutShort", "uncounted"} = {},
                      NEW p \in Procs, Doing(p, "delete"), NEW m \in DOMAIN written, written[m] # Null
               PROVE  EntryId(m) \in DOMAIN messages /\ messages[EntryId(m)].tokens # Null
    BY DEF EndBackfilled
  <2>1. Busy(p) /\ At(p) = "delete" /\ DOMAIN hooks[p].records = {}
    BY DEF Doing, At, Point
  <2> QED BY <2>1 DEF ScanComplete, Filled
<1> QED BY <1>1, <1>3, <1>4, CursorTypes, ExactAlways, PTL DEF Spec

-----------------------------------------------------------------------------
(* Rows of prompts, responses and tools that have ids                      *)

TurnsNamed ==
  \A id \in DOMAIN turns : \E g \in turns[id].of : id = <<"gen", g>> /\ turns[id].of = {g}
MessagesNamed ==
  \A id \in DOMAIN messages : \A g \in messages[id].of : id = <<"gen", g>>
CallsNamed ==
  \A id \in DOMAIN calls : \E t \in Tools :
    id = <<"use", t>> /\ calls[id].of = {t} /\ calls[id].begun \in {t, Null}
CopiesNamed ==
  \A s \in Copies : \A a \in s.active : a.id = <<"use", a.tool>>
Named == kind.named => TurnsNamed /\ MessagesNamed /\ CallsNamed /\ CopiesNamed

\* What the steps do to the rows.
LEMMA TurnSteps ==
  ASSUME TypeInv, NEW p \in Procs, Step(p)
  PROVE  \/ UNCHANGED turns
         \/ CloseTurn(p) /\ DOMAIN turns' = DOMAIN turns /\ \A x \in DOMAIN turns : turns'[x].of = turns[x].of
         \/ /\ RecordTurn(p)
            /\ LET id == HarnessTurnId(prompts, hooks[p].state.turnIndex + 1) IN
               /\ DOMAIN turns' = DOMAIN turns \cup {id}
               /\ turns'[id].of = (IF id \in DOMAIN turns THEN turns[id].of ELSE {}) \cup {prompts}
               /\ \A x \in DOMAIN turns : x # id => turns'[x] = turns[x]
<1>1. CASE CloseTurn(p)
  BY <1>1, CloseFacts
<1>2. CASE RecordTurn(p)
  <2> DEFINE id == HarnessTurnId(prompts, hooks[p].state.turnIndex + 1)
  <2>1. hooks[p].generation = prompts /\ Rows
    BY <1>2, AtWork DEF RecordTurn
  <2>2. turns' = Set(turns, id, [Turn(id) EXCEPT !.of = @ \cup {prompts}])
    BY <1>2, <2>1 DEF RecordTurn
  <2>3. Turn(id) \in TurnRows
    BY <2>1 DEF Turn, Rows, TurnRows
  <2>4. [Turn(id) EXCEPT !.of = @ \cup {prompts}].of = Turn(id).of \cup {prompts}
    BY <2>3 DEF TurnRows
  <2> HIDE DEF id
  <2>5. /\ DOMAIN turns' = DOMAIN turns \cup {id}
        /\ turns'[id].of = Turn(id).of \cup {prompts}
        /\ \A x \in DOMAIN turns : x # id => turns'[x] = turns[x]
    BY <2>2, <2>4 DEF Set
  <2>6. Turn(id).of = IF id \in DOMAIN turns THEN turns[id].of ELSE {}
    BY DEF Turn
  <2> QED BY <1>2, <2>5, <2>6 DEF id
<1>3. CASE ~CloseTurn(p) /\ ~RecordTurn(p)
  BY <1>3 DEF Step, ReadState, RecordSession, RecordPlaceholder, RecordToolCall, ScanTranscript, ScanSqlite,
         ScanFails, RecordLlmMessage, WriteState, CaptureGit, EndSession, DeleteState, Abandon, store
<1> QED BY <1>1, <1>2, <1>3

LEMMA MessageSteps ==
  ASSUME TypeInv, NEW p \in Procs, Step(p)
  PROVE  \/ UNCHANGED messages
         \/ /\ RecordLlmMessage(p)
            /\ \E m \in DOMAIN hooks[p].records :
                 LET id == hooks[p].records[m].id IN
                 /\ DOMAIN messages' = DOMAIN messages \cup {id}
                 /\ \A x \in DOMAIN messages : x # id => messages'[x] = messages[x]
                 /\ messages'[id].turn = Message(id).turn /\ messages'[id].of = Message(id).of
         \/ /\ RecordPlaceholder(p)
            /\ LET state == hooks[p].state
                   id == HarnessMessageId(prompts, state.messageIndex) IN
               /\ DOMAIN messages' = DOMAIN messages \cup {id}
               /\ \A x \in DOMAIN messages : x # id => messages'[x] = messages[x]
               /\ messages'[id].turn = (IF state.turn = Null THEN Message(id).turn ELSE state.turn)
               /\ messages'[id].of = Message(id).of \cup {prompts}
<1>1. CASE RecordLlmMessage(p)
  BY <1>1, RecordFacts
<1>2. CASE RecordPlaceholder(p)
  <2>1. hooks[p].generation = prompts
    BY <1>2, AtWork DEF RecordPlaceholder
  <2> DEFINE state == hooks[p].state
             id == HarnessMessageId(prompts, state.messageIndex)
             row == [turn |-> IF state.turn = Null THEN Message(id).turn ELSE state.turn,
                     tokens |-> Null, of |-> Message(id).of \cup {prompts}]
  <2>2. messages' = Set(messages, id, row)
    BY <1>2, <2>1 DEF RecordPlaceholder
  <2>3. row.turn = (IF state.turn = Null THEN Message(id).turn ELSE state.turn) /\ row.of = Message(id).of \cup {prompts}
    OBVIOUS
  <2> HIDE DEF id, row
  <2>4. /\ DOMAIN messages' = DOMAIN messages \cup {id} /\ messages'[id] = row
        /\ \A x \in DOMAIN messages : x # id => messages'[x] = messages[x]
    BY <2>2 DEF Set
  <2> QED BY <1>2, <2>3, <2>4 DEF id
<1>3. CASE ~RecordLlmMessage(p) /\ ~RecordPlaceholder(p)
  BY <1>3 DEF Step, ReadState, RecordSession, RecordTurn, RecordToolCall, ScanTranscript, ScanSqlite,
         ScanFails, CloseTurn, WriteState, CaptureGit, EndSession, DeleteState, Abandon, store
<1> QED BY <1>1, <1>2, <1>3

LEMMA CallSteps ==
  ASSUME TypeInv, NEW p \in Procs, Step(p)
  PROVE  \/ UNCHANGED calls
         \/ /\ RecordToolCall(p) /\ hooks[p].tool \in Tools
            /\ LET state == hooks[p].state
                   tool == hooks[p].tool
                   id == HarnessToolCallId(tool, IF state.toolIndex = 0 THEN 0 ELSE state.toolIndex - 1)
               IN /\ DOMAIN calls' = DOMAIN calls \cup {id}
                  /\ \A x \in DOMAIN calls : x # id => calls'[x] = calls[x]
                  /\ id \in DOMAIN calls =>
                       calls'[id].of = calls[id].of \cup {tool} /\ calls'[id].begun = calls[id].begun
                  /\ id \notin DOMAIN calls =>
                       /\ calls'[id].of = {tool}
                       /\ IF \E a \in state.active : a.id = id
                            THEN \E a \in state.active : a.id = id /\ calls'[id].begun = a.tool
                            ELSE calls'[id].begun = Null
<1>1. CASE RecordToolCall(p)
  <2> DEFINE state == hooks[p].state
             tool == hooks[p].tool
             id == HarnessToolCallId(tool, IF state.toolIndex = 0 THEN 0 ELSE state.toolIndex - 1)
             mine == {a \in state.active : a.id = id}
             begun == IF mine = {} THEN Null ELSE (CHOOSE a \in mine : TRUE).tool
  <2>1. /\ Doing(p, "tool")
        /\ calls' = IF id \in DOMAIN calls THEN [calls EXCEPT ![id].of = @ \cup {tool}]
                      ELSE Set(calls, id, [of |-> {tool}, begun |-> begun])
    BY <1>1 DEF RecordToolCall
  <2>2. Rows /\ Hook(p) /\ Busy(p) /\ At(p) = "tool"
    BY <2>1, AtWork
  <2>3. tool \in Tools
    BY <2>2, Places DEF Hook
  <2>4. IF \E a \in state.active : a.id = id
          THEN \E a \in state.active : a.id = id /\ begun = a.tool
          ELSE begun = Null
    <3>1. CASE mine = {} BY <3>1
    <3>2. CASE mine # {}
      <4>1. (CHOOSE a \in mine : TRUE) \in mine BY <3>2
      <4> QED BY <3>2, <4>1
    <3> QED BY <3>1, <3>2
  <2> HIDE DEF id, mine, begun
  <2>5. CASE id \in DOMAIN calls
    <3>1. calls[id] \in CallRows BY <2>2, <2>5 DEF Rows
    <3> DEFINE row == [calls[id] EXCEPT !.of = @ \cup {tool}]
    <3>2. calls' = [calls EXCEPT ![id] = row]
      BY <2>1, <2>5
    <3>3. row.of = calls[id].of \cup {tool} /\ row.begun = calls[id].begun
      BY <3>1 DEF CallRows
    <3> HIDE DEF row
    <3>4. DOMAIN calls' = DOMAIN calls \cup {id} /\ calls'[id] = row /\ \A x \in DOMAIN calls : x # id => calls'[x] = calls[x]
      BY <2>5, <3>2
    <3> QED BY <1>1, <2>3, <2>5, <3>3, <3>4 DEF id
  <2>6. CASE id \notin DOMAIN calls
    <3>1. calls' = Set(calls, id, [of |-> {tool}, begun |-> begun]) BY <2>1, <2>6
    <3>2. /\ DOMAIN calls' = DOMAIN calls \cup {id} /\ calls'[id] = [of |-> {tool}, begun |-> begun]
          /\ \A x \in DOMAIN calls : x # id => calls'[x] = calls[x]
      BY <3>1 DEF Set
    <3>3. calls'[id].of = {tool} /\ calls'[id].begun = begun BY <3>2
    <3> QED BY <1>1, <2>3, <2>4, <2>6, <3>2, <3>3 DEF id
  <2> QED BY <2>5, <2>6
<1>2. CASE ~RecordToolCall(p)
  BY <1>2 DEF Step, ReadState, RecordSession, RecordTurn, RecordPlaceholder, ScanTranscript, ScanSqlite,
         ScanFails, RecordLlmMessage, CloseTurn, WriteState, CaptureGit, EndSession, DeleteState, Abandon, store
<1> QED BY <1>1, <1>2

LEMMA StepNamed ==
  ASSUME TypeInv, Named, NEW p \in Procs, Step(p)
  PROVE  Named'
<1> SUFFICES ASSUME kind'.named
             PROVE  TurnsNamed' /\ MessagesNamed' /\ CallsNamed' /\ CopiesNamed'
  BY DEF Named
<1>1. Comes(p) /\ UNCHANGED <<kind, prompts>>
  BY StepComes DEF cursor
<1>2. kind.named /\ TurnsNamed /\ MessagesNamed /\ CallsNamed /\ CopiesNamed
  BY <1>1 DEF Named
<1>3. TurnsNamed'
  <2>1. CASE UNCHANGED turns BY <1>2, <2>1 DEF TurnsNamed
  <2>2. CASE DOMAIN turns' = DOMAIN turns /\ \A x \in DOMAIN turns : turns'[x].of = turns[x].of
    BY <1>2, <2>2 DEF TurnsNamed
  <2>3. ASSUME NEW id, id = <<"gen", prompts>>, DOMAIN turns' = DOMAIN turns \cup {id},
               turns'[id].of = (IF id \in DOMAIN turns THEN turns[id].of ELSE {}) \cup {prompts},
               \A x \in DOMAIN turns : x # id => turns'[x] = turns[x]
        PROVE  TurnsNamed'
    <3>1. turns'[id].of = {prompts}
      <4>1. CASE id \in DOMAIN turns
        <5>1. turns[id].of = {prompts} BY <1>2, <2>3, <4>1 DEF TurnsNamed
        <5> QED BY <2>3, <4>1, <5>1
      <4>2. CASE id \notin DOMAIN turns BY <2>3, <4>2
      <4> QED BY <4>1, <4>2
    <3> QED BY <1>2, <2>3, <3>1 DEF TurnsNamed
  <2>4. HarnessTurnId(prompts, hooks[p].state.turnIndex + 1) = <<"gen", prompts>>
    BY <1>2 DEF HarnessTurnId
  <2> QED BY <2>1, <2>2, <2>3, <2>4, TurnSteps
<1>4. MessagesNamed'
  <2>1. CASE UNCHANGED messages BY <1>2, <2>1 DEF MessagesNamed
  <2>2. ASSUME NEW id, DOMAIN messages' = DOMAIN messages \cup {id},
               \A x \in DOMAIN messages : x # id => messages'[x] = messages[x],
               messages'[id].of = Message(id).of
        PROVE  MessagesNamed'
    BY <1>2, <2>2 DEF MessagesNamed, Message
  <2>3. ASSUME NEW id, id = <<"gen", prompts>>, DOMAIN messages' = DOMAIN messages \cup {id},
               \A x \in DOMAIN messages : x # id => messages'[x] = messages[x],
               messages'[id].of = Message(id).of \cup {prompts}
        PROVE  MessagesNamed'
    BY <1>2, <2>3 DEF MessagesNamed, Message
  <2>4. HarnessMessageId(prompts, hooks[p].state.messageIndex) = <<"gen", prompts>>
    BY <1>2 DEF HarnessMessageId
  <2> QED BY <2>1, <2>2, <2>3, <2>4, MessageSteps
<1>5. CallsNamed'
  <2>1. CASE UNCHANGED calls BY <1>2, <2>1 DEF CallsNamed
  <2>2. CASE ~UNCHANGED calls
    <3> DEFINE tool == hooks[p].tool
               state == hooks[p].state
               id == HarnessToolCallId(tool, IF state.toolIndex = 0 THEN 0 ELSE state.toolIndex - 1)
    <3>1. id = <<"use", tool>>
      BY <1>2 DEF HarnessToolCallId
    <3>2. /\ RecordToolCall(p) /\ tool \in Tools
          /\ DOMAIN calls' = DOMAIN calls \cup {id}
          /\ \A x \in DOMAIN calls : x # id => calls'[x] = calls[x]
          /\ id \in DOMAIN calls =>
               calls'[id].of = calls[id].of \cup {tool} /\ calls'[id].begun = calls[id].begun
          /\ id \notin DOMAIN calls =>
               /\ calls'[id].of = {tool}
               /\ IF \E a \in state.active : a.id = id
                    THEN \E a \in state.active : a.id = id /\ calls'[id].begun = a.tool
                    ELSE calls'[id].begun = Null
      BY <2>2, CallSteps
    <3> HIDE DEF id
    <3>3. state \in Copies
      BY <3>2, AtWork DEF RecordToolCall
    <3>4. \A a \in state.active : a.id = id => a.tool = tool
      BY <1>2, <3>1, <3>3 DEF CopiesNamed
    <3>5. id \in DOMAIN calls => calls[id].of = {tool} /\ calls[id].begun \in {tool, Null}
      BY <1>2, <3>1 DEF CallsNamed
    <3>6. calls'[id].of = {tool} /\ calls'[id].begun \in {tool, Null}
      BY <3>2, <3>4, <3>5
    <3> QED BY <1>2, <3>1, <3>2, <3>6 DEF CallsNamed
  <2> QED BY <2>1, <2>2
<1>6. CopiesNamed'
  <2> SUFFICES ASSUME NEW s \in Copies', NEW a \in s.active PROVE a.id = <<"use", a.tool>>
    BY DEF CopiesNamed
  <2>1. Derived(p, s) BY <1>1 DEF Comes
  <2> QED BY <1>2, <2>1 DEF Derived, CopiesNamed, HarnessToolCallId
<1> QED BY <1>3, <1>4, <1>5, <1>6

LEMMA HarnessNamed ==
  ASSUME TypeInv, Named, Harness
  PROVE  Named'
<1>1. UNCHANGED <<file, turns, messages, calls, kind>>
  BY HarnessOpens
<1>2. Copies' \subseteq Copies \cup {Fresh}
  BY <1>1, HarnessOpens DEF Opens, Copies, Busy
<1> QED BY <1>1, <1>2, FreshState DEF Named, TurnsNamed, MessagesNamed, CallsNamed, CopiesNamed

-----------------------------------------------------------------------------
(* What runs together                                                      *)

Calm == upset \cap {"abandoned", "replayed", "cutShort"} = {}

Phases ==
  /\ phase = "off" => starts = 0 /\ file = Null /\ Quiet
  /\ phase # "off" => starts >= 1
\* What the hook of p is for says what else runs.
Fits(p) ==
  LET e == hooks[p].event IN
  /\ e = "sessionStart" => Alone(p) /\ phase = "idle" /\ hooks[p].state = Fresh /\ file \in {Null, Fresh}
  /\ e = "beforeSubmitPrompt" => Alone(p) /\ phase = "busy"
  /\ e = "stop" => Alone(p) /\ phase = "idle"
  /\ e = "sessionEnd" => Alone(p) /\ phase = "over"
  /\ e \in Tooling => phase = "busy"
Ordered == Calm => Phases /\ \A p \in Procs : Busy(p) => Fits(p)

LEMMA StepOrdered ==
  ASSUME TypeInv, Ordered, NEW p \in Procs, Step(p)
  PROVE  Ordered'
<1> SUFFICES ASSUME Calm' PROVE Phases' /\ \A q \in Procs : Busy(q)' => Fits(q)'
  BY DEF Ordered
<1>1. Comes(p) /\ UNCHANGED <<phase, starts>> /\ upset \subseteq upset' /\ Shape
  BY StepComes DEF cursor, TypeInv
<1>2. Phases /\ \A q \in Procs : Busy(q) => Fits(q)
  BY <1>1 DEF Ordered, Calm
<1>3. Busy(p)
  BY Works, Scanned DEF Quits, Continues, RecordLlmMessage
<1>4. Phases'
  BY <1>1, <1>2, <1>3 DEF Phases, Quiet
<1>5. \A q \in Procs : Alone(q) => Alone(q)'
  BY <1>1 DEF Comes, Alone
<1>6. ASSUME NEW q \in Procs, Busy(q)' PROVE Fits(q)'
  <2>1. Busy(q) /\ hooks'[q].event = hooks[q].event /\ Fits(q)
    BY <1>1, <1>2, <1>6 DEF Comes
  <2>2. CASE hooks[q].event # "sessionStart"
    BY <1>1, <1>5, <2>1, <2>2 DEF Fits
  <2>3. CASE hooks[q].event = "sessionStart"
    <3>1. q = p /\ Alone(p) /\ hooks[p].state = Fresh /\ file \in {Null, Fresh} /\ phase = "idle"
      BY <1>3, <2>1, <2>3 DEF Fits, Alone
    <3>2. ~RecordLlmMessage(p) /\ ~Scans(p)
      BY <2>3, <3>1, Writes, Scanned, Places DEF Closers, TypeInv
    <3>3. PICK s : Continues(p, s) /\ Worked(p, s)
      BY <1>6, <3>1, <3>2, Works DEF Quits
    <3>4. ~Reads(p, s)
      <4>1. hooks[p].todo # <<>> => Goes(hooks[p].event, At(p), Point(Tail(hooks[p].todo)))
        BY <1>1, <1>3, Handlers DEF Shape, Hook, At
      <4>2. At(p) # "read"
        BY <2>3, <3>1, <4>1 DEF Goes, At, Point
      <4> QED BY <4>2 DEF Reads
    <3>5. s = Fresh /\ file' \in {file, Fresh}
      <4>1. At(p) \notin {"turn", "placeholder", "tool", "close", "end", "delete"}
        BY <1>3, <2>3, <3>1, Places DEF Ends
      <4> QED BY <3>1, <3>3, <3>4, <4>1 DEF Worked, RecordSession, WriteState, CaptureGit
    <3>6. hooks'[p].state = Fresh
      BY <1>6, <3>1, <3>3, <3>5 DEF Continues, Moved
    <3> QED BY <1>1, <1>5, <2>1, <2>3, <3>1, <3>5, <3>6 DEF Fits, Tooling, Ends
  <2> QED BY <2>2, <2>3
<1> QED BY <1>4, <1>6

LEMMA HarnessOrdered ==
  ASSUME TypeInv, Ordered, Harness
  PROVE  Ordered'
<1> SUFFICES ASSUME Calm' PROVE Phases' /\ \A q \in Procs : Busy(q)' => Fits(q)'
  BY DEF Ordered
<1>1. UNCHANGED file /\ upset \subseteq upset' /\ Shape /\ starts \in Nat
  BY HarnessOpens DEF TypeInv, Shape
<1>2. Phases /\ (\A q \in Procs : Busy(q) => Fits(q)) /\ "replayed" \notin upset' /\ "cutShort" \notin upset'
  BY <1>1 DEF Ordered, Calm
<1>3. CASE BeginUnseen
  BY <1>1, <1>2, <1>3 DEF BeginUnseen, Phases, Quiet, Busy
<1>4. CASE Interrupt
  BY <1>1, <1>2, <1>4 DEF Interrupt, Working, Phases, Quiet, Busy
<1>5. ASSUME NEW p \in Procs, NEW e \in DOMAIN Dispatch, NEW t, Causes(p, e, t), Opens(p, e, t)
      PROVE  Phases' /\ \A q \in Procs : Busy(q)' => Fits(q)'
  <2>1. \A q \in Procs : q # p => (Busy(q)' <=> Busy(q)) /\ hooks'[q] = hooks[q]
    BY <1>5 DEF Opens, Busy
  <2>2. Busy(p)' /\ hooks'[p].event = e /\ hooks'[p].state = Fresh
    BY <1>5 DEF Opens
  <2>3. Quiet => Alone(p)'
    BY <2>1 DEF Quiet, Alone
  <2>4. CASE e = "sessionStart"
    <3>1. Begin(p) BY <1>5, <2>4 DEF Causes, Ends
    <3>2. Quiet /\ starts = 0 /\ phase' = "idle" /\ starts' = 1
      BY <1>1, <1>2, <3>1 DEF Begin, Mishap
    <3>3. file = Null BY <1>2, <3>2 DEF Phases
    <3> QED BY <1>1, <2>1, <2>2, <2>3, <2>4, <3>2, <3>3 DEF Phases, Fits, Quiet, Tooling, Ends
  <2>5. CASE e = "beforeSubmitPrompt"
    <3>1. Prompt(p) BY <1>5, <2>5 DEF Causes, Ends
    <3>2. Quiet /\ phase = "idle" /\ phase' = "busy" /\ starts' = starts BY <3>1 DEF Prompt
    <3> QED BY <1>1, <1>2, <2>1, <2>2, <2>3, <2>5, <3>2 DEF Phases, Fits, Quiet, Tooling, Ends
  <2>6. CASE e = "stop"
    <3>1. Answered(p) BY <1>5, <2>6 DEF Causes, Ends
    <3>2. Quiet /\ phase = "busy" /\ phase' = "idle" /\ starts' = starts BY <3>1 DEF Answered, Working
    <3> QED BY <1>1, <1>2, <2>1, <2>2, <2>3, <2>6, <3>2 DEF Phases, Fits, Quiet, Tooling, Ends
  <2>7. CASE e = "sessionEnd"
    <3>1. End(p) BY <1>5, <2>7 DEF Causes, Ends
    <3>2. Quiet /\ phase # "off" /\ phase' = "over" /\ starts' = starts BY <1>2, <3>1 DEF End, Mishap
    <3> QED BY <1>1, <1>2, <2>1, <2>2, <2>3, <2>7, <3>2 DEF Phases, Fits, Quiet, Tooling, Ends
  <2>8. CASE e \in Tooling
    <3>1. Working /\ UNCHANGED <<phase, starts>>
      BY <1>5, <2>8 DEF Causes, Tooling, Ends, Respond, SubagentEnds, ToolBegins, ToolEnds, cursor
    <3>2. phase = "busy" /\ ~Prompting BY <3>1 DEF Working, Prompting
    <3>3. \A q \in Procs : Busy(q) => hooks[q].event \in Tooling
      <4> SUFFICES ASSUME NEW q \in Procs, Busy(q) PROVE hooks[q].event \in Tooling
        OBVIOUS
      <4>1. Fits(q) /\ hooks[q].event \in DOMAIN Dispatch
        BY <1>1, <1>2 DEF Shape, Hook, Stages, Dispatch
      <4>2. hooks[q].event # "beforeSubmitPrompt" BY <3>2 DEF Prompting, Running
      <4> QED BY <3>2, <4>1, <4>2, Events DEF Fits, Tooling, Ends
    <3> QED BY <1>1, <1>2, <2>1, <2>2, <2>8, <3>1, <3>2, <3>3 DEF Phases, Fits, Tooling, Ends
  <2> QED BY <2>4, <2>5, <2>6, <2>7, <2>8, Events DEF Tooling, Ends
<1> QED BY <1>3, <1>4, <1>5, HarnessOpens

-----------------------------------------------------------------------------
(* Rows that are numbered, and the turns and tools that are open           *)

Serial == upset \cap {"abandoned", "replayed", "cutShort", "overlapped", "parallel"} = {}
OneAtATime == Serial => \A p \in Procs : Busy(p) => Alone(p)

\* The turn is that of the prompt.
Here(s) == s.turn # Null => turns[s.turn].of = {prompts}
HooksHere ==
  \A p \in Procs : Busy(p) =>
    /\ hooks[p].event \in Tooling /\ Began(p) => Here(hooks[p].state)
    /\ hooks[p].event = "beforeSubmitPrompt" /\ At(p) = "write" => Here(hooks[p].state)
FileHere == phase = "busy" /\ ~Prompting => file # Null /\ Here(file)
RowsLinked ==
  \A id \in DOMAIN messages :
    messages[id].turn # Null => messages[id].of = turns[messages[id].turn].of
TurnsKnown == Calm /\ (kind.named \/ Serial) => HooksHere /\ FileHere /\ RowsLinked

\* The counters of a state are ahead of the rows.
TurnsBound(s) == \A i \in Nat : <<"t", i>> \in DOMAIN turns => i <= s.turnIndex
MessagesBound(s) == \A i \in Nat : <<"m", i>> \in DOMAIN messages => i < s.messageIndex
CallsBound(s) == \A i \in Nat : <<"tc", i>> \in DOMAIN calls => i < s.toolIndex
PendingBound(s) ==
  \A k \in DOMAIN s.pending : \A i \in Nat : s.pending[k] = <<"m", i>> => i < s.messageIndex
Bounds(s) == TurnsBound(s) /\ MessagesBound(s) /\ CallsBound(s) /\ PendingBound(s)

\* A hook that will write the state it has.
Dirty(p) == hooks[p].event \in Counting /\ Began(p)
Now == IF file = Null THEN Fresh ELSE file

HookBound(p) ==
  /\ Dirty(p) => Bounds(hooks[p].state)
  /\ hooks[p].event = "subagentStop" /\ Began(p) => hooks[p].state = Now
  /\ hooks[p].event # "sessionEnd" =>
       \A m \in DOMAIN hooks[p].records : \A i \in Nat :
         hooks[p].records[m].id = <<"m", i>> => i < hooks[p].state.messageIndex
HooksBound == \A p \in Procs : Busy(p) => HookBound(p)
FileBound == (\A p \in Procs : Busy(p) => ~Dirty(p)) /\ phase # "over" => Bounds(Now)
RowsSingle ==
  /\ \A id \in DOMAIN turns : \E g \in turns[id].of : turns[id].of = {g}
  /\ \A id \in DOMAIN messages : \A g, h \in messages[id].of : g = h
Numbered == ~kind.named /\ Serial => HooksBound /\ FileBound /\ RowsSingle

\* The one tool that is under way has its start in the state.
Uncalled(t) == \A k \in DOMAIN calls : t \notin calls[k].of
Open(s) ==
  \A t \in DOMAIN issued : issued[t] = prompts /\ Uncalled(t) =>
    /\ s.toolIndex >= 1
    /\ [id |-> HarnessToolCallId(t, s.toolIndex - 1), tool |-> t] \in s.active
    /\ HarnessToolCallId(t, s.toolIndex - 1) \notin DOMAIN calls
HookOpen(p) ==
  /\ hooks[p].event \in Tooling /\ Began(p) => Open(hooks[p].state)
  /\ hooks[p].event \in {"preToolUse"} \cup Ends =>
       hooks[p].tool \in DOMAIN issued /\ issued[hooks[p].tool] = prompts
  /\ (hooks[p].event = "preToolUse" \/ (hooks[p].event \in Ends /\ At(p) # "write")) =>
       Uncalled(hooks[p].tool)
HooksOpen == \A p \in Procs : Busy(p) => HookOpen(p)
FileOpen ==
  phase = "busy" /\ (\A p \in Procs : Busy(p) => ~Dirty(p) /\ hooks[p].event # "preToolUse") => Open(Now)
OneUncalled == \A t, u \in DOMAIN issued : Uncalled(t) /\ Uncalled(u) => t = u
CallsBegun ==
  \A id \in DOMAIN calls : \E t \in DOMAIN issued : calls[id].of = {t} /\ calls[id].begun = t
Opened == Serial => HooksOpen /\ FileOpen /\ OneUncalled /\ CallsBegun

\* All of it.
CursorInv == TypeInv /\ Named /\ Ordered /\ OneAtATime /\ TurnsKnown /\ Numbered /\ Opened

LEMMA StepOneAtATime ==
  ASSUME TypeInv, OneAtATime, NEW p \in Procs, Step(p)
  PROVE  OneAtATime'
<1>1. Comes(p) /\ upset \subseteq upset'
  BY StepComes
<1> QED BY <1>1 DEF OneAtATime, Serial, Comes, Alone

LEMMA HarnessOneAtATime ==
  ASSUME TypeInv, OneAtATime, Harness
  PROVE  OneAtATime'
<1> SUFFICES ASSUME Serial' PROVE \A p \in Procs : Busy(p)' => Alone(p)'
  BY DEF OneAtATime
<1>1. upset \subseteq upset' BY HarnessOpens
<1>2. \A p \in Procs : Busy(p) => Alone(p) BY <1>1 DEF OneAtATime, Serial
<1>3. CASE UNCHANGED hooks BY <1>2, <1>3 DEF Busy, Alone
<1>4. ASSUME NEW p \in Procs, NEW e \in DOMAIN Dispatch, NEW t, Causes(p, e, t), Opens(p, e, t)
      PROVE  \A q \in Procs : Busy(q)' => Alone(q)'
  <2>1. Quiet
    BY <1>4 DEF Causes, Serial, Begin, Prompt, Respond, SubagentEnds, Answered, End, ToolBegins, ToolEnds,
                Overlap, Mishap
  <2> QED BY <1>4, <2>1 DEF Opens, Quiet, Busy, Alone
<1> QED BY <1>3, <1>4, HarnessOpens

\* What runs alone.
LEMMA SerialFacts ==
  ASSUME CursorInv, Serial, NEW p \in Procs, Busy(p)
  PROVE  Calm /\ Fits(p) /\ Phases /\ \A q \in Procs : Busy(q) => q = p
BY DEF CursorInv, Serial, Calm, Ordered, OneAtATime, Alone

\* A turn's row is that of a prompt.
LEMMA NewTurns ==
  ASSUME CursorInv, Calm, kind.named \/ Serial, NEW p \in Procs, RecordTurn(p)
  PROVE  LET id == HarnessTurnId(prompts, hooks[p].state.turnIndex + 1) IN
         /\ DOMAIN turns' = DOMAIN turns \cup {id}
         /\ turns'[id].of = {prompts}
         /\ \A x \in DOMAIN turns : turns'[x].of = turns[x].of
         /\ ~kind.named => id \notin DOMAIN turns
<1> DEFINE id == HarnessTurnId(prompts, hooks[p].state.turnIndex + 1)
<1>1. /\ Busy(p) /\ Began(p) /\ At(p) = "turn" /\ hooks[p].event = "beforeSubmitPrompt"
      /\ hooks[p].state \in SessionStates
  BY AtWork, Places DEF RecordTurn, CursorInv
<1>2. hooks[p].generation = prompts /\ Rows
  BY AtWork DEF RecordTurn, CursorInv
<1> DEFINE row == [Turn(id) EXCEPT !.of = @ \cup {prompts}]
<1>3. turns' = Set(turns, id, row)
  BY <1>2 DEF RecordTurn
<1>4. /\ DOMAIN turns' = DOMAIN turns \cup {id}
      /\ turns'[id].of = (IF id \in DOMAIN turns THEN turns[id].of ELSE {}) \cup {prompts}
      /\ \A x \in DOMAIN turns : x # id => turns'[x] = turns[x]
  <2>1. Turn(id) \in TurnRows /\ Turn(id).of = IF id \in DOMAIN turns THEN turns[id].of ELSE {}
    BY <1>2 DEF Turn, Rows, TurnRows
  <2>2. row.of = Turn(id).of \cup {prompts}
    BY <2>1 DEF TurnRows
  <2> HIDE DEF id, row
  <2>3. /\ DOMAIN turns' = DOMAIN turns \cup {id} /\ turns'[id] = row
        /\ \A x \in DOMAIN turns : x # id => turns'[x] = turns[x]
    BY <1>3 DEF Set
  <2> QED BY <2>1, <2>2, <2>3
<1>5. CASE kind.named
  <2>1. id = <<"gen", prompts>> BY <1>5 DEF HarnessTurnId
  <2>2. id \in DOMAIN turns => turns[id].of = {prompts}
    BY <1>5, <2>1 DEF CursorInv, Named, TurnsNamed
  <2> HIDE DEF id
  <2>3. turns'[id].of = {prompts} BY <1>4, <2>2
  <2> QED BY <1>4, <1>5, <2>2, <2>3 DEF id
<1>6. CASE ~kind.named /\ Serial
  <2>1. Bounds(hooks[p].state)
    BY <1>1, <1>6 DEF CursorInv, Numbered, HooksBound, HookBound, Dirty, Counting
  <2>2. hooks[p].state.turnIndex \in Nat BY <1>1 DEF SessionStates
  <2>3. id = <<"t", hooks[p].state.turnIndex + 1>> BY <1>6 DEF HarnessTurnId
  <2>4. id \notin DOMAIN turns BY <2>1, <2>2, <2>3 DEF Bounds, TurnsBound
  <2> HIDE DEF id
  <2> QED BY <1>4, <2>4 DEF id
<1> QED BY <1>5, <1>6

\* So is a response's.
LEMMA NewPlaceholders ==
  ASSUME CursorInv, Calm, kind.named \/ Serial, NEW p \in Procs, RecordPlaceholder(p)
  PROVE  LET id == HarnessMessageId(prompts, hooks[p].state.messageIndex) IN
         /\ Message(id).of \subseteq {prompts}
         /\ ~kind.named => id \notin DOMAIN messages
<1> DEFINE id == HarnessMessageId(prompts, hooks[p].state.messageIndex)
<1>1. /\ Busy(p) /\ Began(p) /\ At(p) = "placeholder" /\ hooks[p].event = "afterAgentResponse"
      /\ hooks[p].state \in SessionStates
  BY AtWork, Places DEF RecordPlaceholder, CursorInv
<1>2. CASE kind.named
  <2>1. id = <<"gen", prompts>> BY <1>2 DEF HarnessMessageId
  <2>2. \A g \in Message(id).of : g = prompts
    BY <1>2, <2>1 DEF CursorInv, Named, MessagesNamed, Message
  <2> QED BY <1>2, <2>2
<1>3. CASE ~kind.named /\ Serial
  <2>1. Bounds(hooks[p].state)
    BY <1>1, <1>3 DEF CursorInv, Numbered, HooksBound, HookBound, Dirty, Counting
  <2>2. hooks[p].state.messageIndex \in Nat BY <1>1 DEF SessionStates
  <2>3. id = <<"m", hooks[p].state.messageIndex>> BY <1>3 DEF HarnessMessageId
  <2>4. id \notin DOMAIN messages BY <2>1, <2>2, <2>3 DEF Bounds, MessagesBound
  <2> QED BY <1>3, <2>4 DEF Message
<1> QED BY <1>2, <1>3

LEMMA StepTurnsKnown ==
  ASSUME CursorInv, NEW p \in Procs, Step(p)
  PROVE  TurnsKnown'
<1> SUFFICES ASSUME Calm', (kind.named \/ Serial)'
             PROVE  HooksHere' /\ FileHere' /\ RowsLinked'
  BY DEF TurnsKnown
<1>1. /\ Comes(p) /\ UNCHANGED <<phase, kind, prompts>> /\ upset \subseteq upset'
      /\ TypeInv /\ Named /\ Linked /\ Rows
  BY StepComes DEF cursor, CursorInv, TypeInv, Shape
<1>2. /\ Calm /\ (kind.named \/ Serial) /\ HooksHere /\ FileHere /\ RowsLinked
      /\ \A q \in Procs : Busy(q) => Fits(q)
  BY <1>1 DEF CursorInv, Calm, Serial, TurnsKnown, Ordered
<1>3. Busy(p) /\ "abandoned" \notin upset'
  BY Works, Scanned, <1>1 DEF Quits, Continues, RecordLlmMessage, Calm
<1>4. Prompting' => Prompting
  BY <1>1 DEF Comes, Prompting, Running
\* The rows of turns keep their prompts.
<1>5. DOMAIN turns \subseteq DOMAIN turns' /\ \A x \in DOMAIN turns : turns'[x].of = turns[x].of
  <2>1. CASE RecordTurn(p) BY <1>2, <2>1, NewTurns
  <2>2. CASE ~RecordTurn(p) BY <1>1, <2>2, TurnSteps
  <2> QED BY <2>1, <2>2
<1>6. \A s : s.turn \in DOMAIN turns \cup {Null} /\ Here(s) => Here(s)'
  BY <1>1, <1>5 DEF Here
<1>7. /\ \A q \in Procs : Busy(q) => hooks[q].state.turn \in DOMAIN turns \cup {Null}
      /\ file # Null => file.turn \in DOMAIN turns \cup {Null}
  BY <1>1, HookFacts, FileFacts
<1>8. RowsLinked'
  <2>1. CASE UNCHANGED messages
    BY <1>1, <1>2, <1>5, <2>1 DEF RowsLinked, Linked
  <2>2. ASSUME NEW id, DOMAIN messages' = DOMAIN messages \cup {id},
               \A x \in DOMAIN messages : x # id => messages'[x] = messages[x],
               messages'[id].turn # Null =>
                 /\ messages'[id].turn \in DOMAIN turns
                 /\ messages'[id].of = turns[messages'[id].turn].of
        PROVE  RowsLinked'
    <3> SUFFICES ASSUME NEW x \in DOMAIN messages', NEW t, t = messages'[x].turn, t # Null
                 PROVE  messages'[x].of = turns'[t].of
      BY DEF RowsLinked
    <3>1. CASE x = id BY <1>5, <2>2, <3>1
    <3>2. CASE x # id
      <4>1. x \in DOMAIN messages /\ messages'[x] = messages[x] BY <2>2, <3>2
      <4>2. t \in DOMAIN turns /\ messages[x].of = turns[t].of BY <1>1, <1>2, <4>1 DEF Linked, RowsLinked
      <4> QED BY <1>5, <4>1, <4>2
    <3> QED BY <3>1, <3>2
  <2>3. CASE RecordLlmMessage(p)
    <3>1. PICK id : /\ DOMAIN messages' = DOMAIN messages \cup {id}
                    /\ \A x \in DOMAIN messages : x # id => messages'[x] = messages[x]
                    /\ messages'[id].turn = Message(id).turn /\ messages'[id].of = Message(id).of
      BY <1>1, <2>3, RecordFacts
    <3>2. Message(id).turn # Null =>
            Message(id).turn \in DOMAIN turns /\ Message(id).of = turns[Message(id).turn].of
      BY <1>1, <1>2 DEF Message, Linked, RowsLinked
    <3> QED BY <2>2, <3>1, <3>2
  <2>4. CASE RecordPlaceholder(p) /\ ~UNCHANGED messages
    <3> DEFINE state == hooks[p].state
               id == HarnessMessageId(prompts, state.messageIndex)
    <3>0. ~RecordLlmMessage(p)
      BY <1>1, <2>4, Writes, AtWork DEF RecordPlaceholder, Loaded, TypeInv
    <3>1. /\ DOMAIN messages' = DOMAIN messages \cup {id}
          /\ \A x \in DOMAIN messages : x # id => messages'[x] = messages[x]
          /\ messages'[id].turn = (IF state.turn = Null THEN Message(id).turn ELSE state.turn)
          /\ messages'[id].of = Message(id).of \cup {prompts}
      BY <1>1, <2>4, <3>0, MessageSteps
    <3>2. Message(id).of \subseteq {prompts} /\ (~kind.named => id \notin DOMAIN messages)
      BY <1>2, <2>4, NewPlaceholders
    <3>3. Began(p) /\ hooks[p].event = "afterAgentResponse"
      BY <1>1, <2>4, AtWork, Places DEF RecordPlaceholder
    <3>4. Here(state) BY <1>2, <1>3, <3>3 DEF HooksHere, Tooling
    <3> HIDE DEF id
    <3>5. messages'[id].of = {prompts} BY <3>1, <3>2
    <3>6. CASE state.turn # Null
      <4>1. state.turn \in DOMAIN turns /\ turns[state.turn].of = {prompts}
        BY <1>3, <1>7, <3>4, <3>6 DEF Here
      <4> QED BY <2>2, <3>1, <3>5, <3>6, <4>1
    <3>7. CASE state.turn = Null
      <4>1. ASSUME Message(id).turn # Null
            PROVE  /\ Message(id).turn \in DOMAIN turns
                   /\ turns[Message(id).turn].of = {prompts}
        <5>1. id \in DOMAIN messages /\ Message(id) = messages[id] BY <4>1 DEF Message
        <5>2. messages[id].turn \in DOMAIN turns /\ messages[id].of = turns[messages[id].turn].of
          BY <1>1, <1>2, <4>1, <5>1 DEF Linked, RowsLinked
        <5>3. kind.named BY <3>2, <5>1
        <5>4. \E g : turns[messages[id].turn].of = {g} BY <1>1, <5>2, <5>3 DEF Named, TurnsNamed
        <5> QED BY <3>2, <5>1, <5>2, <5>4
      <4> QED BY <2>2, <3>1, <3>5, <3>7, <4>1
    <3> QED BY <3>6, <3>7
  <2> QED BY <1>1, <2>1, <2>3, <2>4, MessageSteps
\* What another hook has stays.
<1>9. ASSUME NEW q \in Procs, q # p, Busy(q)'
      PROVE  /\ hooks'[q].event \in Tooling /\ Began(q)' => Here(hooks[q].state)'
             /\ hooks'[q].event = "beforeSubmitPrompt" /\ At(q)' = "write" => Here(hooks[q].state)'
  <2>1. hooks'[q] = hooks[q] /\ Busy(q) BY <1>1, <1>9 DEF Comes
  <2>2. PICK s : s = hooks[q].state OBVIOUS
  <2>3. s.turn \in DOMAIN turns \cup {Null} BY <1>7, <2>1, <2>2
  <2>4. /\ hooks[q].event \in Tooling /\ Began(q) => Here(s)
        /\ hooks[q].event = "beforeSubmitPrompt" /\ At(q) = "write" => Here(s)
    BY <1>2, <2>1, <2>2 DEF HooksHere
  <2>5. hooks'[q].state = s /\ At(q)' = At(q) /\ (Began(q)' <=> Began(q)) BY <2>1, <2>2 DEF At, Began
  <2>6. Here(s) => Here(s)' BY <1>6, <2>3
  <2>7. Here(hooks[q].state)' <=> Here(s)' BY <2>5 DEF Here
  <2> QED BY <2>1, <2>4, <2>5, <2>6, <2>7
<1>10. /\ hooks[p].event \in Tooling => phase = "busy" /\ ~Prompting
       /\ Prompting => hooks[p].event = "beforeSubmitPrompt"
       /\ phase = "busy" => hooks[p].event \in Tooling \cup {"beforeSubmitPrompt"}
  <2>1. Fits(p) /\ \A q \in Procs : Busy(q) => Fits(q) BY <1>2, <1>3
  <2>2. Prompting => hooks[p].event = "beforeSubmitPrompt"
    BY <1>3, <2>1 DEF Prompting, Running, Fits, Alone
  <2>3. hooks[p].event \in DOMAIN Dispatch
    BY <1>1, <1>3, HookFacts DEF Hook, Stages, Dispatch
  <2> QED BY <2>1, <2>2, <2>3, Events DEF Fits, Tooling, Ends
\* The hook of p.
<1>11. ASSUME Busy(p)'
       PROVE  /\ hooks'[p].event \in Tooling /\ Began(p)' => Here(hooks[p].state)'
              /\ hooks'[p].event = "beforeSubmitPrompt" /\ At(p)' = "write" => Here(hooks[p].state)'
  <2>1. PICK s : s = hooks'[p].state OBVIOUS
  <2>2. Here(hooks[p].state)' <=> Here(s)' BY <2>1 DEF Here
  <2>3. PICK y : y = hooks[p].state OBVIOUS
  <2>4. y.turn \in DOMAIN turns \cup {Null} BY <1>3, <1>7, <2>3
  <2>5. /\ hooks[p].event \in Tooling /\ Began(p) => Here(y)
        /\ hooks[p].event = "beforeSubmitPrompt" /\ At(p) = "write" => Here(y)
    BY <1>2, <1>3, <2>3 DEF HooksHere
  <2>6. hooks'[p].event = hooks[p].event BY <1>1, <1>11 DEF Comes
  <2>7. CASE Scans(p)
    <3>1. At(p) = "scan" /\ s = y BY <1>1, <1>11, <2>1, <2>3, <2>7, Scanned DEF Moved
    <3>2. hooks[p].event \in Closers BY <1>1, <1>3, <3>1, Places
    <3> QED BY <1>6, <2>2, <2>4, <2>5, <2>6, <3>1, <3>2 DEF Began, Closers
  <2>8. CASE RecordLlmMessage(p)
    <3>1. At(p) \in Loaded /\ s = y /\ hooks[p].event \in Closers
      BY <1>1, <1>11, <2>1, <2>3, <2>8, Writes DEF TypeInv
    <3> QED BY <1>6, <2>2, <2>4, <2>5, <2>6, <3>1 DEF Began, Loaded, Closers
  <2>9. CASE Continues(p, s) /\ Worked(p, s)
    <3>1. y \in SessionStates /\ Goes(hooks[p].event, At(p), At(p)') BY <1>11, <2>3, <2>9 DEF Continues, Moved
    <3>2. CASE Reads(p, s)
      <4>1. At(p)' = "write" => hooks[p].event # "beforeSubmitPrompt" BY <3>1, <3>2 DEF Goes, Reads
      <4>2. ASSUME hooks[p].event \in Tooling PROVE Here(s)'
        <5>1. file # Null /\ Here(file) BY <1>2, <1>10, <4>2 DEF FileHere
        <5>2. PICK f : f = file OBVIOUS
        <5>3. Here(f)' BY <1>6, <1>7, <5>1, <5>2
        <5>4. s.turn = f.turn
          <6>1. CASE hooks[p].event = "preToolUse"
            <7>1. hooks[p].tool \in Tools /\ Distinct(file) /\ file \in SessionStates
              BY <1>1, <1>3, <5>1, <6>1, HookFacts, FileFacts DEF Hook
            <7> QED BY <3>2, <5>1, <5>2, <6>1, <7>1, BufferFacts DEF Reads
          <6>2. CASE hooks[p].event # "preToolUse" BY <3>2, <5>1, <5>2, <6>2 DEF Reads
          <6> QED BY <6>1, <6>2
        <5> QED BY <5>3, <5>4 DEF Here
      <4> QED BY <2>2, <2>6, <4>1, <4>2
    <3>3. CASE RecordTurn(p) /\ At(p) = "turn" /\
               s = [y EXCEPT !.turnIndex = @ + 1, !.turn = HarnessTurnId(prompts, y.turnIndex + 1)]
      <4>1. s.turn = HarnessTurnId(prompts, y.turnIndex + 1) BY <3>1, <3>3 DEF SessionStates
      <4>2. turns'[s.turn].of = {prompts} BY <1>2, <2>3, <3>3, <4>1, NewTurns
      <4> QED BY <1>1, <2>2, <4>2 DEF Here
    <3>4. ASSUME s.turn = y.turn, At(p) \notin {"read", "session", "turn"}
          PROVE  /\ hooks[p].event \in Tooling => Here(s)'
                 /\ hooks[p].event = "beforeSubmitPrompt" /\ At(p)' = "write" => Here(s)'
      <4>1. Here(y) => Here(s)' BY <1>6, <2>4, <3>4 DEF Here
      <4>2. hooks[p].event = "beforeSubmitPrompt" => At(p)' # "write"
        BY <3>1, <3>4, <2>9 DEF Goes, Worked, Reads, Ends
      <4> QED BY <2>5, <3>4, <4>1, <4>2 DEF Began
    <3>5. CASE RecordSession(p) /\ At(p) = "session"
      <4>1. hooks[p].event = "sessionStart" BY <1>1, <1>3, <3>5, Places
      <4> QED BY <2>6, <4>1 DEF Tooling, Ends
    <3>6. CASE RecordPlaceholder(p) /\ At(p) = "placeholder" /\
               LET id == HarnessMessageId(prompts, y.messageIndex) IN
                 id \in MessageIds /\ s = [y EXCEPT !.messageIndex = @ + 1, !.pending = Append(@, id)]
      <4>1. s.turn = y.turn BY <3>1, <3>6 DEF SessionStates
      <4> QED BY <2>2, <2>6, <3>4, <3>6, <4>1
    <3>7. CASE At(p) = "tool" /\ \E x : s = [y EXCEPT !.active = x]
      <4>1. s.turn = y.turn BY <3>1, <3>7 DEF SessionStates
      <4> QED BY <2>2, <2>6, <3>4, <3>7, <4>1
    <3>8. CASE At(p) = "close"
      <4>1. hooks[p].event = "stop" BY <1>1, <1>3, <3>8, Places
      <4> QED BY <2>6, <4>1 DEF Tooling, Ends
    <3>9. CASE s = y /\ At(p) \in {"write", "git", "end", "delete"}
      BY <2>2, <2>6, <3>4, <3>9
    <3> QED BY <2>3, <2>9, <3>2, <3>3, <3>5, <3>6, <3>7, <3>8, <3>9 DEF Worked
  <2>10. ASSUME NEW z, Continues(p, z) PROVE z = s
    BY <1>11, <2>1, <2>10 DEF Continues, Moved
  <2> QED BY <1>11, <2>7, <2>8, <2>9, <2>10, Works, <1>1 DEF Quits
<1>12. HooksHere'
  BY <1>9, <1>11 DEF HooksHere
\* The state file.
<1>13. FileHere'
  <2> SUFFICES ASSUME phase = "busy", ~Prompting' PROVE file' # Null /\ Here(file)'
    BY <1>1 DEF FileHere
  <2>1. PICK f : f = file' OBVIOUS
  <2>2. Here(file)' <=> Here(f)' BY <2>1 DEF Here
  <2>3. hooks[p].event \in Tooling \cup {"beforeSubmitPrompt"} BY <1>10
  <2>4. CASE WriteState(p)
    <3>1. PICK y : y = hooks[p].state OBVIOUS
    <3>2. /\ f = y /\ At(p) = "write" /\ y \in SessionStates /\ Began(p)
      BY <1>1, <2>1, <2>4, <3>1, AtWork DEF WriteState
    <3>3. Here(y) BY <1>2, <1>3, <2>3, <3>1, <3>2 DEF HooksHere
    <3>4. y.turn \in DOMAIN turns \cup {Null} BY <1>3, <1>7, <3>1
    <3> QED BY <1>6, <2>1, <2>2, <3>2, <3>3, <3>4, NullAssumption
  <2>5. CASE ~WriteState(p)
    <3>1. UNCHANGED file
      <4>1. ~DeleteState(p) BY <1>1, <2>3, AtWork, Places DEF DeleteState, Tooling, Ends
      <4>2. CASE ReadState(p) BY <2>3, <4>2 DEF ReadState, Missing, Tooling, Ends
      <4> QED BY <2>5, <4>1, <4>2 DEF Step, RecordSession, RecordTurn, RecordPlaceholder, RecordToolCall,
            ScanTranscript, ScanSqlite, ScanFails, RecordLlmMessage, CloseTurn, CaptureGit, EndSession, Abandon
    <3>2. ~Prompting
      <4> SUFFICES ASSUME Prompting PROVE FALSE
        OBVIOUS
      <4>1. hooks[p].event = "beforeSubmitPrompt" BY <1>10
      <4>2. ~Busy(p)' BY <1>1, <4>1 DEF Comes, Prompting, Running
      <4>3. ~Quits(p) BY <1>3, <4>1 DEF Quits
      <4>4. ~Scans(p) /\ ~RecordLlmMessage(p)
        BY <1>1, <1>3, <4>1, Scanned, Writes, Places DEF Closers, TypeInv
      <4>5. PICK s : Continues(p, s) /\ Worked(p, s) BY <4>3, <4>4, Works, <1>1
      <4>6. Goes("beforeSubmitPrompt", At(p), "done") BY <4>1, <4>2, <4>5 DEF Continues, Moved
      <4> QED BY <2>5, <4>5, <4>6 DEF Worked, Goes, Reads, Ends
    <3>3. file # Null /\ Here(file) BY <1>2, <3>2 DEF FileHere
    <3> QED BY <1>6, <1>7, <2>1, <2>2, <3>1, <3>3
  <2> QED BY <2>4, <2>5
<1> QED BY <1>8, <1>12, <1>13

LEMMA HarnessTurnsKnown ==
  ASSUME CursorInv, Harness
  PROVE  TurnsKnown'
<1> SUFFICES ASSUME Calm', (kind.named \/ Serial)'
             PROVE  HooksHere' /\ FileHere' /\ RowsLinked'
  BY DEF TurnsKnown
<1>1. UNCHANGED <<file, turns, messages, kind>> /\ upset \subseteq upset' /\ TypeInv /\ Shape
  BY HarnessOpens DEF CursorInv, TypeInv
<1>2. HooksHere /\ FileHere /\ RowsLinked
  BY <1>1 DEF CursorInv, Calm, Serial, TurnsKnown
<1>3. RowsLinked' BY <1>1, <1>2 DEF RowsLinked
<1>4. CASE (BeginUnseen \/ Interrupt) /\ UNCHANGED <<hooks, prompts>>
  <2>1. UNCHANGED Prompting /\ phase' # "busy"
    BY <1>4 DEF BeginUnseen, Interrupt, Prompting, Running, Busy
  <2>2. HooksHere' BY <1>1, <1>2, <1>4 DEF HooksHere, Busy, Began, At, Here
  <2>3. FileHere' BY <2>1 DEF FileHere
  <2> QED BY <1>3, <2>2, <2>3
<1>5. ASSUME NEW p \in Procs, NEW e \in DOMAIN Dispatch, NEW t, Causes(p, e, t), Opens(p, e, t)
      PROVE  HooksHere' /\ FileHere'
  <2>1. Quiet \/ prompts' = prompts
    BY <1>5 DEF Causes, Begin, Prompt, Respond, SubagentEnds, Answered, End, ToolBegins, ToolEnds, cursor
  <2>2. HooksHere'
    <3> SUFFICES ASSUME NEW q \in Procs, Busy(q)'
                 PROVE  /\ hooks'[q].event \in Tooling /\ Began(q)' => Here(hooks[q].state)'
                        /\ hooks'[q].event = "beforeSubmitPrompt" /\ At(q)' = "write" => Here(hooks[q].state)'
      BY DEF HooksHere
    <3>1. CASE q = p BY <1>5, <3>1 DEF Opens, Began
    <3>2. CASE q # p
      <4>1. Busy(q) /\ hooks'[q] = hooks[q] BY <1>5, <3>2 DEF Opens, Busy
      <4>2. prompts' = prompts BY <2>1, <4>1 DEF Quiet
      <4> QED BY <1>1, <1>2, <4>1, <4>2 DEF HooksHere, Began, At, Here
    <3> QED BY <3>1, <3>2
  <2>3. CASE e = "beforeSubmitPrompt"
    <3>1. Prompting' BY <1>5, <2>3 DEF Opens, Prompting, Running
    <3> QED BY <2>2, <3>1 DEF FileHere
  <2>4. CASE e \in {"sessionStart", "stop", "sessionEnd"}
    <3>1. phase' # "busy" BY <1>5, <2>4 DEF Causes, Begin, Answered, End, Ends
    <3> QED BY <2>2, <3>1 DEF FileHere
  <2>5. CASE e \in Tooling
    <3>1. Working /\ UNCHANGED <<phase, prompts>>
      BY <1>5, <2>5 DEF Causes, Tooling, Ends, Respond, SubagentEnds, ToolBegins, ToolEnds, cursor
    <3>2. phase = "busy" /\ ~Prompting BY <3>1 DEF Working, Prompting
    <3>3. file # Null /\ Here(file) BY <1>2, <3>2 DEF FileHere
    <3>4. file' # Null /\ Here(file)' BY <1>1, <3>1, <3>3 DEF Here
    <3> QED BY <2>2, <3>4 DEF FileHere
  <2> QED BY <2>3, <2>4, <2>5, Events DEF Tooling, Ends
<1> QED BY <1>1, <1>3, <1>4, <1>5, HarnessOpens

\* The records of a scan have no numbered ids but those of pending responses.
LEMMA ScanNumbers ==
  ASSUME TypeInv, NEW s \in SessionStates, NEW r,
         \/ r = Entries(FALSE) \/ r = Bubbles \/ r = <<>>
         \/ r = Correlated(Entries(TRUE), s.pending) /\ PendingBound(s)
  PROVE  \A m \in DOMAIN r : \A i \in Nat : r[m].id = <<"m", i>> => i < s.messageIndex
<1>1. \A m : \A i : EntryId(m) # <<"m", i>> BY DEF EntryId
<1>2. CASE r = Entries(FALSE) BY <1>1, <1>2 DEF Entries
<1>3. CASE r = Bubbles BY <1>1, <1>3 DEF Bubbles
<1>4. CASE r = <<>> BY <1>4
<1>5. CASE r = Correlated(Entries(TRUE), s.pending) /\ PendingBound(s)
  <2>1. \A m \in DOMAIN Entries(TRUE) : \A i : Entries(TRUE)[m].id # <<"m", i>>
    BY <1>1 DEF Entries
  <2> DEFINE entries == Entries(TRUE)
             known == s.pending
  <2>2. Records(entries) /\ known \in Seq(MessageIds)
    BY EntryFacts DEF TypeInv, SessionStates
  <2> HIDE DEF entries, known
  <2>3. /\ DOMAIN Correlated(entries, known) = DOMAIN entries
        /\ \A m \in DOMAIN entries :
             \/ Correlated(entries, known)[m] = entries[m]
             \/ \E k \in DOMAIN known : Correlated(entries, known)[m].id = known[k]
    BY <2>2, CorrelatedFacts
  <2> QED BY <1>5, <2>1, <2>3 DEF entries, known, PendingBound
<1> QED BY <1>2, <1>3, <1>4, <1>5

\* Rows of one prompt each.
LEMMA StepRowsSingle ==
  ASSUME CursorInv, ~kind.named, Serial, NEW p \in Procs, Step(p)
  PROVE  RowsSingle'
<1>1. TypeInv /\ Calm /\ RowsSingle
  BY DEF CursorInv, Numbered, Calm, Serial
<1>2. \A id \in DOMAIN turns' : \E g \in turns'[id].of : turns'[id].of = {g}
  <2>0. \A id \in DOMAIN turns : \E g \in turns[id].of : turns[id].of = {g}
    BY <1>1 DEF RowsSingle
  <2>1. CASE RecordTurn(p)
    <3>1. PICK x : /\ DOMAIN turns' = DOMAIN turns \cup {x} /\ turns'[x].of = {prompts}
                   /\ \A y \in DOMAIN turns : turns'[y].of = turns[y].of
      BY <1>1, <2>1, NewTurns
    <3> QED BY <2>0, <3>1
  <2>2. CASE ~RecordTurn(p)
    <3>1. DOMAIN turns' = DOMAIN turns /\ \A y \in DOMAIN turns : turns'[y].of = turns[y].of
      BY <1>1, <2>2, TurnSteps
    <3> QED BY <2>0, <3>1
  <2> QED BY <2>1, <2>2
<1>3. \A id \in DOMAIN messages' : \A g, h \in messages'[id].of : g = h
  <2>0. \A id : \A g, h \in Message(id).of : g = h
    BY <1>1 DEF RowsSingle, Message
  <2>1. ASSUME NEW x, DOMAIN messages' = DOMAIN messages \cup {x},
               \A y \in DOMAIN messages : y # x => messages'[y] = messages[y],
               \A g, h \in messages'[x].of : g = h
        PROVE  \A id \in DOMAIN messages' : \A g, h \in messages'[id].of : g = h
    BY <1>1, <2>1 DEF RowsSingle
  <2>2. CASE UNCHANGED messages BY <1>1, <2>2 DEF RowsSingle
  <2>3. CASE RecordLlmMessage(p)
    <3>1. PICK x : /\ DOMAIN messages' = DOMAIN messages \cup {x}
                   /\ \A y \in DOMAIN messages : y # x => messages'[y] = messages[y]
                   /\ messages'[x].of = Message(x).of
      BY <1>1, <2>3, RecordFacts
    <3>2. \A g, h \in messages'[x].of : g = h BY <2>0, <3>1
    <3> QED BY <2>1, <3>1, <3>2
  <2>4. CASE RecordPlaceholder(p) /\ ~RecordLlmMessage(p) /\ ~UNCHANGED messages
    <3> DEFINE id == HarnessMessageId(prompts, hooks[p].state.messageIndex)
    <3>1. Message(id).of \subseteq {prompts}
      BY <1>1, <2>4, NewPlaceholders
    <3>2. /\ DOMAIN messages' = DOMAIN messages \cup {id}
          /\ \A y \in DOMAIN messages : y # id => messages'[y] = messages[y]
          /\ messages'[id].of = Message(id).of \cup {prompts}
      BY <1>1, <2>4, MessageSteps
    <3> HIDE DEF id
    <3>3. \A g, h \in messages'[id].of : g = h BY <3>1, <3>2
    <3> QED BY <2>1, <3>2, <3>3
  <2> QED BY <1>1, <2>2, <2>3, <2>4, MessageSteps
<1> QED BY <1>2, <1>3 DEF RowsSingle

\* The counters stay ahead.
LEMMA SameBounds ==
  ASSUME NEW s, UNCHANGED <<turns, messages, calls>>, Bounds(s)
  PROVE  Bounds(s)'
BY DEF Bounds, TurnsBound, MessagesBound, CallsBound, PendingBound

LEMMA ReadBounds ==
  ASSUME CursorInv, ~kind.named, Serial, NEW p \in Procs, NEW s, Continues(p, s), Reads(p, s), phase # "over"
  PROVE  Bounds(s) /\ (hooks[p].event # "preToolUse" => s = Now)
<1>1. Busy(p) /\ TypeInv /\ Hook(p) BY DEF Continues, CursorInv
<1>2. \A q \in Procs : Busy(q) => q = p BY <1>1, SerialFacts
<1>3. Bounds(Now)
  <2>1. ~Dirty(p) BY DEF Reads, Dirty, Began
  <2> QED BY <1>2, <2>1 DEF CursorInv, Numbered, FileBound
<1>4. CASE s = Now BY <1>3, <1>4
<1>5. CASE file # Null /\ hooks[p].event = "preToolUse" /\ s = Buffered(p, file)
  <2>1. file \in SessionStates /\ Distinct(file) /\ hooks[p].tool \in Tools
    BY <1>1, <1>5, FileFacts DEF Hook
  <2>2. /\ s.turnIndex = file.turnIndex /\ s.messageIndex = file.messageIndex /\ s.pending = file.pending
        /\ s.toolIndex = file.toolIndex + 1
    BY <1>5, <2>1, BufferFacts
  <2>3. file.toolIndex \in Nat /\ Now = file BY <1>5, <2>1 DEF SessionStates, Now
  <2> QED BY <1>3, <1>5, <2>2, <2>3 DEF Bounds, TurnsBound, MessagesBound, CallsBound, PendingBound
<1> QED BY <1>4, <1>5 DEF Reads, Now

LEMMA WorkBounds ==
  ASSUME CursorInv, ~kind.named, Serial, NEW p \in Procs, Step(p), NEW s, Continues(p, s), Worked(p, s),
         ~Reads(p, s), Dirty(p)
  PROVE  Bounds(s)'
<1> DEFINE state == hooks[p].state
<1>1. /\ Busy(p) /\ TypeInv /\ state \in SessionStates /\ Bounds(state) /\ Calm
      /\ hooks[p].event \in Counting /\ Began(p)
  BY DEF Continues, CursorInv, Numbered, HooksBound, HookBound, Calm, Serial, Dirty
<1>2. state.turnIndex \in Nat /\ state.messageIndex \in Nat /\ state.toolIndex \in Nat
  BY <1>1 DEF SessionStates
<1>3. CASE RecordTurn(p) /\ s = [state EXCEPT !.turnIndex = @ + 1, !.turn = HarnessTurnId(prompts, state.turnIndex + 1)]
  <2>1. HarnessTurnId(prompts, state.turnIndex + 1) = <<"t", state.turnIndex + 1>> BY DEF HarnessTurnId
  <2>2. DOMAIN turns' = DOMAIN turns \cup {<<"t", state.turnIndex + 1>>} /\ UNCHANGED <<messages, calls>>
    BY <1>1, <1>3, <2>1, NewTurns DEF RecordTurn
  <2>3. /\ s.turnIndex = state.turnIndex + 1 /\ s.messageIndex = state.messageIndex
        /\ s.toolIndex = state.toolIndex /\ s.pending = state.pending
    BY <1>1, <1>3 DEF SessionStates
  <2>4. TurnsBound(s)' BY <1>1, <1>2, <2>2, <2>3 DEF Bounds, TurnsBound
  <2> QED BY <1>1, <2>2, <2>3, <2>4 DEF Bounds, MessagesBound, CallsBound, PendingBound
<1>4. CASE RecordPlaceholder(p) /\ At(p) = "placeholder" /\
           LET id == HarnessMessageId(prompts, state.messageIndex) IN
             id \in MessageIds /\ s = [state EXCEPT !.messageIndex = @ + 1, !.pending = Append(@, id)]
  <2> DEFINE id == HarnessMessageId(prompts, state.messageIndex)
  <2>1. id = <<"m", state.messageIndex>> /\ id \in MessageIds BY <1>4 DEF HarnessMessageId
  <2>2. UNCHANGED <<turns, calls>> BY <1>4 DEF RecordPlaceholder
  <2>3. DOMAIN messages' \subseteq DOMAIN messages \cup {id}
    <3>1. ~RecordLlmMessage(p) BY <1>1, <1>4, Writes DEF Loaded, TypeInv
    <3> QED BY <1>1, <3>1, MessageSteps
  <2> HIDE DEF id
  <2>4. /\ s.turnIndex = state.turnIndex /\ s.messageIndex = state.messageIndex + 1
        /\ s.toolIndex = state.toolIndex
        /\ \A k \in DOMAIN s.pending :
              s.pending[k] = id \/ (k \in DOMAIN state.pending /\ s.pending[k] = state.pending[k])
    <3>1. s = [state EXCEPT !.messageIndex = @ + 1, !.pending = Append(@, id)] BY <1>4 DEF id
    <3>2. state \in SessionStates /\ id \in MessageIds BY <1>1, <2>1
    <3> HIDE DEF state
    <3>3. LET t == [state EXCEPT !.messageIndex = @ + 1, !.pending = Append(@, id)] IN
          /\ t.turnIndex = state.turnIndex /\ t.toolIndex = state.toolIndex
          /\ t.messageIndex = state.messageIndex + 1
          /\ \A k \in DOMAIN t.pending :
               t.pending[k] = id \/ (k \in DOMAIN state.pending /\ t.pending[k] = state.pending[k])
      BY <3>2, PendingFacts
    <3> QED BY <3>1, <3>3
  <2>5. MessagesBound(s)' BY <1>1, <1>2, <2>1, <2>3, <2>4 DEF Bounds, MessagesBound
  <2>6. PendingBound(s)' BY <1>1, <1>2, <2>1, <2>4 DEF Bounds, PendingBound
  <2> QED BY <1>1, <2>2, <2>4, <2>5, <2>6 DEF Bounds, TurnsBound, CallsBound
<1>5. CASE RecordToolCall(p) /\ At(p) = "tool" /\ \E x : s = [state EXCEPT !.active = x]
  <2>1. /\ s.turnIndex = state.turnIndex /\ s.messageIndex = state.messageIndex
        /\ s.toolIndex = state.toolIndex /\ s.pending = state.pending
    BY <1>1, <1>5 DEF SessionStates
  <2>2. UNCHANGED <<turns, messages>> BY <1>5 DEF RecordToolCall
  <2>3. hooks[p].event \in Ends BY <1>1, <1>5, Places
  <2>4. state.toolIndex >= 1
    <3>1. HooksOpen BY DEF CursorInv, Opened
    <3> QED BY <1>1, <1>5, <2>3, <3>1 DEF HooksOpen, HookOpen, Open, Tooling
  <2>5. DOMAIN calls' \subseteq DOMAIN calls \cup {<<"tc", state.toolIndex - 1>>}
    <3> DEFINE id == HarnessToolCallId(hooks[p].tool, IF state.toolIndex = 0 THEN 0 ELSE state.toolIndex - 1)
    <3>1. DOMAIN calls' \subseteq DOMAIN calls \cup {id} BY <1>1, CallSteps
    <3>2. id = <<"tc", state.toolIndex - 1>> BY <1>2, <2>4 DEF HarnessToolCallId
    <3> QED BY <3>1, <3>2
  <2>6. CallsBound(s)' BY <1>1, <1>2, <2>1, <2>4, <2>5 DEF Bounds, CallsBound
  <2> QED BY <1>1, <2>1, <2>2, <2>6 DEF Bounds, TurnsBound, MessagesBound, PendingBound
<1>6. CASE CloseTurn(p) /\ s = [state EXCEPT !.turn = Null, !.active = {}, !.pending = <<>>]
  <2>1. /\ DOMAIN turns' = DOMAIN turns /\ UNCHANGED <<messages, calls>>
        /\ s.turnIndex = state.turnIndex /\ s.messageIndex = state.messageIndex
        /\ s.toolIndex = state.toolIndex /\ DOMAIN s.pending = {}
    BY <1>1, <1>6, CloseFacts
  <2> QED BY <1>1, <2>1 DEF Bounds, TurnsBound, MessagesBound, CallsBound, PendingBound
<1>7. CASE s = state /\ UNCHANGED <<turns, messages, calls>>
  BY <1>1, <1>7, SameBounds
<1>8. At(p) \notin {"session", "git", "end", "delete"}
  BY <1>1, Places DEF Counting, Ends
<1> QED BY <1>3, <1>4, <1>5, <1>6, <1>7, <1>8 DEF Worked, WriteState, store

LEMMA StepNumbered ==
  ASSUME CursorInv, NEW p \in Procs, Step(p)
  PROVE  Numbered'
<1> SUFFICES ASSUME ~kind'.named, Serial'
             PROVE  HooksBound' /\ FileBound' /\ RowsSingle'
  BY DEF Numbered
<1>0. PICK e, y : e = hooks[p].event /\ y = hooks[p].state
  OBVIOUS
<1>1. /\ Comes(p) /\ UNCHANGED <<phase, kind, prompts>> /\ upset \subseteq upset' /\ TypeInv
      /\ ~kind.named /\ "abandoned" \notin upset'
  BY StepComes DEF cursor, CursorInv, Serial
<1>2. Serial /\ HooksBound /\ FileBound
  BY <1>1 DEF Serial, CursorInv, Numbered
<1>3. /\ Busy(p) /\ Hook(p) /\ y \in SessionStates /\ e \in DOMAIN Dispatch
      /\ Dirty(p) => Bounds(y)
      /\ e = "subagentStop" /\ Began(p) => y = Now
      /\ e # "sessionEnd" => \A m \in DOMAIN hooks[p].records : \A i \in Nat :
           hooks[p].records[m].id = <<"m", i>> => i < y.messageIndex
  <2>1. Busy(p) BY <1>1, Works, Scanned DEF Quits, Continues, RecordLlmMessage
  <2>2. HookBound(p) BY <1>2, <2>1 DEF HooksBound
  <2> QED BY <1>0, <1>1, <2>1, <2>2, HookFacts DEF Hook, Stages, Dispatch, HookBound
<1>4. /\ \A q \in Procs : Busy(q) => q = p
      /\ \A q \in Procs : Busy(q)' => q = p
      /\ Fits(p) /\ (Busy(p)' => hooks'[p].event = e)
  BY <1>0, <1>1, <1>2, <1>3, SerialFacts DEF Comes
<1>5. RowsSingle' BY <1>1, <1>2, StepRowsSingle
<1>6. (phase = "over") <=> (e = "sessionEnd")
  BY <1>0, <1>3, <1>4, Events DEF Fits, Tooling, Ends
<1>7. ~Dirty(p) /\ e # "sessionEnd" => Bounds(Now)
  BY <1>2, <1>4, <1>6 DEF FileBound
\* What the hook of p and the file must be like.
<1>8. ASSUME Busy(p)', NEW s, hooks'[p].state = s, Dirty(p)' => Bounds(s)',
             e = "subagentStop" => s = Now',
             e # "sessionEnd" => \A m \in DOMAIN hooks'[p].records : \A i \in Nat :
               hooks'[p].records[m].id = <<"m", i>> => i < s.messageIndex
      PROVE  HooksBound'
  <2>1. Bounds(hooks[p].state)' <=> Bounds(s)'
    BY <1>8 DEF Bounds, TurnsBound, MessagesBound, CallsBound, PendingBound
  <2>2. HookBound(p)' BY <1>4, <1>8, <2>1 DEF HookBound
  <2> QED BY <1>4, <2>2 DEF HooksBound
<1>9. ~Busy(p)' => HooksBound' BY <1>4 DEF HooksBound
<1>10. Busy(p)' /\ Dirty(p)' => FileBound' BY DEF FileBound
<1>11. e = "sessionEnd" => FileBound' BY <1>1, <1>6 DEF FileBound
<1>12. Bounds(Now)' => FileBound' BY DEF FileBound
<1>13. ASSUME UNCHANGED <<turns, messages, calls>>, Now' = Now, Bounds(Now) PROVE Bounds(Now)'
  BY <1>13 DEF Bounds, TurnsBound, MessagesBound, CallsBound, PendingBound
<1>14. UNCHANGED file => Now' = Now BY DEF Now
<1>15. CASE Quits(p)
  <2>1. ~Dirty(p) /\ e # "sessionEnd" /\ UNCHANGED <<file, turns, messages, calls>> /\ ~Busy(p)'
    BY <1>0, <1>1, <1>15 DEF Quits, Dirty, Began
  <2> QED BY <1>5, <1>7, <1>9, <1>12, <1>13, <1>14, <2>1
<1>16. CASE Scans(p)
  <2>1. /\ At(p) = "scan" /\ UNCHANGED <<file, turns, messages, calls>> /\ Now' = Now
        /\ e \in Closers
    BY <1>0, <1>1, <1>3, <1>14, <1>16, Scanned, Places
  <2>2. PICK r : /\ Moved(p, y, r)
                 /\ \/ e = "subagentStop" /\ r = Entries(FALSE)
                    \/ e # "subagentStop" /\ r = Correlated(Entries(TRUE), y.pending)
                    \/ r = Bubbles
                    \/ r = <<>>
    BY <1>0, <1>1, <1>16, Scanned
  <2>3. Dirty(p) <=> e = "stop" BY <1>0, <2>1 DEF Dirty, Began, Closers, Counting, Ends
  <2>4. e = "stop" => Bounds(y) /\ Bounds(y)'
    BY <1>3, <2>1, <2>3, SameBounds
  <2>5. e # "sessionEnd" => \A m \in DOMAIN r : \A i \in Nat : r[m].id = <<"m", i>> => i < y.messageIndex
    <3>1. e = "stop" => PendingBound(y) BY <2>4 DEF Bounds
    <3>2. CASE e = "stop" BY <1>1, <1>3, <2>2, <3>1, <3>2, ScanNumbers
    <3>3. CASE e = "subagentStop" BY <1>1, <1>3, <2>2, <3>3, ScanNumbers
    <3> QED BY <2>1, <3>2, <3>3 DEF Closers
  <2>6. CASE Busy(p)'
    <3>1. hooks'[p].state = y /\ hooks'[p].records = r BY <2>2, <2>6 DEF Moved
    <3>2. Dirty(p)' <=> e = "stop"
      BY <1>0, <1>4, <2>1, <2>2, <2>6 DEF Dirty, Began, Closers, Counting, Ends, Moved, Goes
    <3>3. e = "subagentStop" => y = Now' BY <1>3, <2>1 DEF Began
    <3>4. HooksBound' BY <1>8, <2>4, <2>5, <2>6, <3>1, <3>2, <3>3
    <3>5. e = "subagentStop" => Bounds(Now)' BY <1>7, <1>13, <2>1, <2>3
    <3> QED BY <1>5, <1>10, <1>11, <1>12, <2>1, <2>6, <3>2, <3>4, <3>5 DEF Closers
  <2>7. CASE ~Busy(p)'
    <3>1. e = "subagentStop" BY <1>0, <2>1, <2>2, <2>7 DEF Moved, Goes
    <3>2. Bounds(Now)' BY <1>7, <1>13, <2>1, <2>3, <3>1
    <3> QED BY <1>5, <1>9, <1>12, <2>7, <3>2
  <2> QED BY <2>6, <2>7
<1>17. CASE RecordLlmMessage(p)
  <2>1. /\ At(p) \in Loaded /\ e \in Closers /\ UNCHANGED <<file, turns, calls>> /\ Now' = Now
    BY <1>0, <1>1, <1>3, <1>14, <1>17, Writes DEF TypeInv, RecordLlmMessage
  <2>2. PICK m \in DOMAIN hooks[p].records :
          /\ DOMAIN messages' = DOMAIN messages \cup {hooks[p].records[m].id}
          /\ Busy(p)' => hooks'[p].records = Only(hooks[p].records, DOMAIN hooks[p].records \ {m})
    BY <1>1, <1>17, RecordFacts
  <2>3. ASSUME NEW z, Bounds(z), e # "sessionEnd", z.messageIndex = y.messageIndex PROVE Bounds(z)'
    BY <1>3, <2>1, <2>2, <2>3 DEF Bounds, TurnsBound, MessagesBound, CallsBound, PendingBound
  <2>4. Dirty(p) <=> e = "stop" BY <1>0, <2>1 DEF Dirty, Began, Closers, Counting, Ends, Loaded
  <2>5. e = "stop" => Bounds(y)' BY <1>3, <2>3, <2>4
  <2>6. e = "subagentStop" => y = Now /\ Bounds(Now)'
    <3>1. PICK n : n = Now OBVIOUS
    <3>2. e = "subagentStop" => y = n /\ Bounds(n) BY <1>3, <1>7, <2>1, <2>4, <3>1 DEF Began, Loaded
    <3>3. e = "subagentStop" => Bounds(n)' BY <2>3, <3>2
    <3>4. Bounds(n)' <=> Bounds(Now)'
      BY <2>1, <3>1 DEF Bounds, TurnsBound, MessagesBound, CallsBound, PendingBound
    <3> QED BY <3>1, <3>2, <3>3, <3>4
  <2>7. CASE Busy(p)'
    <3>1. hooks'[p].state = y /\ hooks'[p].todo = hooks[p].todo BY <1>0, <1>1, <1>17, <2>7, Writes DEF TypeInv
    <3>2. Dirty(p)' <=> e = "stop" BY <1>0, <1>4, <2>4, <2>7, <3>1 DEF Dirty, Began, At
    <3>3. e # "sessionEnd" => \A l \in DOMAIN hooks'[p].records : \A i \in Nat :
            hooks'[p].records[l].id = <<"m", i>> => i < y.messageIndex
      BY <1>3, <2>2, <2>7 DEF Only
    <3>4. HooksBound' BY <1>8, <2>1, <2>5, <2>6, <2>7, <3>1, <3>2, <3>3
    <3> QED BY <1>5, <1>10, <1>11, <1>12, <2>1, <2>6, <2>7, <3>2, <3>4 DEF Closers
  <2>8. CASE ~Busy(p)'
    <3>1. At(p) = "done" BY <1>1, <1>17, <2>8, Writes DEF TypeInv
    <3>2. e = "subagentStop" BY <1>0, <1>1, <1>3, <3>1, Places
    <3> QED BY <1>5, <1>9, <1>12, <2>6, <2>8, <3>2
  <2> QED BY <2>7, <2>8
<1>18. ASSUME NEW s, Continues(p, s), Worked(p, s)
       PROVE  HooksBound' /\ FileBound'
  <2>1. Busy(p)' => hooks'[p].state = s /\ DOMAIN hooks'[p].records = {} /\ Goes(e, At(p), At(p)')
    BY <1>0, <1>18 DEF Continues, Moved
  <2>2. ~Busy(p)' => Goes(e, At(p), "done") BY <1>0, <1>18 DEF Continues, Moved
  <2>3. Busy(p)' => (Dirty(p)' <=> e \in Counting)
    BY <1>0, <1>4, <2>1 DEF Dirty, Began, Goes
  <2>4. CASE Reads(p, s)
    <3>1. Busy(p)' /\ e # "sessionStart" BY <2>1, <2>2, <2>4 DEF Reads, Goes
    <3>2. CASE e = "sessionEnd"
      <4>1. ~Dirty(p)' BY <2>3, <3>1, <3>2 DEF Counting, Ends
      <4>2. HooksBound' BY <1>8, <2>1, <3>1, <3>2, <4>1
      <4> QED BY <1>11, <3>2, <4>2
    <3>3. CASE e # "sessionEnd"
      <4>1. Bounds(s) /\ (e # "preToolUse" => s = Now) BY <1>0, <1>1, <1>2, <1>6, <1>18, <2>4, <3>3, ReadBounds
      <4>2. UNCHANGED <<file, turns, messages, calls>> /\ Now' = Now
        BY <1>0, <1>14, <2>4, <3>3 DEF Reads, ReadState
      <4>3. Bounds(s)' BY <4>1, <4>2, SameBounds
      <4>4. HooksBound' BY <1>8, <2>1, <3>1, <4>1, <4>2, <4>3
      <4>5. e = "subagentStop" => Bounds(Now)' BY <1>13, <4>1, <4>2
      <4> QED BY <1>3, <1>10, <1>12, <2>3, <3>1, <3>3, <4>4, <4>5, Events DEF Counting, Ends
    <3> QED BY <3>2, <3>3
  <2>5. CASE ~Reads(p, s) /\ Dirty(p)
    <3>1. Bounds(s)' BY <1>1, <1>2, <1>18, <2>5, WorkBounds
    <3>2. e \in Counting /\ e \notin {"subagentStop", "sessionEnd"} BY <1>0, <2>5 DEF Dirty, Counting, Ends
    <3>3. CASE Busy(p)'
      <4>1. HooksBound' BY <1>8, <2>1, <3>1, <3>2, <3>3
      <4> QED BY <1>10, <2>3, <3>2, <3>3, <4>1
    <3>4. CASE ~Busy(p)'
      <4>1. At(p) \notin {"read", "session", "git", "delete", "scan", "turn", "placeholder", "tool", "close", "end"}
        BY <2>2, <2>5, <3>2, <3>4 DEF Goes, Dirty, Began, Counting, Ends
      <4>2. WriteState(p) /\ s = y BY <1>0, <1>18, <2>5, <4>1 DEF Worked
      <4>3. file' = s BY <1>0, <4>2 DEF WriteState
      <4>4. Now' = s BY <1>3, <4>2, <4>3, NullAssumption DEF Now
      <4>5. Bounds(Now)' <=> Bounds(s)'
        BY <4>4 DEF Bounds, TurnsBound, MessagesBound, CallsBound, PendingBound
      <4> QED BY <1>9, <1>12, <3>1, <3>4, <4>5
    <3> QED BY <3>3, <3>4
  <2>6. CASE ~Reads(p, s) /\ ~Dirty(p)
    <3>1. At(p) # "read" BY <1>18, <2>6 DEF Worked, Reads
    <3>2. e \in {"sessionStart", "sessionEnd"}
      <4>1. At(p) = "session" => e = "sessionStart" BY <1>0, <1>1, <1>3, Places
      <4>2. At(p) # "session" => e \notin Counting BY <1>0, <2>6, <3>1 DEF Dirty, Began
      <4>3. e = "subagentStop" => FALSE
        BY <1>0, <1>1, <1>3, <1>18, <2>6, Places DEF Worked, Counting, Ends
      <4> QED BY <1>3, <4>1, <4>2, <4>3, Events DEF Counting, Ends
    <3>3. HooksBound'
      <4>1. ~Dirty(p)' \/ ~Busy(p)' BY <2>3, <3>2 DEF Counting, Ends
      <4> QED BY <1>8, <1>9, <2>1, <3>2, <4>1
    <3>4. CASE e = "sessionStart"
      <4>1. y = Fresh /\ file \in {Null, Fresh} BY <1>0, <1>4, <3>4 DEF Fits
      <4>2. /\ At(p) \notin {"turn", "placeholder", "tool", "close", "end", "delete"}
        BY <1>0, <1>1, <1>3, <3>4, Places DEF Ends
      <4>3. UNCHANGED <<turns, messages, calls>> /\ file' \in {Null, Fresh}
        BY <1>0, <1>18, <2>6, <4>1, <4>2 DEF Worked, RecordSession, WriteState, CaptureGit, store
      <4>4. Now = Fresh /\ Now' = Fresh BY <4>1, <4>3 DEF Now
      <4>5. Bounds(Now)' BY <1>7, <1>13, <2>6, <3>4, <4>3, <4>4
      <4> QED BY <1>12, <3>3, <4>5
    <3> QED BY <1>11, <3>2, <3>3, <3>4
  <2> QED BY <2>4, <2>5, <2>6
<1> QED BY <1>1, <1>5, <1>15, <1>16, <1>17, <1>18, Works

\* Without mishaps, a hook begins while none runs, and a session ends for good.
LEMMA SerialOpens ==
  ASSUME CursorInv, Serial', NEW p \in Procs, NEW e \in DOMAIN Dispatch, NEW t, Causes(p, e, t), Opens(p, e, t),
         upset \subseteq upset'
  PROVE  /\ Quiet /\ \A q \in Procs : Busy(q)' => q = p
         /\ phase # "over" /\ (phase' = "over" => e = "sessionEnd")
<1>1. Calm /\ Phases /\ starts \in Nat /\ "replayed" \notin upset'
  BY DEF CursorInv, TypeInv, Shape, Ordered, Calm, Serial
<1>2. Quiet
  BY DEF Causes, Serial, Begin, Prompt, Respond, SubagentEnds, Answered, End, ToolBegins, ToolEnds,
         Overlap, Mishap
<1>3. phase # "over" /\ (phase' = "over" => e = "sessionEnd")
  <2>1. CASE Begin(p)
    <3>1. starts = 0 /\ phase' = "idle" BY <1>1, <2>1 DEF Begin, Mishap
    <3> QED BY <1>1, <3>1 DEF Phases
  <2>2. CASE ~Begin(p)
    BY <2>2 DEF Causes, Prompt, Respond, SubagentEnds, Answered, End, ToolBegins, ToolEnds, Working, cursor
  <2> QED BY <2>1, <2>2
<1> QED BY <1>2, <1>3 DEF Opens, Quiet, Busy

LEMMA HarnessNumbered ==
  ASSUME CursorInv, Harness
  PROVE  Numbered'
<1> SUFFICES ASSUME ~kind'.named, Serial'
             PROVE  HooksBound' /\ FileBound' /\ RowsSingle'
  BY DEF Numbered
<1>1. UNCHANGED <<file, turns, messages, calls, kind>> /\ upset \subseteq upset' /\ TypeInv
  BY HarnessOpens DEF CursorInv
<1>2. HooksBound /\ FileBound /\ RowsSingle
  BY <1>1 DEF CursorInv, Serial, Numbered
<1>3. RowsSingle' BY <1>1, <1>2 DEF RowsSingle
<1>4. Now' = Now BY <1>1 DEF Now
<1>5. Bounds(Now) => Bounds(Now)'
  BY <1>1, <1>4 DEF Bounds, TurnsBound, MessagesBound, CallsBound, PendingBound
<1>6. CASE (BeginUnseen \/ Interrupt) /\ UNCHANGED hooks
  <2>1. phase # "over" BY <1>6 DEF BeginUnseen, Interrupt, Working
  <2>2. FileBound' BY <1>2, <1>5, <1>6, <2>1 DEF FileBound, Busy, Dirty, Began, At
  <2>3. ASSUME NEW p \in Procs, Busy(p)' PROVE HookBound(p)'
    <3>1. HookBound(p) /\ hooks'[p] = hooks[p] BY <1>2, <1>6, <2>3 DEF HooksBound, Busy
    <3>2. Bounds(hooks[p].state) => Bounds(hooks[p].state)'
      BY <1>1, <3>1 DEF Bounds, TurnsBound, MessagesBound, CallsBound, PendingBound
    <3> QED BY <1>4, <3>1, <3>2 DEF HookBound, Dirty, Began, At
  <2> QED BY <1>3, <2>2, <2>3 DEF HooksBound
<1>7. ASSUME NEW p \in Procs, NEW e \in DOMAIN Dispatch, NEW t, Causes(p, e, t), Opens(p, e, t)
      PROVE  HooksBound' /\ FileBound'
  <2>1. /\ Quiet /\ (\A q \in Procs : Busy(q)' => q = p) /\ phase # "over"
    BY <1>1, <1>7, SerialOpens
  <2>2. HookBound(p)' BY <1>7 DEF Opens, HookBound, Dirty
  <2>3. Bounds(Now)' BY <1>2, <1>5, <2>1 DEF FileBound, Quiet
  <2> QED BY <2>1, <2>2, <2>3 DEF HooksBound, FileBound
<1> QED BY <1>1, <1>3, <1>6, <1>7, HarnessOpens

\* The result of the tool that is open has a row of its own; no tool is open then.
LEMMA NewCalls ==
  ASSUME CursorInv, Serial, NEW p \in Procs, Step(p), RecordToolCall(p)
  PROVE  CallsBegun' /\ \A t \in DOMAIN issued : ~Uncalled(t)'
<1> DEFINE state == hooks[p].state
           tool == hooks[p].tool
           id == HarnessToolCallId(tool, state.toolIndex - 1)
<1>1. /\ Busy(p) /\ At(p) = "tool" /\ Began(p) /\ hooks[p].event \in Ends /\ Distinct(state)
      /\ TypeInv /\ UNCHANGED issued /\ state \in SessionStates
  BY AtWork, Places DEF RecordToolCall, CursorInv, cursor
<1>2. HookOpen(p) /\ OneUncalled /\ CallsBegun
  BY <1>1 DEF CursorInv, Opened, HooksOpen
<1>3. tool \in DOMAIN issued /\ issued[tool] = prompts /\ Uncalled(tool) /\ Open(state)
  BY <1>1, <1>2 DEF HookOpen, Tooling
<1>4. /\ state.toolIndex >= 1 /\ state.toolIndex \in Nat
      /\ [id |-> id, tool |-> tool] \in state.active /\ id \notin DOMAIN calls
  BY <1>1, <1>3 DEF Open, SessionStates
<1>5. (IF state.toolIndex = 0 THEN 0 ELSE state.toolIndex - 1) = state.toolIndex - 1
  BY <1>4
<1>6. /\ DOMAIN calls' = DOMAIN calls \cup {id}
      /\ \A x \in DOMAIN calls : x # id => calls'[x] = calls[x]
      /\ calls'[id].of = {tool}
      /\ IF \E a \in state.active : a.id = id
           THEN \E a \in state.active : a.id = id /\ calls'[id].begun = a.tool
           ELSE calls'[id].begun = Null
  <2>1. ~UNCHANGED calls
    <3>1. \E r : calls' = Set(calls, id, r)
      BY <1>4, <1>5 DEF RecordToolCall
    <3> HIDE DEF id
    <3>2. id \in DOMAIN calls' BY <3>1 DEF Set
    <3> QED BY <1>4, <3>2
  <2>2. LET j == HarnessToolCallId(tool, IF state.toolIndex = 0 THEN 0 ELSE state.toolIndex - 1) IN
        /\ DOMAIN calls' = DOMAIN calls \cup {j}
        /\ \A x \in DOMAIN calls : x # j => calls'[x] = calls[x]
        /\ j \notin DOMAIN calls =>
             /\ calls'[j].of = {tool}
             /\ IF \E a \in state.active : a.id = j
                  THEN \E a \in state.active : a.id = j /\ calls'[j].begun = a.tool
                  ELSE calls'[j].begun = Null
    BY <1>1, <2>1, CallSteps
  <2> QED BY <1>4, <1>5, <2>2
<1> HIDE DEF id
<1>7. calls'[id].begun = tool
  <2> DEFINE a == [id |-> id, tool |-> tool]
  <2>1. a.id = id /\ a.tool = tool OBVIOUS
  <2> HIDE DEF a
  <2>2. \A b \in state.active : b.id = id => b = a BY <1>1, <1>4, <2>1 DEF a, Distinct
  <2> QED BY <1>4, <1>6, <2>1, <2>2 DEF a
<1>8. CallsBegun'
  BY <1>1, <1>2, <1>3, <1>4, <1>6, <1>7 DEF CallsBegun
<1>9. ASSUME NEW t \in DOMAIN issued, Uncalled(t)' PROVE FALSE
  <2>1. Uncalled(t) BY <1>4, <1>6, <1>9 DEF Uncalled
  <2>2. t = tool BY <1>2, <1>3, <2>1 DEF OneUncalled
  <2> QED BY <1>6, <1>9, <2>2 DEF Uncalled
<1> QED BY <1>8, <1>9

\* A preToolUse's tool is the open one of the state it writes.
LEMMA BufferedOpen ==
  ASSUME CursorInv, Serial, NEW p \in Procs, Busy(p), At(p) = "read", hooks[p].event = "preToolUse", file # Null
  PROVE  Open(Buffered(p, file))
<1> DEFINE tool == hooks[p].tool
           id == HarnessToolCallId(tool, file.toolIndex)
<1>1. /\ TypeInv /\ Hook(p) /\ tool \in Tools /\ file \in SessionStates /\ Distinct(file) /\ Calm /\ Fits(p)
      /\ \A q \in Procs : Busy(q) => q = p
  BY FileFacts, HookFacts, SerialFacts DEF Hook, CursorInv
<1>2. HookOpen(p) /\ OneUncalled
  BY DEF CursorInv, Opened, HooksOpen
<1>3. tool \in DOMAIN issued /\ Uncalled(tool)
  BY <1>2 DEF HookOpen
<1>4. id \notin DOMAIN calls
  <2>1. CASE kind.named
    <3>1. id = <<"use", tool>> BY <2>1 DEF HarnessToolCallId
    <3>2. CallsNamed BY <2>1 DEF CursorInv, Named
    <3>3. id \in DOMAIN calls => tool \in calls[id].of BY <3>1, <3>2 DEF CallsNamed
    <3> QED BY <1>3, <3>3 DEF Uncalled
  <2>2. CASE ~kind.named
    <3>1. id = <<"tc", file.toolIndex>> BY <2>2 DEF HarnessToolCallId
    <3>2. ~Dirty(p) BY DEF Dirty, Began
    <3>3. phase = "busy" BY <1>1 DEF Fits, Tooling
    <3>4. Bounds(Now) BY <1>1, <2>2, <3>2, <3>3 DEF CursorInv, Numbered, FileBound
    <3>5. file.toolIndex \in Nat /\ Now = file BY <1>1 DEF SessionStates, Now
    <3> QED BY <3>1, <3>4, <3>5 DEF Bounds, CallsBound
  <2> QED BY <2>1, <2>2
<1> DEFINE b == Buffered(p, file)
<1>5. /\ b.toolIndex = file.toolIndex + 1 /\ file.toolIndex \in Nat
      /\ [id |-> id, tool |-> tool] \in b.active
  BY <1>1, BufferFacts DEF SessionStates
<1> HIDE DEF b
<1>6. b.toolIndex >= 1 /\ b.toolIndex - 1 = file.toolIndex BY <1>5
<1>7. ASSUME NEW t \in DOMAIN issued, Uncalled(t)
      PROVE  /\ [id |-> HarnessToolCallId(t, b.toolIndex - 1), tool |-> t] \in b.active
             /\ HarnessToolCallId(t, b.toolIndex - 1) \notin DOMAIN calls
  <2>1. t = tool BY <1>2, <1>3, <1>7 DEF OneUncalled
  <2> QED BY <1>4, <1>5, <1>6, <2>1
<1>8. Open(b) BY <1>6, <1>7 DEF Open
<1> QED BY <1>8 DEF b

LEMMA StepOpened ==
  ASSUME CursorInv, NEW p \in Procs, Step(p)
  PROVE  Opened'
<1> SUFFICES ASSUME Serial' PROVE HooksOpen' /\ FileOpen' /\ OneUncalled' /\ CallsBegun'
  BY DEF Opened
<1>0. PICK e, y : e = hooks[p].event /\ y = hooks[p].state
  OBVIOUS
<1>1. /\ Comes(p) /\ UNCHANGED <<phase, kind, prompts, issued>> /\ upset \subseteq upset' /\ TypeInv
      /\ "abandoned" \notin upset'
  BY StepComes DEF cursor, CursorInv, Serial
<1>2. Serial /\ HooksOpen /\ FileOpen /\ OneUncalled /\ CallsBegun
  BY <1>1 DEF Serial, CursorInv, Opened
<1>3. /\ Busy(p) /\ Hook(p) /\ y \in SessionStates /\ e \in DOMAIN Dispatch /\ HookOpen(p)
      /\ e \in Tooling /\ Began(p) => Open(y)
  <2>1. Busy(p) BY <1>1, Works, Scanned DEF Quits, Continues, RecordLlmMessage
  <2> QED BY <1>0, <1>1, <1>2, <2>1, HookFacts DEF Hook, Stages, Dispatch, HooksOpen, HookOpen
<1>4. /\ \A q \in Procs : Busy(q) => q = p
      /\ \A q \in Procs : Busy(q)' => q = p
      /\ Fits(p) /\ (Busy(p)' => hooks'[p].event = e /\ hooks'[p].tool = hooks[p].tool) /\ Calm
  BY <1>0, <1>1, <1>2, <1>3, SerialFacts DEF Comes
<1>5. phase = "busy" <=> e \in Tooling \cup {"beforeSubmitPrompt"}
  BY <1>0, <1>3, <1>4, Events DEF Fits, Tooling, Ends
<1>6. e \in Tooling => file # Null
  <2>1. e \in Tooling => ~Prompting
    BY <1>0, <1>4 DEF Prompting, Running, Tooling, Ends
  <2> QED BY <1>2, <1>4, <1>5, <2>1 DEF CursorInv, TurnsKnown, FileHere
<1>7. e = "beforeSubmitPrompt" => \A t \in DOMAIN issued : issued[t] # prompts
  <2>1. e = "beforeSubmitPrompt" => Prompting BY <1>0, <1>3 DEF Prompting, Running
  <2>2. Prompting => \A t \in DOMAIN issued : issued[t] \in 0 .. prompts /\ issued[t] < prompts /\ prompts \in Nat
    BY <1>1 DEF TypeInv, Issued, Shape
  <2> QED BY <2>1, <2>2
<1>8. e \in {"afterAgentResponse", "subagentStop"} \cup Ends /\ ~Began(p) => Open(Now)
  BY <1>0, <1>2, <1>4, <1>5 DEF FileOpen, Dirty, Tooling, Ends
\* What is to be shown.
<1>9. ASSUME UNCHANGED calls
      PROVE  /\ OneUncalled' /\ CallsBegun' /\ \A t : Uncalled(t)' <=> Uncalled(t)
             /\ \A z : Open(z)' <=> Open(z)
  <2>1. \A t : Uncalled(t)' <=> Uncalled(t) BY <1>9 DEF Uncalled
  <2> QED BY <1>1, <1>2, <1>9, <2>1 DEF OneUncalled, CallsBegun, Open, HarnessToolCallId
<1>10. ASSUME Busy(p)', UNCHANGED calls, e \in Ends /\ At(p)' # "write" => At(p) # "write",
              e \in Tooling /\ Began(p)' => Open(hooks'[p].state)
       PROVE  HooksOpen'
  <2>1. Open(hooks[p].state)' <=> Open(hooks'[p].state)
    BY <1>1, <1>10 DEF Open, Uncalled, HarnessToolCallId
  <2>2. HookOpen(p)' BY <1>0, <1>1, <1>3, <1>4, <1>9, <1>10, <2>1 DEF HookOpen
  <2> QED BY <1>4, <2>2 DEF HooksOpen
<1>11. ~Busy(p)' => HooksOpen' BY <1>4 DEF HooksOpen
<1>12. phase # "busy" \/ Open(Now)' \/ (Busy(p)' /\ (Dirty(p)' \/ e = "preToolUse")) => FileOpen'
  BY <1>1, <1>4 DEF FileOpen
<1>13. UNCHANGED file => Now' = Now BY DEF Now
<1>14. ASSUME UNCHANGED calls, Open(Now') PROVE Open(Now)'
  BY <1>1, <1>14 DEF Open, Uncalled, HarnessToolCallId
<1>15. CASE Quits(p)
  <2>1. At(p) = "read" /\ file = Null /\ e # "beforeSubmitPrompt" /\ ~Busy(p)' /\ UNCHANGED calls
    BY <1>0, <1>1, <1>15 DEF Quits
  <2>2. phase # "busy" BY <1>5, <1>6, <2>1
  <2> QED BY <1>9, <1>11, <1>12, <2>1, <2>2
\* A subagent's records: state, file and tool calls stay.
<1>16. ASSUME Scans(p) \/ RecordLlmMessage(p)
       PROVE  HooksOpen' /\ FileOpen' /\ OneUncalled' /\ CallsBegun'
  <2>1. /\ At(p) \in Loaded \cup {"scan"} /\ e \in Closers /\ UNCHANGED <<file, calls>> /\ Now' = Now
        /\ (Busy(p)' => hooks'[p].state = y)
    <3>1. CASE Scans(p)
      BY <1>0, <1>1, <1>3, <1>13, <3>1, Scanned, Places DEF Moved
    <3>2. CASE RecordLlmMessage(p)
      BY <1>0, <1>1, <1>3, <1>13, <3>2, Writes DEF TypeInv, RecordLlmMessage
    <3> QED BY <1>16, <3>1, <3>2
  <2>2. Began(p) BY <2>1 DEF Began, Loaded
  <2>3. HooksOpen'
    <3>1. e \in Tooling => Open(y) BY <1>3, <2>2
    <3>2. e \notin Ends BY <2>1 DEF Closers, Ends
    <3> QED BY <1>10, <1>11, <2>1, <3>1, <3>2
  <2>4. FileOpen'
    <3>1. CASE e = "subagentStop"
      <4>1. ~Dirty(p) BY <1>0, <3>1 DEF Dirty, Counting, Ends
      <4>2. Open(Now) BY <1>0, <1>2, <1>4, <1>5, <3>1, <4>1 DEF FileOpen, Tooling
      <4> QED BY <1>12, <1>14, <2>1, <4>2
    <3>2. CASE e # "subagentStop"
      <4>1. phase # "busy" BY <1>5, <2>1, <3>2 DEF Closers, Tooling, Ends
      <4> QED BY <1>12, <4>1
    <3> QED BY <3>1, <3>2
  <2> QED BY <1>9, <2>1, <2>3, <2>4
<1>17. CASE RecordToolCall(p)
  <2>1. CallsBegun' /\ \A t \in DOMAIN issued' : ~Uncalled(t)'
    BY <1>1, <1>2, <1>17, NewCalls
  <2>2. OneUncalled' BY <2>1 DEF OneUncalled
  <2>3. \A z : Open(z)' BY <2>1 DEF Open
  <2>4. /\ e \in Ends /\ At(p) = "tool" /\ Doing(p, "tool")
    BY <1>0, <1>1, <1>3, <1>17, AtWork, Places DEF RecordToolCall
  <2>5. Busy(p)' => At(p)' = "write"
    <3>1. ~Quits(p) /\ ~Scans(p) /\ ~RecordLlmMessage(p)
      BY <1>1, <2>4, Scanned, Writes DEF Quits, Loaded, TypeInv
    <3>2. PICK s : Continues(p, s) BY <1>1, <3>1, Works
    <3> QED BY <1>0, <2>4, <3>2 DEF Continues, Moved, Goes
  <2>6. ASSUME Busy(p)' PROVE HookOpen(p)'
    <3>1. PICK z : z = hooks'[p].state OBVIOUS
    <3>2. Open(hooks[p].state)' BY <2>3, <3>1 DEF Open
    <3>3. hooks'[p].event # "preToolUse" BY <1>4, <2>4, <2>6 DEF Ends
    <3> QED BY <1>0, <1>1, <1>3, <1>4, <2>4, <2>5, <2>6, <3>2, <3>3 DEF HookOpen
  <2>7. HooksOpen' BY <1>4, <2>6 DEF HooksOpen
  <2>8. Open(Now)'
    <3>1. PICK z : z = Now' OBVIOUS
    <3> QED BY <2>3, <3>1 DEF Open
  <2> QED BY <1>12, <2>1, <2>2, <2>7, <2>8
<1>18. ASSUME NEW s, Continues(p, s), Worked(p, s), ~RecordToolCall(p)
       PROVE  HooksOpen' /\ FileOpen' /\ OneUncalled' /\ CallsBegun'
  <2>1. /\ Busy(p)' => hooks'[p].state = s /\ Goes(e, At(p), At(p)') /\ At(p)' # "done"
        /\ ~Busy(p)' => Goes(e, At(p), "done")
    BY <1>0, <1>18 DEF Continues, Moved
  <2>2. UNCHANGED calls
    BY <1>18 DEF Worked, Reads, ReadState, RecordSession, RecordTurn, RecordPlaceholder, CloseTurn, WriteState,
         CaptureGit, EndSession, DeleteState, store
  <2>3. Busy(p)' /\ e \in Counting => Dirty(p)' BY <1>4, <2>1 DEF Dirty, Began, Goes
  <2>4. e \in Ends /\ At(p)' # "write" /\ Busy(p)' => At(p) # "write"
    BY <2>1 DEF Goes, Ends
  <2>5. e \in Tooling => Open(s)
    <3>1. CASE Reads(p, s)
      <4>1. CASE e = "preToolUse"
        <5>1. s = Buffered(p, file) /\ file # Null BY <1>0, <3>1, <4>1 DEF Reads
        <5>2. Open(Buffered(p, file)) BY <1>0, <1>2, <1>3, <3>1, <4>1, <5>1, BufferedOpen DEF Reads
        <5> QED BY <5>1, <5>2
      <4>2. CASE e # "preToolUse"
        <5>1. e \in Tooling => Open(Now) BY <1>8, <3>1, <4>2 DEF Tooling, Began, Reads
        <5>2. e \in Tooling => s = Now BY <1>0, <1>6, <3>1, <4>2 DEF Reads, Now
        <5> QED BY <5>1, <5>2
      <4> QED BY <4>1, <4>2
    <3>2. CASE ~Reads(p, s) /\ e \in Tooling
      <4>1. /\ At(p) \notin {"session", "turn", "close", "git", "end", "delete"}
        BY <1>0, <1>1, <1>3, <3>2, Places DEF Tooling, Ends
      <4>2. At(p) \in {"placeholder", "write"} BY <1>18, <3>2, <4>1 DEF Worked
      <4>3. Open(y) BY <1>3, <3>2, <4>2 DEF Began
      <4>4. s.active = y.active /\ s.toolIndex = y.toolIndex
        <5>1. CASE s = y BY <5>1
        <5>2. CASE LET id == HarnessMessageId(prompts, y.messageIndex) IN
                     id \in MessageIds /\ s = [y EXCEPT !.messageIndex = @ + 1, !.pending = Append(@, id)]
          BY <1>3, <5>2 DEF SessionStates
        <5> QED BY <1>0, <1>18, <3>2, <4>1, <5>1, <5>2 DEF Worked
      <4> QED BY <4>3, <4>4 DEF Open
    <3> QED BY <3>1, <3>2
  <2>6. HooksOpen' BY <1>10, <1>11, <2>1, <2>2, <2>4, <2>5
  <2>7. FileOpen'
    <3>1. CASE phase # "busy" BY <1>12, <3>1
    <3>2. CASE Busy(p)' /\ e \in Counting BY <1>12, <2>3, <3>2
    <3>3. CASE e = "subagentStop"
      <4>1. Reads(p, s) BY <1>0, <1>1, <1>3, <1>18, <3>3, Places DEF Worked, Closers, Counting, Ends
      <4>2. Open(Now) /\ Now' = Now BY <1>8, <1>13, <3>3, <4>1, <1>0 DEF Began, Reads
      <4> QED BY <1>12, <1>14, <2>2, <4>2
    <3>4. CASE phase = "busy" /\ ~Busy(p)' /\ e # "subagentStop"
      <4>1. At(p) = "write"
        <5>1. e \in Counting BY <1>5, <3>4 DEF Tooling, Counting, Ends
        <5> QED BY <1>18, <2>1, <3>4, <5>1 DEF Goes, Worked, Reads, Counting, Ends
      <4>2. WriteState(p) /\ s = y BY <1>0, <1>18, <4>1 DEF Worked, Reads
      <4>3. Now' = y BY <1>0, <1>3, <4>2, NullAssumption DEF Now, WriteState
      <4>4. Open(y)
        <5>1. e = "beforeSubmitPrompt" => Open(y) BY <1>7 DEF Open
        <5> QED BY <1>5, <2>5, <3>4, <4>2, <5>1
      <4> QED BY <1>12, <1>14, <2>2, <4>3, <4>4
    <3> QED BY <1>5, <3>1, <3>2, <3>3, <3>4 DEF Tooling, Counting, Ends
  <2> QED BY <1>9, <2>2, <2>6, <2>7
<1> QED BY <1>1, <1>15, <1>16, <1>17, <1>18, Works

LEMMA HarnessOpened ==
  ASSUME CursorInv, Harness
  PROVE  Opened'
<1> SUFFICES ASSUME Serial' PROVE HooksOpen' /\ FileOpen' /\ OneUncalled' /\ CallsBegun'
  BY DEF Opened
<1>1. UNCHANGED <<file, turns, messages, calls, kind>> /\ upset \subseteq upset' /\ TypeInv /\ prompts \in Nat
  BY HarnessOpens DEF CursorInv, TypeInv, Shape
<1>2. HooksOpen /\ FileOpen /\ OneUncalled /\ CallsBegun
  BY <1>1 DEF CursorInv, Serial, Opened
<1>3. /\ Now' = Now /\ \A t : Uncalled(t)' <=> Uncalled(t)
  BY <1>1 DEF Now, Uncalled
<1>4. UNCHANGED issued => OneUncalled' /\ CallsBegun'
  BY <1>1, <1>2, <1>3 DEF OneUncalled, CallsBegun
<1>5. ASSUME UNCHANGED <<issued, prompts>>, Open(Now) PROVE Open(Now)'
  BY <1>1, <1>3, <1>5 DEF Open, HarnessToolCallId
<1>6. CASE (BeginUnseen \/ Interrupt) /\ UNCHANGED <<hooks, prompts, issued>>
  <2>1. FileOpen' BY <1>6 DEF BeginUnseen, Interrupt, FileOpen
  <2>2. ASSUME NEW p \in Procs, Busy(p)' PROVE HookOpen(p)'
    <3>1. HookOpen(p) /\ hooks'[p] = hooks[p] BY <1>2, <1>6, <2>2 DEF HooksOpen, Busy
    <3>2. Open(hooks[p].state) => Open(hooks[p].state)'
      BY <1>1, <1>3, <1>6, <3>1 DEF Open, HarnessToolCallId
    <3> QED BY <1>3, <1>6, <3>1, <3>2 DEF HookOpen, Began, At
  <2> QED BY <1>4, <1>6, <2>1, <2>2 DEF HooksOpen
<1>7. ASSUME NEW p \in Procs, NEW e \in DOMAIN Dispatch, NEW t, Causes(p, e, t), Opens(p, e, t)
      PROVE  HooksOpen' /\ FileOpen' /\ OneUncalled' /\ CallsBegun'
  <2>1. Quiet /\ (\A q \in Procs : Busy(q)' => q = p) /\ (phase = "busy" => Open(Now))
    BY <1>1, <1>2, <1>7, SerialOpens DEF FileOpen, Quiet
  <2>2. Busy(p)' /\ hooks'[p].event = e /\ hooks'[p].tool = t /\ ~Began(p)'
    BY <1>7 DEF Opens
  <2>3. CASE e = "preToolUse"
    <3>1. ToolBegins(p, t) /\ t \in Tools BY <1>7, <2>3 DEF Causes, Ends
    <3>2. /\ issued' = Set(issued, t, prompts) /\ prompts' = prompts /\ t \notin DOMAIN issued
          /\ \A u \in DOMAIN issued : ~Uncalled(u)
      BY <3>1 DEF ToolBegins, Serial, Mishap, Uncalled
    <3>3. DOMAIN issued' = DOMAIN issued \cup {t} /\ issued'[t] = prompts' BY <3>2 DEF Set
    <3>4. Uncalled(t)' BY <1>2, <1>3, <3>2 DEF CallsBegun, Uncalled
    <3>5. OneUncalled' BY <1>3, <3>2, <3>3 DEF OneUncalled
    <3>6. CallsBegun' BY <1>1, <1>2, <3>3 DEF CallsBegun
    <3>7. HookOpen(p)' BY <2>2, <2>3, <3>3, <3>4 DEF HookOpen
    <3>8. FileOpen' BY <2>2, <2>3 DEF FileOpen
    <3> QED BY <2>1, <3>5, <3>6, <3>7, <3>8 DEF HooksOpen
  <2>4. CASE e \in Ends
    <3>1. ToolEnds(p, t) BY <1>7, <2>4 DEF Causes, Ends
    <3>2. /\ UNCHANGED <<issued, prompts, phase>> /\ t \in DOMAIN issued /\ issued[t] = prompts /\ Uncalled(t)
          /\ phase = "busy"
      BY <3>1 DEF ToolEnds, Working, cursor, Uncalled
    <3>3. HookOpen(p)' BY <1>3, <2>2, <2>4, <3>2 DEF HookOpen
    <3>4. FileOpen' BY <1>5, <2>1, <3>2 DEF FileOpen
    <3> QED BY <1>4, <2>1, <3>2, <3>3, <3>4 DEF HooksOpen
  <2>5. CASE e \notin Ends \cup {"preToolUse"}
    <3>1. HookOpen(p)' BY <2>2, <2>5 DEF HookOpen
    <3>2. UNCHANGED issued
      BY <1>7, <2>5 DEF Causes, Begin, Prompt, Respond, SubagentEnds, Answered, End
    <3>3. FileOpen'
      <4>1. CASE Prompt(p)
        <5>1. prompts' = prompts + 1 BY <4>1 DEF Prompt
        <5>2. \A u \in DOMAIN issued' : issued'[u] # prompts'
          BY <1>1, <3>2, <5>1 DEF TypeInv, Issued
        <5>3. Open(Now)' BY <5>2 DEF Open
        <5> QED BY <5>3 DEF FileOpen
      <4>2. CASE ~Prompt(p)
        <5>1. prompts' = prompts /\ (phase' = "busy" => phase = "busy")
          BY <1>7, <2>5, <4>2 DEF Causes, Begin, Respond, SubagentEnds, Answered, End
        <5> QED BY <1>5, <2>1, <3>2, <5>1 DEF FileOpen
      <4> QED BY <4>1, <4>2
    <3> QED BY <1>4, <2>1, <3>1, <3>2, <3>3 DEF HooksOpen
  <2> QED BY <2>3, <2>4, <2>5
<1> QED BY <1>1, <1>6, <1>7, HarnessOpens

-----------------------------------------------------------------------------
(* Rows apart                                                              *)

\* Every part of the invariant leans on others: numbered rows on who runs beside
\* whom, turns on the state file's, tools on numbered rows.
THEOREM CursorInvariant == Spec => []CursorInv
<1>1. Init => CursorInv
  <2> SUFFICES ASSUME Init PROVE CursorInv
    OBVIOUS
  <2>1. \A p \in Procs : ~Busy(p) BY DEF Init, Busy
  <2>2. turns = <<>> /\ messages = <<>> /\ calls = <<>> /\ issued = <<>> /\ phase = "off" /\ starts = 0 /\ file = Null
    BY DEF Init
  <2>3. TypeInv BY InitTypes
  <2>4. Named
    BY <2>1, <2>2 DEF Named, TurnsNamed, MessagesNamed, CallsNamed, CopiesNamed, Copies
  <2>5. Ordered BY <2>1, <2>2 DEF Ordered, Phases, Quiet
  <2>6. OneAtATime BY <2>1 DEF OneAtATime
  <2>7. TurnsKnown BY <2>1, <2>2 DEF TurnsKnown, HooksHere, FileHere, RowsLinked
  <2>8. Numbered
    <3>1. Bounds(Now)
      BY <2>2, FreshState DEF Bounds, TurnsBound, MessagesBound, CallsBound, PendingBound, Now
    <3> QED BY <2>1, <2>2, <3>1 DEF Numbered, HooksBound, FileBound, RowsSingle
  <2>9. Opened BY <2>1, <2>2 DEF Opened, HooksOpen, FileOpen, OneUncalled, CallsBegun
  <2> QED BY <2>3, <2>4, <2>5, <2>6, <2>7, <2>8, <2>9 DEF CursorInv
<1>2. CursorInv /\ UNCHANGED vars => CursorInv'
  <2> SUFFICES ASSUME CursorInv, UNCHANGED vars PROVE CursorInv'
    OBVIOUS
  <2>1. UNCHANGED <<kind, file, hooks, turns, messages, calls, phase, prompts, issued, starts, upset>>
    BY DEF vars, store, cursor, trouble
  <2>2. TypeInv' BY StutterTypes DEF CursorInv
  <2>3. Named'
    BY <2>1 DEF CursorInv, Named, TurnsNamed, MessagesNamed, CallsNamed, CopiesNamed, Copies, Busy
  <2>4. \A p \in Procs : /\ Busy(p)' <=> Busy(p)
                         /\ Alone(p)' <=> Alone(p)
                         /\ At(p)' = At(p)
                         /\ Began(p)' <=> Began(p)
                         /\ Dirty(p)' <=> Dirty(p)
    BY <2>1 DEF Busy, Alone, At, Began, Dirty
  <2>5. Ordered' /\ OneAtATime'
    BY <2>1, <2>4 DEF CursorInv, Ordered, OneAtATime, Calm, Serial, Phases, Quiet, Fits
  <2>6. TurnsKnown'
    BY <2>1, <2>4 DEF CursorInv, TurnsKnown, Calm, Serial, HooksHere, FileHere, RowsLinked, Here, Prompting,
                      Running
  <2>7. Now' = Now BY <2>1 DEF Now
  <2>8. Numbered'
    BY <2>1, <2>4, <2>7 DEF CursorInv, Numbered, Serial, HooksBound, HookBound, FileBound, RowsSingle,
                      Bounds, TurnsBound, MessagesBound, CallsBound, PendingBound
  <2>9. Opened'
    BY <2>1, <2>4, <2>7 DEF CursorInv, Opened, Serial, HooksOpen, HookOpen, FileOpen, OneUncalled, CallsBegun,
                      Open, Uncalled, HarnessToolCallId
  <2> QED BY <2>2, <2>3, <2>5, <2>6, <2>8, <2>9 DEF CursorInv
<1>3. CursorInv /\ [Next]_vars => CursorInv'
  <2>1. ASSUME CursorInv, NEW p \in Procs, Step(p) PROVE CursorInv'
    <3>1. TypeInv /\ Named /\ Ordered /\ OneAtATime BY <2>1 DEF CursorInv
    <3> QED BY <2>1, <3>1, StepTypes, StepNamed, StepOrdered, StepOneAtATime, StepTurnsKnown, StepNumbered,
               StepOpened DEF CursorInv
  <2>2. ASSUME CursorInv, Harness PROVE CursorInv'
    <3>1. TypeInv /\ Named /\ Ordered /\ OneAtATime BY <2>2 DEF CursorInv
    <3> QED BY <2>2, <3>1, HarnessTypes, HarnessNamed, HarnessOrdered, HarnessOneAtATime, HarnessTurnsKnown,
               HarnessNumbered, HarnessOpened DEF CursorInv
  <2> QED BY <1>2, <2>1, <2>2 DEF Next
<1> QED BY <1>1, <1>3, PTL DEF Spec

\* Nothing but what leaves the hooks in order has happened.
LEMMA SerialUpset ==
  ASSUME TypeInv, upset \subseteq {"unreadable", "interrupted", "uncounted"}
  PROVE  Serial
BY DEF Serial

LEMMA ResponsesAreApart ==
  ASSUME CursorInv
  PROVE  ResponsesApart
<1> SUFFICES ASSUME kind.named \/ Serial
             PROVE  /\ \A id \in DOMAIN turns : Cardinality(turns[id].of) = 1
                    /\ \A id \in DOMAIN messages :
                         /\ Cardinality(messages[id].of) <= 1
                         /\ messages[id].turn # Null /\ Calm => messages[id].of = turns[messages[id].turn].of
  BY DEF ResponsesApart, Serial, Calm
<1>1. ASSUME NEW id \in DOMAIN turns PROVE Cardinality(turns[id].of) = 1
  <2>1. \E g : turns[id].of = {g}
    BY DEF CursorInv, Named, TurnsNamed, Numbered, RowsSingle
  <2> QED BY <2>1, FS_Singleton
<1>2. ASSUME NEW id \in DOMAIN messages PROVE Cardinality(messages[id].of) <= 1
  <2>1. \A g, h \in messages[id].of : g = h
    <3>1. CASE kind.named
      <4>1. \A g \in messages[id].of : id = <<"gen", g>>
        BY <3>1 DEF CursorInv, Named, MessagesNamed
      <4> QED BY <4>1
    <3>2. CASE ~kind.named BY <3>2 DEF CursorInv, Numbered, RowsSingle
    <3> QED BY <3>1, <3>2
  <2>2. CASE messages[id].of = {}
    <3>1. Cardinality(messages[id].of) = 0 BY <2>2, FS_EmptySet
    <3> QED BY <3>1
  <2>3. CASE messages[id].of # {}
    <3>1. \E g : messages[id].of = {g} BY <2>1, <2>3
    <3>2. Cardinality(messages[id].of) = 1 BY <3>1, FS_Singleton
    <3> QED BY <3>2
  <2> QED BY <2>2, <2>3
<1>3. Calm => RowsLinked
  BY DEF CursorInv, TurnsKnown
<1> QED BY <1>1, <1>2, <1>3 DEF RowsLinked

LEMMA ToolsAreApart ==
  ASSUME CursorInv
  PROVE  ToolsApart
<1> SUFFICES ASSUME kind.named \/ upset \subseteq {"unreadable", "interrupted", "uncounted"},
                    NEW id \in DOMAIN calls
             PROVE  \E t \in Tools :
                      /\ calls[id].of = {t}
                      /\ calls[id].begun \in {t, Null}
                      /\ upset = {} => calls[id].begun = t
  BY DEF ToolsApart
<1>1. TypeInv BY DEF CursorInv
<1>2. ASSUME Serial PROVE \E t \in Tools : calls[id].of = {t} /\ calls[id].begun = t
  BY <1>1, <1>2 DEF CursorInv, Opened, CallsBegun, TypeInv, Issued
<1>3. upset = {} => Serial BY DEF Serial
<1>4. CASE Serial BY <1>2, <1>4
<1>5. CASE ~Serial
  <2>1. kind.named BY <1>1, <1>5, SerialUpset
  <2> QED BY <1>3, <1>5, <2>1 DEF CursorInv, Named, CallsNamed
<1> QED BY <1>4, <1>5

\* RowsApart: turns, responses and tool calls have rows of their own, a response
\* that of its generation's turn and a tool call its own start; where payloads
\* have no ids, only while the hooks take turns.
THEOREM EveryRowApart == Spec => []RowsApart
<1>1. CursorInv => RowsApart
  BY ResponsesAreApart, ToolsAreApart DEF RowsApart
<1> QED BY <1>1, CursorInvariant, PTL
=============================================================================
