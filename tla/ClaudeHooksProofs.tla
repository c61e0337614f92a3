-------------------------- MODULE ClaudeHooksProofs --------------------------
(***************************************************************************)
(* What the hooks of a Claude Code session guarantee for every number of   *)
(* processes, prompts, responses, tools and mishaps: hooks that overlap    *)
(* lose updates of the state file, but never the turn (IInv); and no scan  *)
(* skips a line of a transcript, or records it in another turn (ScanInv).  *)
(***************************************************************************)
EXTENDS ClaudeHooks, SequenceTheorems, NaturalsInduction, WellFoundedInduction, TLAPS

-----------------------------------------------------------------------------
(* Turns and tools: the inductive invariant                                *)

\* What is left to do of a handler.
Stages ==
  [SessionStart     |-> {<<"session", "write", "git">>, <<"write", "git">>, <<"git">>},
   UserPromptSubmit |-> {<<"read", "turn", "write">>, <<"turn", "write">>, <<"write">>},
   PreToolUse       |-> {<<"read", "write">>, <<"write">>},
   PostToolUse      |-> {<<"read", "tool", "scan", "write">>, <<"tool", "scan", "write">>,
                         <<"scan", "write">>, <<"write">>},
   Stop             |-> {<<"read", "scan", "close", "write">>, <<"scan", "close", "write">>,
                         <<"close", "write">>, <<"write">>},
   SubagentStop     |-> {<<"read", "scan", "write">>, <<"scan", "write">>, <<"write">>},
   SessionEnd       |-> {<<"read", "scan", "write", "end", "delete">>,
                         <<"scan", "write", "end", "delete">>, <<"write", "end", "delete">>,
                         <<"end", "delete">>, <<"delete">>}]

HookFields == {"event", "todo", "state", "path", "tool", "entries", "within"}
Lines == [msg : Nat, whole : BOOLEAN]

\* A hook is at a stage of its handler, with a state.
Hook(p) ==
  /\ DOMAIN hooks[p] = HookFields
  /\ hooks[p].event \in DOMAIN Stages
  /\ hooks[p].todo \in Stages[hooks[p].event]
  /\ hooks[p].state \in SessionStates
  /\ hooks[p].path \in Paths
  /\ hooks[p].event \in {"PreToolUse", "PostToolUse"} => hooks[p].tool \in Tools
  /\ hooks[p].event = "UserPromptSubmit" => hooks[p].tool = Null

Shape ==
  /\ DOMAIN hooks = Procs
  /\ \A p \in Procs : Busy(p) => Hook(p)
  /\ file \in SessionStates \cup {Null}
  /\ lines \in [Paths -> Seq(Lines)] /\ written \in Seq(Nat)
  /\ prompts \in Nat /\ starts \in Nat
  /\ \A i \in DOMAIN turns : DOMAIN turns[i] = {"of", "ended"}
  /\ \A t \in DOMAIN calls : DOMAIN calls[t] = {"turn", "timed"}

\* What TurnsApart excludes.
Calm == upset \cap {"abandoned", "replayed", "cutShort"} = {}

Tooling == {"PreToolUse", "PostToolUse", "SubagentStop"}
Alone(p) == \A q \in Procs : Busy(q) => q = p
Prompting == \E p \in Procs : Busy(p) /\ hooks[p].event = "UserPromptSubmit"

\* Hooks overlap only while Claude Code works on a prompt.
Who ==
  /\ phase \in {"off", "idle", "busy", "over"}
  /\ phase = "off" => starts = 0 /\ prompts = 0 /\ file = Null /\ Quiet
  /\ phase # "off" => starts >= 1
  /\ phase = "busy" => prompts >= 1
  /\ \A p \in Procs : Busy(p) =>
       LET e == hooks[p].event IN
       /\ e = "SessionStart" => Alone(p) /\ phase = "idle" /\ prompts = 0
       /\ e = "UserPromptSubmit" => Alone(p) /\ phase = "busy"
       /\ e = "Stop" => Alone(p) /\ phase = "idle" /\ prompts >= 1
       /\ e = "SessionEnd" => Alone(p) /\ phase = "over"
       /\ e \in Tooling => phase = "busy"

Numbered(s) == s.turnIndex = prompts
Current(s) == s.turnIndex = prompts /\ s.turn = prompts

\* What a hook knows of the turn, in its own copy of the state.
Knows(p) ==
  LET todo == hooks[p].todo
      s == hooks[p].state
      e == hooks[p].event IN
  /\ e = "SessionStart" => s.turnIndex = 0
  /\ e = "UserPromptSubmit" =>
       /\ todo = <<"read", "turn", "write">> =>
            IF file = Null THEN prompts = 1 ELSE file.turnIndex = prompts - 1
       /\ todo = <<"turn", "write">> => s.turnIndex = prompts - 1
       /\ todo = <<"write">> => Current(s)
  /\ e = "Stop" =>
       /\ todo = <<"read", "scan", "close", "write">> => file # Null /\ Current(file)
       /\ todo \in {<<"scan", "close", "write">>, <<"close", "write">>} => Current(s)
       /\ todo = <<"write">> => Numbered(s)
  /\ e \in Tooling /\ Head(todo) # "read" => Current(s)

\* The state file has the number of the last prompt, and its turn until Stop.
Filed ==
  /\ phase = "idle" => IF file = Null THEN prompts = 0 ELSE Numbered(file)
  /\ phase = "busy" /\ ~Prompting => file # Null /\ Current(file)
  /\ \A p \in Procs : Busy(p) => Knows(p)

Closing == \E p \in Procs : Busy(p) /\ hooks[p].event = "Stop" /\ hooks[p].todo # <<"write">>

\* Every prompt has a row of its own once its hook has come to that, and the
\* row is closed before the next one comes.
Rows ==
  /\ \A i \in DOMAIN turns :
       /\ i \in 1 .. prompts
       /\ turns[i].of = {i}
       /\ turns[i].ended \/ i = prompts \/ "interrupted" \in upset
  /\ \A p \in Procs : Busy(p) /\ hooks[p].event = "UserPromptSubmit" =>
       (prompts \in DOMAIN turns <=> hooks[p].todo = <<"write">>)
  /\ (phase = "busy" /\ ~Prompting) \/ Closing => prompts \in DOMAIN turns
  /\ phase = "idle" /\ prompts \in DOMAIN turns =>
       turns[prompts].ended \/ "interrupted" \in upset \/ Closing

\* A tool is issued for the prompt in work, and its row has that turn.
Issued ==
  /\ \A t \in DOMAIN issued : issued[t] \in 1 .. prompts
  /\ Prompting => \A t \in DOMAIN issued : issued[t] < prompts
  /\ \A p \in Procs : Busy(p) /\ hooks[p].event = "PostToolUse" =>
       hooks[p].tool \in DOMAIN issued /\ issued[hooks[p].tool] = prompts
  /\ \A t \in DOMAIN calls : t \in DOMAIN issued /\ calls[t].turn = issued[t]

\* While hooks take turns, the state keeps every tool that is under way.
Waiting(t) == issued[t] = prompts /\ t \notin DOMAIN calls

Keeps(p) ==
  hooks[p].event \in Tooling /\ Head(hooks[p].todo) # "read" =>
    \A t \in DOMAIN issued : Waiting(t) => t \in hooks[p].state.active

Kept ==
  /\ \A p \in Procs : Busy(p) => Alone(p)
  /\ phase = "busy" => \A t \in DOMAIN issued : Waiting(t) =>
       (file # Null /\ t \in file.active) \/ Running("PreToolUse", t)
  /\ phase = "busy" => \A p \in Procs : Busy(p) => Keeps(p)
  /\ \A t \in DOMAIN calls : calls[t].timed

IInv ==
  /\ Shape
  /\ Calm => Who /\ Filed /\ Rows /\ Issued
  /\ Calm /\ "overlapped" \notin upset => Kept

-----------------------------------------------------------------------------
(* Scans: what is to be added to the invariant                             *)

\* Everything written is a response to a prompt submitted, every line is of
\* something written, and so is all that is recorded or to be recorded.
Transcripts ==
  /\ prompts <= MaxPrompts /\ Len(written) <= MaxMessages
  /\ \A m \in DOMAIN written : written[m] \in 1 .. prompts
  /\ \A path \in Paths :
       /\ Len(lines[path]) <= Len(written)
       /\ \A i \in DOMAIN lines[path] : lines[path][i].msg \in DOMAIN written
  /\ \A p \in Procs : Busy(p) => hooks[p].entries \in Seq(DOMAIN written)
  /\ DOMAIN messages \subseteq DOMAIN written

\* A prompt's hook that has not numbered its turn yet.
Numbering(p) == Busy(p) /\ hooks[p].event = "UserPromptSubmit" /\ hooks[p].todo # <<"write">>
Numbers == IF \E p \in Procs : Numbering(p) THEN prompts - 1 ELSE prompts

Bounded(s, n) == s.turnIndex <= n /\ s.turn \in 1 .. n \cup {Null} /\ s.offset <= MaxMessages

\* No copy of the state counts more turns than there were prompts, nor one for
\* a prompt whose hook has not numbered it.
Counted ==
  /\ file # Null => Bounded(file, Numbers)
  /\ \A p \in Procs : Busy(p) =>
       /\ Bounded(hooks[p].state, Numbers)
       /\ hooks[p].event = "UserPromptSubmit" => prompts >= 1
  /\ \A p, q \in Procs : Numbering(p) /\ Numbering(q) => p = q
  /\ phase = "busy" => prompts >= 1
  /\ DOMAIN turns \subseteq 1 .. prompts /\ DOMAIN calls \subseteq Tools
  /\ session \subseteq {"known", "repo", "ended"}

Pending(p) == {hooks[p].entries[j] : j \in DOMAIN hooks[p].entries}
Known == DOMAIN messages \cup missed

\* What lies below a state's offset is known.
Held(s, known, transcripts) ==
  s.path # Null =>
    /\ s.offset <= Len(transcripts[s.path])
    /\ \A i \in 1 .. s.offset : transcripts[s.path][i].msg \in known

\* What a hook has read but not recorded is still in its hands, and not in the
\* state file.
Skipless ==
  "rotated" \notin upset =>
    /\ file # Null => Held(file, Known, lines)
    /\ \A p \in Procs : Busy(p) => Held(hooks[p].state, Known \cup Pending(p), lines)

\* Nothing is written while the session ends, so the last scan has all of it.
AfterScan == {"write", "end", "delete"}
EndSeen ==
  \A p \in Procs : Busy(p) /\ hooks[p].event = "SessionEnd" =>
    /\ phase = "over" /\ hooks[p].path = Main
    /\ Head(hooks[p].todo) \in AfterScan /\ upset \cap {"rotated", "unreadable"} = {} =>
         \A i \in DOMAIN lines[Main] : lines[Main][i].msg \in Known \cup Pending(p)

\* What Attributed allows for messages.
Fair == upset \subseteq {"overlapped", "rotated"}

ReadTo(s) == IF s.path = Main THEN s.offset ELSE 0
Caught(s, transcript) == Len(transcript) <= ReadTo(s)

\* What a state has not read is of the n-th prompt, and so is the state's turn.
Fits(s, transcript, by, n) ==
  \A i \in DOMAIN transcript : i > ReadTo(s) => s.turn = n /\ by[transcript[i].msg] = n

Before(p) == hooks[p].todo = Dispatch[hooks[p].event]
Stopping == \E p \in Procs : Busy(p) /\ hooks[p].event = "Stop"

\* Between prompts the state file has everything; during one, all but its own.
FileTracks ==
  /\ file # Null /\ ((phase = "idle" /\ ~Stopping) \/ Prompting) => Caught(file, lines[Main])
  /\ file # Null /\ phase = "busy" => Fits(file, lines[Main], written, prompts)
  /\ \A p \in Procs : Busy(p) /\ hooks[p].event \in {"Stop", "SessionEnd"} /\ Before(p) =>
       IF file = Null THEN lines[Main] = <<>> ELSE Fits(file, lines[Main], written, prompts)

HookTracks(p) ==
  LET s == hooks[p].state
      e == hooks[p].event IN
  /\ hooks[p].path = Main
  /\ e = "UserPromptSubmit" /\ ~Before(p) => Caught(s, lines[Main])
  /\ e \in Tooling \cup {"Stop", "SessionEnd"} /\ ~Before(p) => Fits(s, lines[Main], written, prompts)
  /\ e = "Stop" /\ Head(hooks[p].todo) \in {"close", "write"} => Caught(s, lines[Main])
  /\ \A j \in DOMAIN hooks[p].entries :
       IF hooks[p].within = Null THEN "rotated" \in upset
       ELSE written[hooks[p].entries[j]] = hooks[p].within

Rightly ==
  \A m \in DOMAIN messages :
    messages[m] = written[m] \/ ("rotated" \in upset /\ messages[m] = Null)

Tracks ==
  /\ FileTracks /\ Rightly
  /\ \A p \in Procs : Busy(p) => HookTracks(p)
  /\ Prompting => \A m \in DOMAIN written : written[m] < prompts

ScanInv == Transcripts /\ Counted /\ Skipless /\ EndSeen /\ (Fair => Tracks)

-----------------------------------------------------------------------------
(* The lines a scan finds                                                  *)

\* Induction over the naturals, as a fact about a set of them.
Less == {ss \in Nat \X Nat : ss[1] < ss[2]}
LEMMA LessWF == IsWellFoundedOn(Less, Nat)
  BY NatLessThanWellFounded, Zenon DEF OpToRel, Less

LEMMA NatSetInduction ==
  ASSUME NEW S, 0 \in S, \A n \in Nat : n \in S => n + 1 \in S
  PROVE  Nat \subseteq S
<1> DEFINE T == {n \in Nat : n \notin S}
<1>1. SUFFICES ASSUME T # {} PROVE FALSE
  OBVIOUS
<1>2. PICK x \in T : \A y \in T : ~ (<<y, x>> \in Less)
  <2>1. T \subseteq Nat
    OBVIOUS
  <2> QED BY <1>1, <2>1, WFMin, LessWF
<1>3. \A y \in T : ~(y < x)
  BY <1>2 DEF Less
<1>4. x # 0
  OBVIOUS
<1>5. x - 1 \in Nat /\ x - 1 < x /\ x = (x - 1) + 1
  BY <1>4
<1>6. x - 1 \in S
  BY <1>3, <1>5
<1> QED BY <1>5, <1>6

\* The equation that defines the function in Messages.
UpTo(new, n, f) ==
  f = [i \in 0 .. n |->
         IF i = 0 THEN <<>>
         ELSE IF new[i].whole THEN Append(f[i - 1], new[i].msg)
         ELSE f[i - 1]]

LEMMA UpToExists ==
  ASSUME NEW new, NEW n \in Nat
  PROVE  \E f : UpTo(new, n, f)
<1> DEFINE S == {m \in Nat : \E f : UpTo(new, m, f)}
<1>1. 0 \in S
  <2> DEFINE f == [i \in 0 .. 0 |-> <<>>]
  <2>1. UpTo(new, 0, f)
    BY DEF UpTo
  <2> QED BY <2>1
<1>2. ASSUME NEW m \in Nat, m \in S PROVE m + 1 \in S
  <2>1. PICK f : UpTo(new, m, f)
    BY <1>2
  <2> DEFINE last == IF new[m + 1].whole THEN Append(f[m], new[m + 1].msg) ELSE f[m]
             g == [i \in 0 .. m + 1 |-> IF i = m + 1 THEN last ELSE f[i]]
  <2>2. ASSUME NEW i \in 0 .. m + 1
        PROVE  g[i] = IF i = 0 THEN <<>>
                      ELSE IF new[i].whole THEN Append(g[i - 1], new[i].msg)
                      ELSE g[i - 1]
    <3>1. CASE i = m + 1
      <4>1. g[i] = last /\ g[i - 1] = f[m] /\ i # 0
        BY <3>1
      <4> QED BY <3>1, <4>1
    <3>2. CASE i # m + 1
      <4>1. i \in 0 .. m /\ g[i] = f[i]
        BY <3>2
      <4>2. i # 0 => g[i - 1] = f[i - 1]
        BY <4>1
      <4>3. f[i] = IF i = 0 THEN <<>>
                   ELSE IF new[i].whole THEN Append(f[i - 1], new[i].msg)
                   ELSE f[i - 1]
        BY <2>1, <4>1 DEF UpTo
      <4> QED BY <4>1, <4>2, <4>3
    <3> QED BY <3>1, <3>2
  <2>3. UpTo(new, m + 1, g)
    BY <2>2 DEF UpTo
  <2> QED BY <2>3
<1> HIDE DEF S
<1>3. Nat \subseteq S
  BY <1>1, <1>2, NatSetInduction
<1> QED BY <1>3 DEF S

\* Messages takes the whole lines, all of them and nothing else.
LEMMA MessagesFacts ==
  ASSUME NEW new \in Seq(Lines)
  PROVE  /\ Messages(new) \in Seq(Nat)
         /\ \A j \in DOMAIN Messages(new) :
              \E i \in DOMAIN new : new[i].whole /\ new[i].msg = Messages(new)[j]
         /\ \A i \in DOMAIN new : new[i].whole =>
              \E j \in DOMAIN Messages(new) : Messages(new)[j] = new[i].msg
<1> DEFINE N == Len(new)
           F == CHOOSE f : UpTo(new, N, f)
<1>1. UpTo(new, N, F)
  BY UpToExists
<1>2. Messages(new) = F[N]
  BY DEF Messages, UpTo
<1> HIDE DEF F
<1> DEFINE Good(n) ==
      /\ F[n] \in Seq(Nat)
      /\ \A j \in DOMAIN F[n] : \E i \in 1 .. n : new[i].whole /\ new[i].msg = F[n][j]
      /\ \A i \in 1 .. n : new[i].whole => \E j \in DOMAIN F[n] : F[n][j] = new[i].msg
           S == {n \in Nat : n <= N => Good(n)}
<1>3. 0 \in S
  BY <1>1 DEF UpTo
<1>4. ASSUME NEW n \in Nat, n \in S PROVE n + 1 \in S
  <2>1. SUFFICES ASSUME n + 1 <= N PROVE Good(n + 1)
    OBVIOUS
  <2>2. Good(n) /\ n + 1 \in 0 .. N /\ n + 1 \in DOMAIN new
    BY <1>4, <2>1
  <2>3. F[n + 1] = IF new[n + 1].whole THEN Append(F[n], new[n + 1].msg) ELSE F[n]
    <3>1. F[n + 1] = IF n + 1 = 0 THEN <<>>
                     ELSE IF new[n + 1].whole THEN Append(F[(n + 1) - 1], new[n + 1].msg)
                     ELSE F[(n + 1) - 1]
      BY <1>1, <2>2 DEF UpTo
    <3>2. (n + 1) - 1 = n /\ n + 1 # 0
      OBVIOUS
    <3> QED BY <3>1, <3>2
  <2>4. new[n + 1] \in Lines
    BY <2>2
  <2>5. new[n + 1].msg \in Nat
    BY <2>4 DEF Lines
  <2>6. CASE new[n + 1].whole
    <3> DEFINE e == new[n + 1].msg
    <3>1. F[n + 1] = Append(F[n], e)
      BY <2>3, <2>6
    <3> DEFINE f == F[n]
    <3>7. f \in Seq(Nat) /\ e \in Nat
      BY <2>2, <2>5
    <3>2. F[n + 1] \in Seq(Nat)
      BY <3>1, <3>7
    <3>3. /\ DOMAIN F[n + 1] = DOMAIN F[n] \cup {Len(F[n]) + 1}
          /\ F[n + 1][Len(F[n]) + 1] = e
          /\ \A j \in DOMAIN F[n] : F[n + 1][j] = F[n][j]
      <4> HIDE DEF f, e
      <4>1. /\ DOMAIN Append(f, e) = DOMAIN f \cup {Len(f) + 1}
            /\ Append(f, e)[Len(f) + 1] = e
            /\ \A j \in DOMAIN f : Append(f, e)[j] = f[j]
        BY <3>7
      <4> QED BY <3>1, <4>1 DEF f
    <3>4. ASSUME NEW j \in DOMAIN F[n + 1]
          PROVE  \E i \in 1 .. n + 1 : new[i].whole /\ new[i].msg = F[n + 1][j]
      <4>1. CASE j \in DOMAIN F[n]
        BY <2>2, <3>3, <4>1
      <4>2. CASE j = Len(F[n]) + 1
        BY <2>6, <3>3, <4>2
      <4> QED BY <3>3, <4>1, <4>2
    <3>5. ASSUME NEW i \in 1 .. n + 1, new[i].whole
          PROVE  \E j \in DOMAIN F[n + 1] : F[n + 1][j] = new[i].msg
      <4>1. CASE i \in 1 .. n
        <5>1. PICK j \in DOMAIN F[n] : F[n][j] = new[i].msg
          BY <2>2, <3>5, <4>1
        <5> QED BY <3>3, <5>1
      <4>2. CASE i = n + 1
        BY <3>3, <4>2
      <4> QED BY <4>1, <4>2
    <3> QED BY <3>2, <3>4, <3>5
  <2>7. CASE ~new[n + 1].whole
    BY <2>2, <2>3, <2>7
  <2> QED BY <2>6, <2>7
<1> HIDE DEF S
<1>5. N \in S
  BY <1>3, <1>4, NatSetInduction
<1>6. Good(N)
  BY <1>5 DEF S
<1>7. DOMAIN new = 1 .. N
  OBVIOUS
<1> HIDE DEF N
<1>8. /\ F[N] \in Seq(Nat)
      /\ \A j \in DOMAIN F[N] : \E i \in DOMAIN new : new[i].whole /\ new[i].msg = F[N][j]
      /\ \A i \in DOMAIN new : new[i].whole => \E j \in DOMAIN F[N] : F[N][j] = new[i].msg
  BY <1>6, <1>7
<1> QED BY <1>2, <1>8

-----------------------------------------------------------------------------
(* Stages                                                                  *)

\* The handlers, by the step that comes next.
LEMMA Handlers ==
  ASSUME NEW e \in DOMAIN Stages, NEW todo \in Stages[e]
  PROVE
  /\ todo # <<>>
  /\ Len(todo) # 1 => Tail(todo) \in Stages[e] /\ Tail(todo) # <<>>
  /\ Head(todo) = "read" <=> todo = Dispatch[e] /\ e # "SessionStart"
  /\ Head(todo) = "session" => e = "SessionStart" /\ todo = <<"session", "write", "git">>
  /\ Head(todo) = "git" => e = "SessionStart" /\ todo = <<"git">>
  /\ Head(todo) = "turn" => e = "UserPromptSubmit" /\ todo = <<"turn", "write">>
  /\ Head(todo) = "tool" => e = "PostToolUse" /\ todo = <<"tool", "scan", "write">>
  /\ Head(todo) = "close" => e = "Stop" /\ todo = <<"close", "write">>
  /\ Head(todo) = "end" => e = "SessionEnd" /\ todo = <<"end", "delete">>
  /\ Head(todo) = "delete" => e = "SessionEnd" /\ todo = <<"delete">>
  /\ Head(todo) = "scan" =>
       /\ e \in {"PostToolUse", "Stop", "SubagentStop", "SessionEnd"}
       /\ e = "Stop" => todo = <<"scan", "close", "write">>
  /\ Head(todo) = "write" =>
       /\ e = "SessionStart" => todo = <<"write", "git">>
       /\ e = "SessionEnd" => todo = <<"write", "end", "delete">>
       /\ e \notin {"SessionStart", "SessionEnd"} => todo = <<"write">>
  /\ e = "UserPromptSubmit" => Head(todo) \in {"read", "turn", "write"}
  /\ e = "Stop" => Head(todo) \in {"read", "scan", "close", "write"}
<1>1. CASE e = "SessionStart"
  <2>1. Stages[e] = {<<"session", "write", "git">>, <<"write", "git">>, <<"git">>} /\ Dispatch[e] = <<"session", "write", "git">>
    BY <1>1 DEF Stages, Dispatch, SessionStart
  <2>2. CASE todo = <<"session", "write", "git">> BY <1>1, <2>1, <2>2
  <2>3. CASE todo = <<"write", "git">> BY <1>1, <2>1, <2>3
  <2>4. CASE todo = <<"git">> BY <1>1, <2>1, <2>4
  <2> QED BY <2>1, <2>2, <2>3, <2>4
<1>2. CASE e = "UserPromptSubmit"
  <2>1. Stages[e] = {<<"read", "turn", "write">>, <<"turn", "write">>, <<"write">>} /\ Dispatch[e] = <<"read", "turn", "write">>
    BY <1>2 DEF Stages, Dispatch, UserPromptSubmit
  <2>2. CASE todo = <<"read", "turn", "write">> BY <1>2, <2>1, <2>2
  <2>3. CASE todo = <<"turn", "write">> BY <1>2, <2>1, <2>3
  <2>4. CASE todo = <<"write">> BY <1>2, <2>1, <2>4
  <2> QED BY <2>1, <2>2, <2>3, <2>4
<1>3. CASE e = "PreToolUse"
  <2>1. Stages[e] = {<<"read", "write">>, <<"write">>} /\ Dispatch[e] = <<"read", "write">>
    BY <1>3 DEF Stages, Dispatch, PreToolUse
  <2>2. CASE todo = <<"read", "write">> BY <1>3, <2>1, <2>2
  <2>3. CASE todo = <<"write">> BY <1>3, <2>1, <2>3
  <2> QED BY <2>1, <2>2, <2>3
<1>4. CASE e = "PostToolUse"
  <2>1. Stages[e] = {<<"read", "tool", "scan", "write">>, <<"tool", "scan", "write">>, <<"scan", "write">>, <<"write">>} /\ Dispatch[e] = <<"read", "tool", "scan", "write">>
    BY <1>4 DEF Stages, Dispatch, PostToolUse
  <2>2. CASE todo = <<"read", "tool", "scan", "write">> BY <1>4, <2>1, <2>2
  <2>3. CASE todo = <<"tool", "scan", "write">> BY <1>4, <2>1, <2>3
  <2>4. CASE todo = <<"scan", "write">> BY <1>4, <2>1, <2>4
  <2>5. CASE todo = <<"write">> BY <1>4, <2>1, <2>5
  <2> QED BY <2>1, <2>2, <2>3, <2>4, <2>5
<1>5. CASE e = "Stop"
  <2>1. Stages[e] = {<<"read", "scan", "close", "write">>, <<"scan", "close", "write">>, <<"close", "write">>, <<"write">>} /\ Dispatch[e] = <<"read", "scan", "close", "write">>
    BY <1>5 DEF Stages, Dispatch, Stop
  <2>2. CASE todo = <<"read", "scan", "close", "write">> BY <1>5, <2>1, <2>2
  <2>3. CASE todo = <<"scan", "close", "write">> BY <1>5, <2>1, <2>3
  <2>4. CASE todo = <<"close", "write">> BY <1>5, <2>1, <2>4
  <2>5. CASE todo = <<"write">> BY <1>5, <2>1, <2>5
  <2> QED BY <2>1, <2>2, <2>3, <2>4, <2>5
<1>6. CASE e = "SubagentStop"
  <2>1. Stages[e] = {<<"read", "scan", "write">>, <<"scan", "write">>, <<"write">>} /\ Dispatch[e] = <<"read", "scan", "write">>
    BY <1>6 DEF Stages, Dispatch, SubagentStop
  <2>2. CASE todo = <<"read", "scan", "write">> BY <1>6, <2>1, <2>2
  <2>3. CASE todo = <<"scan", "write">> BY <1>6, <2>1, <2>3
  <2>4. CASE todo = <<"write">> BY <1>6, <2>1, <2>4
  <2> QED BY <2>1, <2>2, <2>3, <2>4
<1>7. CASE e = "SessionEnd"
  <2>1. Stages[e] = {<<"read", "scan", "write", "end", "delete">>, <<"scan", "write", "end", "delete">>, <<"write", "end", "delete">>, <<"end", "delete">>, <<"delete">>} /\ Dispatch[e] = <<"read", "scan", "write", "end", "delete">>
    BY <1>7 DEF Stages, Dispatch, SessionEnd
  <2>2. CASE todo = <<"read", "scan", "write", "end", "delete">> BY <1>7, <2>1, <2>2
  <2>3. CASE todo = <<"scan", "write", "end", "delete">> BY <1>7, <2>1, <2>3
  <2>4. CASE todo = <<"write", "end", "delete">> BY <1>7, <2>1, <2>4
  <2>5. CASE todo = <<"end", "delete">> BY <1>7, <2>1, <2>5
  <2>6. CASE todo = <<"delete">> BY <1>7, <2>1, <2>6
  <2> QED BY <2>1, <2>2, <2>3, <2>4, <2>5, <2>6
<1> QED BY <1>1, <1>2, <1>3, <1>4, <1>5, <1>6, <1>7 DEF Stages

\* The stages of Stop and of a prompt's hook, one by one.
LEMMA Tuples ==
  /\ Tail(<<"read", "scan", "close", "write">>) = <<"scan", "close", "write">>
  /\ Tail(<<"scan", "close", "write">>) = <<"close", "write">>
  /\ Tail(<<"close", "write">>) = <<"write">>
  /\ Tail(<<"read", "turn", "write">>) = <<"turn", "write">>
  /\ Tail(<<"turn", "write">>) = <<"write">>
  /\ Len(<<"scan", "close", "write">>) # 1 /\ Len(<<"close", "write">>) # 1
  /\ Len(<<"turn", "write">>) # 1 /\ Len(<<"write">>) = 1
  /\ Len(<<"read", "scan", "close", "write">>) # 1
  /\ Len(<<"read", "turn", "write">>) # 1
  /\ <<"read", "scan", "close", "write">> \notin
       {<<"scan", "close", "write">>, <<"close", "write">>, <<"write">>}
  /\ <<"scan", "close", "write">> # <<"close", "write">>
  /\ <<"write">> \notin {<<"scan", "close", "write">>, <<"close", "write">>, <<"turn", "write">>,
                         <<"read", "turn", "write">>}
  /\ <<"read", "turn", "write">> # <<"turn", "write">>
  /\ Head(<<"close", "write">>) = "close" /\ Head(<<"scan", "close", "write">>) = "scan"
  /\ Head(<<"turn", "write">>) = "turn" /\ Head(<<"write">>) = "write"
  /\ Head(<<"read", "scan", "close", "write">>) = "read"
  /\ Head(<<"read", "turn", "write">>) = "read"
  /\ <<"write">> # <<>> /\ <<"close", "write">> # <<>>
OBVIOUS

-----------------------------------------------------------------------------
(* What a step does to the hooks                                           *)

\* A hook goes on to its next stage, or is done.
Moved(p) ==
  /\ DOMAIN hooks' = Procs
  /\ \A q \in Procs : q # p => hooks'[q] = hooks[q]
  /\ \/ hooks'[p] = Idle
     \/ /\ DOMAIN hooks'[p] = HookFields
        /\ hooks'[p].event = hooks[p].event /\ hooks'[p].tool = hooks[p].tool
        /\ hooks'[p].path = hooks[p].path
        /\ hooks'[p].todo = Tail(hooks[p].todo) /\ Len(hooks[p].todo) # 1
        /\ hooks'[p].state \in SessionStates

LEMMA NothingLeft == Idle.todo = <<>>
BY DEF Idle

LEMMA Stopped == \A p : hooks[p] = Idle => ~Busy(p)
BY DEF Idle, Busy

\* Advance is such a step, with the state it is given.
LEMMA Advances ==
  ASSUME Shape, NEW p \in Procs, Busy(p), NEW s \in SessionStates, Advance(p, s)
  PROVE
  /\ Moved(p)
  /\ hooks'[p] = Idle <=> Len(hooks[p].todo) = 1
  /\ hooks'[p] # Idle =>
       hooks'[p].state = s /\ hooks'[p].entries = hooks[p].entries /\ hooks'[p].within = hooks[p].within
<1>1. /\ DOMAIN hooks = Procs /\ DOMAIN hooks[p] = HookFields
      /\ Len(hooks[p].todo) # 1 => Tail(hooks[p].todo) # <<>>
  <2>1. DOMAIN hooks = Procs /\ Hook(p) BY DEF Shape
  <2> QED BY <2>1, Handlers DEF Hook
<1>2. CASE Len(hooks[p].todo) = 1
  BY <1>1, <1>2 DEF Advance, Moved
<1>3. CASE Len(hooks[p].todo) # 1
  <2>1. hooks' = [hooks EXCEPT ![p] = [Advanced(p) EXCEPT !.state = s]]
    BY <1>3 DEF Advance
  <2>2. /\ DOMAIN Advanced(p) = HookFields
        /\ Advanced(p).todo = Tail(hooks[p].todo)
        /\ Advanced(p).event = hooks[p].event /\ Advanced(p).tool = hooks[p].tool
        /\ Advanced(p).path = hooks[p].path
        /\ Advanced(p).entries = hooks[p].entries /\ Advanced(p).within = hooks[p].within
    BY <1>1 DEF Advanced, HookFields
  <2>3. /\ DOMAIN hooks' = Procs
        /\ \A q \in Procs : q # p => hooks'[q] = hooks[q]
        /\ DOMAIN hooks'[p] = HookFields
        /\ hooks'[p].event = hooks[p].event /\ hooks'[p].tool = hooks[p].tool
        /\ hooks'[p].path = hooks[p].path
        /\ hooks'[p].todo = Tail(hooks[p].todo)
        /\ hooks'[p].state = s
        /\ hooks'[p].entries = hooks[p].entries /\ hooks'[p].within = hooks[p].within
    BY <1>1, <2>1, <2>2 DEF HookFields
  <2>4. hooks'[p] # Idle
    BY <1>1, <1>3, <2>3, NothingLeft
  <2> QED BY <1>3, <2>3, <2>4 DEF Moved
<1> QED BY <1>2, <1>3

\* The shape survives, if what else changes has its own.
LEMMA ShapeMoves ==
  ASSUME Shape, NEW p \in Procs, Busy(p), Moved(p),
         file' \in SessionStates \cup {Null},
         UNCHANGED <<lines, written, prompts, starts>>,
         \A i \in DOMAIN turns' : DOMAIN turns'[i] = {"of", "ended"},
         \A t \in DOMAIN calls' : DOMAIN calls'[t] = {"turn", "timed"}
  PROVE  Shape'
<1>1. ASSUME NEW q \in Procs, Busy(q)' PROVE Hook(q)'
  <2>1. CASE q # p
    BY <1>1, <2>1 DEF Shape, Moved, Busy, Hook
  <2>2. CASE q = p
    <3>1. hooks'[p] # Idle BY <1>1, <2>2 DEF Idle, Busy
    <3>2. Hook(p) BY DEF Shape
    <3>3. Tail(hooks[p].todo) \in Stages[hooks[p].event]
      BY <3>1, <3>2, Handlers DEF Moved, Hook
    <3> QED BY <2>2, <3>1, <3>2, <3>3 DEF Hook, Moved
  <2> QED BY <2>1, <2>2
<1>2. DOMAIN hooks' = Procs
  BY DEF Moved
<1> QED BY <1>1, <1>2 DEF Shape

\* So does the order in which hooks run.
LEMMA WhoMoves ==
  ASSUME Shape, Who, NEW p \in Procs, Busy(p), Moved(p),
         UNCHANGED <<phase, prompts, starts>>
  PROVE  Who'
<1>1. \A q \in Procs : Busy(q)' => Busy(q) /\ hooks'[q].event = hooks[q].event
  BY Stopped DEF Moved, Idle, Busy
<1>2. \A q \in Procs : Alone(q) => Alone(q)'
  BY <1>1 DEF Alone
<1>3. phase # "off"
  BY DEF Who, Quiet
<1> QED BY <1>1, <1>2, <1>3 DEF Who, Quiet

\* Nobody starts or stops to prompt or to close in another hook's step.
LEMMA Others ==
  ASSUME Shape, NEW p \in Procs, Busy(p), Moved(p)
  PROVE  /\ hooks[p].event # "UserPromptSubmit" => (Prompting' <=> Prompting)
         /\ hooks[p].event # "Stop" => (Closing' <=> Closing)
<1>1. \A q \in Procs : q # p => (Busy(q)' <=> Busy(q)) /\ hooks'[q] = hooks[q]
  BY DEF Moved, Busy
<1>2. Busy(p)' => hooks'[p].event = hooks[p].event
  BY Stopped DEF Moved, Busy, Idle
<1> QED BY <1>1, <1>2 DEF Prompting, Closing

-----------------------------------------------------------------------------
(* The steps that only move on                                             *)

Calmly == Who /\ Filed /\ Rows /\ Issued

\* A step that changes neither the state file nor the rows that matter here.
Plain(p) ==
  /\ Busy(p) /\ Moved(p)
  /\ Head(hooks[p].todo) \in {"session", "scan", "git", "end"}
  /\ hooks'[p] = Idle => Len(hooks[p].todo) = 1
  /\ hooks'[p] # Idle =>
       IF hooks[p].event = "SessionStart"
       THEN hooks'[p].state.turnIndex \in {0, hooks[p].state.turnIndex}
       ELSE /\ hooks'[p].state.turnIndex = hooks[p].state.turnIndex
            /\ hooks'[p].state.turn = hooks[p].state.turn
            /\ hooks'[p].state.active = hooks[p].state.active
  /\ UNCHANGED <<file, turns, calls, phase, prompts, issued, starts>>
  /\ upset \subseteq upset'

LEMMA PlainCalmly ==
  ASSUME Shape, Calmly, NEW p \in Procs, Plain(p)
  PROVE  Calmly'
<1> USE DEF Calmly
<1>0. Busy(p) /\ Moved(p) /\ UNCHANGED <<file, turns, calls, phase, prompts, issued, starts>>
  BY DEF Plain
<1>1. Who'
  BY <1>0, WhoMoves
<1>2. /\ hooks[p].event \in {"SessionStart", "PostToolUse", "Stop", "SubagentStop", "SessionEnd"}
      /\ hooks[p].event = "Stop" => hooks[p].todo = <<"scan", "close", "write">>
  BY <1>0, Handlers DEF Plain, Shape, Hook
<1>3. Prompting' <=> Prompting
  BY <1>0, <1>2, Others
<1>4. Closing' <=> Closing
  <2>1. CASE hooks[p].event = "Stop"
    <3>1. Len(hooks[p].todo) # 1 /\ Tail(hooks[p].todo) # <<"write">> /\ Tail(hooks[p].todo) # <<>>
          /\ hooks[p].todo # <<"write">>
      BY <1>2, <2>1, Tuples
    <3>2. Closing
      BY <1>0, <2>1, <3>1 DEF Closing
    <3>3. Closing'
      BY <1>0, <2>1, <3>1 DEF Closing, Plain, Moved, Busy
    <3> QED BY <3>2, <3>3
  <2>2. CASE hooks[p].event # "Stop"
    BY <1>0, <2>2, Others
  <2> QED BY <2>1, <2>2
<1>5. Filed'
  <2>1. phase' = "idle" => IF file' = Null THEN prompts' = 0 ELSE Numbered(file)'
    BY <1>0 DEF Filed, Numbered
  <2>2. (phase' = "busy" /\ ~Prompting') => file' # Null /\ Current(file)'
    BY <1>0, <1>3 DEF Filed, Current
  <2>3. ASSUME NEW q \in Procs, Busy(q)' PROVE Knows(q)'
    <3>1. CASE q # p
      BY <1>0, <2>3, <3>1 DEF Filed, Knows, Current, Numbered, Moved, Busy
    <3>2. CASE q = p
      <4>1. hooks'[p] # Idle /\ Knows(p)
        BY <1>0, <2>3, <3>2, Stopped DEF Filed, Busy, Idle
      <4>2. CASE hooks[p].event = "SessionStart"
        BY <1>0, <3>2, <4>1, <4>2 DEF Plain, Moved, Knows, Tooling
      <4>3. CASE hooks[p].event = "Stop"
        BY <1>0, <1>2, <3>2, <4>1, <4>3, Tuples DEF Plain, Moved, Knows, Current, Tooling
      <4>4. CASE hooks[p].event \in Tooling
        BY <1>0, <3>2, <4>1, <4>4 DEF Plain, Moved, Knows, Current, Tooling
      <4>5. CASE hooks[p].event = "SessionEnd"
        BY <1>0, <3>2, <4>1, <4>5 DEF Plain, Moved, Knows, Tooling
      <4> QED BY <1>2, <4>2, <4>3, <4>4, <4>5 DEF Tooling
    <3> QED BY <3>1, <3>2
  <2> QED BY <2>1, <2>2, <2>3 DEF Filed
<1>6. Rows'
  BY <1>0, <1>2, <1>3, <1>4 DEF Rows, Plain, Moved, Busy, Idle
<1>7. Issued'
  BY <1>0, <1>2, <1>3, Stopped DEF Issued, Moved, Busy, Idle
<1> QED BY <1>1, <1>5, <1>6, <1>7

LEMMA PlainKept ==
  ASSUME Shape, Kept, NEW p \in Procs, Plain(p)
  PROVE  Kept'
<1>0. Busy(p) /\ Moved(p) /\ UNCHANGED <<file, turns, calls, phase, prompts, issued, starts>>
  BY DEF Plain
<1>1. hooks[p].event \notin {"PreToolUse", "UserPromptSubmit"} /\ Head(hooks[p].todo) # "read"
  <2>1. Hook(p) BY <1>0 DEF Shape
  <2> QED BY <2>1, <1>0, Handlers DEF Plain, Hook
<1>2. \A q \in Procs : Busy(q)' => Busy(q) /\ hooks'[q].event = hooks[q].event
  BY <1>0, Stopped DEF Moved, Idle, Busy
<1>3. \A q \in Procs : Busy(q)' => Alone(q)'
  BY <1>2 DEF Kept, Alone
<1>4. \A t : Running("PreToolUse", t) => Running("PreToolUse", t)'
  BY <1>0, <1>1 DEF Running, Moved, Busy
<1>5. \A t : Waiting(t)' <=> Waiting(t)
  BY <1>0 DEF Waiting
<1>6. ASSUME phase' = "busy", NEW q \in Procs, Busy(q)' PROVE Keeps(q)'
  <2>1. Busy(q) /\ Keeps(q)
    BY <1>0, <1>2, <1>6 DEF Kept
  <2>2. CASE q # p
    BY <1>0, <1>5, <2>1, <2>2 DEF Keeps, Moved
  <2>3. CASE q = p
    <3>1. hooks'[p] # Idle
      BY <1>6, <2>3, Stopped DEF Busy, Idle
    <3>2. hooks'[p].event \in Tooling => hooks'[p].state.active = hooks[p].state.active
      BY <1>0, <3>1 DEF Plain, Moved, Tooling
    <3> QED BY <1>0, <1>1, <1>5, <2>1, <2>3, <3>1, <3>2 DEF Keeps, Moved
  <2> QED BY <2>2, <2>3
<1> QED BY <1>0, <1>3, <1>4, <1>5, <1>6 DEF Kept

\* What went wrong stays on the record.
LEMMA Worse == upset \subseteq upset' => (Calm' => Calm) /\ ("overlapped" \notin upset' => "overlapped" \notin upset)
BY DEF Calm

LEMMA PlainStep ==
  ASSUME IInv, NEW p \in Procs, Plain(p), Shape'
  PROVE  IInv'
<1>1. upset \subseteq upset' BY DEF Plain
<1>2. ASSUME Calm' PROVE (Who /\ Filed /\ Rows /\ Issued)'
  BY <1>1, <1>2, Worse, PlainCalmly DEF IInv, Calmly
<1>3. ASSUME Calm', "overlapped" \notin upset' PROVE Kept'
  BY <1>1, <1>3, Worse, PlainKept DEF IInv
<1> QED BY <1>2, <1>3 DEF IInv

\* A step of a hook that leaves the state file alone teaches the others nothing.
LEMMA OthersKnow ==
  ASSUME Filed, NEW p \in Procs, Moved(p), UNCHANGED <<file, prompts>>,
         NEW q \in Procs, q # p, Busy(q)'
  PROVE  Knows(q)'
BY DEF Filed, Knows, Current, Numbered, Moved, Busy

-----------------------------------------------------------------------------
(* The steps of the handlers                                               *)

LEMMA FreshState == Fresh \in SessionStates /\ Fresh.turnIndex = 0
BY DEF Fresh, SessionStates

LEMMA ScanStep ==
  ASSUME IInv, NEW p \in Procs, Scan(p) \/ ScanFails(p)
  PROVE  IInv'
<1> USE DEF IInv
<1>1. PICK read : hooks' = [hooks EXCEPT ![p] = Scanned(p, read)] /\ read.nextLine \in Nat
  <2>1. CASE Scan(p)
    <3>1. From(hooks[p].path, Offset(p)).nextLine = Len(lines[hooks[p].path])
      BY DEF From
    <3>2. Len(lines[hooks[p].path]) \in Nat
      <4>1. hooks[p].path \in Paths /\ lines \in [Paths -> Seq(Lines)]
        BY <2>1 DEF Scan, Doing, Shape, Hook
      <4>2. lines[hooks[p].path] \in Seq(Lines) BY <4>1
      <4> QED BY <4>2, LenProperties
    <3> QED BY <2>1, <3>1, <3>2 DEF Scan
  <2>2. CASE ScanFails(p)
    <3>1. NoFile.nextLine \in Nat BY DEF NoFile
    <3> QED BY <2>2, <3>1 DEF ScanFails
  <2> QED BY <2>1, <2>2
<1>2. /\ Busy(p) /\ Head(hooks[p].todo) = "scan"
      /\ UNCHANGED <<file, turns, calls, phase, prompts, issued, starts, lines, written>>
      /\ upset \subseteq upset'
  BY DEF Scan, ScanFails, Doing, Mishap, store, claude, trouble
<1>3. /\ DOMAIN hooks = Procs /\ Hook(p)
      /\ Len(hooks[p].todo) # 1 /\ hooks[p].event # "SessionStart"
  <2>1. DOMAIN hooks = Procs /\ Hook(p) BY <1>2 DEF Shape
  <2>2. Len(hooks[p].todo) # 1 /\ hooks[p].event # "SessionStart"
    BY <2>1, <1>2 DEF Hook, Stages
  <2> QED BY <2>1, <2>2
<1>4. /\ DOMAIN hooks' = Procs
      /\ \A q \in Procs : q # p => hooks'[q] = hooks[q]
      /\ DOMAIN hooks'[p] = HookFields
      /\ hooks'[p].event = hooks[p].event /\ hooks'[p].tool = hooks[p].tool
      /\ hooks'[p].path = hooks[p].path
      /\ hooks'[p].todo = Tail(hooks[p].todo)
      /\ hooks'[p].state = [hooks[p].state EXCEPT !.path = hooks[p].path, !.offset = read.nextLine]
  BY <1>1, <1>3 DEF Scanned, Advanced, Hook, HookFields
<1>5. /\ hooks'[p].state \in SessionStates
      /\ hooks'[p].state.turnIndex = hooks[p].state.turnIndex
      /\ hooks'[p].state.turn = hooks[p].state.turn
      /\ hooks'[p].state.active = hooks[p].state.active
  BY <1>1, <1>3, <1>4 DEF Hook, SessionStates, Paths
<1>6. Moved(p) /\ hooks'[p] # Idle
  <2>1. Tail(hooks[p].todo) # <<>> BY <1>3, Handlers DEF Hook
  <2> QED BY <1>3, <1>4, <1>5, <2>1, NothingLeft DEF Moved
<1>7. Plain(p)
  BY <1>2, <1>3, <1>5, <1>6 DEF Plain
<1>8. Shape'
  BY <1>2, <1>6, ShapeMoves DEF Shape
<1> QED BY <1>7, <1>8, PlainStep

LEMMA PlainAdvances ==
  ASSUME IInv, NEW p \in Procs, RecordSession(p) \/ CaptureGit(p) \/ EndSession(p)
  PROVE  IInv'
<1> USE DEF IInv
<1>1. /\ Busy(p) /\ Head(hooks[p].todo) \in {"session", "git", "end"}
      /\ UNCHANGED <<file, turns, calls, phase, prompts, issued, starts, lines, written, upset>>
  BY DEF RecordSession, CaptureGit, EndSession, Doing, claude, trouble
<1>2. DOMAIN hooks = Procs /\ Hook(p) BY <1>1 DEF Shape
<1>3. PICK s \in SessionStates : Advance(p, s) /\ (s = hooks[p].state \/ (hooks[p].event = "SessionStart" /\ s = Fresh))
  <2>1. CASE RecordSession(p)
    BY <1>1, <1>2, <2>1, Handlers, FreshState DEF RecordSession, Doing, Hook
  <2>2. CASE CaptureGit(p) \/ EndSession(p)
    BY <1>2, <2>2 DEF CaptureGit, EndSession, Hook
  <2> QED BY <2>1, <2>2
<1>4. /\ Moved(p)
      /\ hooks'[p] = Idle <=> Len(hooks[p].todo) = 1
      /\ hooks'[p] # Idle => hooks'[p].state = s
  BY <1>1, <1>3, Advances
<1>5. hooks[p].event = "SessionStart" => s.turnIndex \in {0, hooks[p].state.turnIndex}
  BY <1>3, FreshState
<1>6. Plain(p)
  BY <1>1, <1>3, <1>4, <1>5 DEF Plain
<1>7. Shape'
  BY <1>1, <1>4, ShapeMoves DEF Shape
<1> QED BY <1>6, <1>7, PlainStep

\* What becomes of a state file that was read.
LEMMA ReadFound ==
  ASSUME Shape, NEW p \in Procs, ReadState(p), file # Null
  PROVE
  \E s \in SessionStates :
    /\ Advance(p, s)
    /\ s.turnIndex = file.turnIndex /\ s.turn = file.turn
    /\ file.active \subseteq s.active
    /\ hooks[p].event = "PreToolUse" => hooks[p].tool \in s.active
<1>1. Busy(p) /\ Hook(p) /\ file \in SessionStates
  BY DEF ReadState, Doing, Shape
<1>2. CASE hooks[p].event = "PreToolUse"
  <2>1. [file EXCEPT !.active = @ \cup {hooks[p].tool}] \in SessionStates
    BY <1>1, <1>2 DEF SessionStates, Hook
  <2>2. Advance(p, [file EXCEPT !.active = @ \cup {hooks[p].tool}])
    BY <1>2 DEF ReadState, Missing
  <2> QED BY <1>1, <2>1, <2>2 DEF SessionStates
<1>3. CASE hooks[p].event # "PreToolUse"
  BY <1>1, <1>3 DEF ReadState, Missing
<1> QED BY <1>2, <1>3

\* A hook that reads the state goes on from it, or has none and returns.
LEMMA ReadMoves ==
  ASSUME Shape, NEW p \in Procs, ReadState(p)
  PROVE
  /\ Moved(p)
  /\ file # Null =>
       /\ hooks'[p] # Idle
       /\ hooks'[p].state.turnIndex = file.turnIndex /\ hooks'[p].state.turn = file.turn
       /\ file.active \subseteq hooks'[p].state.active
       /\ hooks[p].event = "PreToolUse" => hooks[p].tool \in hooks'[p].state.active
  /\ file = Null /\ hooks[p].event = "UserPromptSubmit" =>
       hooks'[p] # Idle /\ hooks'[p].state.turnIndex = 0
  /\ hooks'[p] = Idle => hooks[p].event \notin {"UserPromptSubmit", "SessionEnd"}
<1>1. Busy(p) /\ Head(hooks[p].todo) = "read" /\ DOMAIN hooks = Procs /\ Hook(p)
  BY DEF ReadState, Doing, Shape
<1>2. Len(hooks[p].todo) # 1
  BY <1>1 DEF Hook, Stages
<1>3. CASE file # Null
  <2>1. PICK s \in SessionStates :
          /\ Advance(p, s)
          /\ s.turnIndex = file.turnIndex /\ s.turn = file.turn
          /\ file.active \subseteq s.active
          /\ hooks[p].event = "PreToolUse" => hooks[p].tool \in s.active
    BY <1>3, ReadFound
  <2>2. Moved(p) /\ hooks'[p] # Idle /\ hooks'[p].state = s
    BY <1>1, <1>2, <2>1, Advances
  <2> QED BY <1>3, <2>1, <2>2
<1>4. CASE file = Null
  <2>1. CASE hooks[p].event \in {"UserPromptSubmit", "SessionEnd"}
    <3>1. Advance(p, Fresh)
      BY <1>4, <2>1 DEF ReadState, Missing
    <3>2. Moved(p) /\ hooks'[p] # Idle /\ hooks'[p].state = Fresh
      BY <1>1, <1>2, <3>1, FreshState, Advances
    <3> QED BY <1>4, <2>1, <3>2, FreshState
  <2>2. CASE hooks[p].event \notin {"UserPromptSubmit", "SessionEnd"}
    <3>1. hooks' = [hooks EXCEPT ![p] = Idle]
      BY <1>4, <2>2 DEF ReadState, Missing
    <3> QED BY <1>1, <1>4, <2>2, <3>1 DEF Moved
  <2> QED BY <2>1, <2>2
<1> QED BY <1>3, <1>4

\* A tool's hook, or a subagent's, finds the state of the prompt in work.
LEMMA ToolingAtWork ==
  ASSUME Shape, Calmly, NEW p \in Procs, Busy(p), hooks[p].event \in Tooling
  PROVE  /\ phase = "busy" /\ prompts >= 1 /\ ~Prompting
         /\ file # Null /\ Current(file)
<1>1. phase = "busy" /\ prompts >= 1 BY DEF Calmly, Who
<1>2. ~Prompting
  <2> SUFFICES ASSUME Prompting PROVE FALSE OBVIOUS
  <2>1. PICK q \in Procs : Busy(q) /\ hooks[q].event = "UserPromptSubmit"
    BY DEF Prompting
  <2>2. Alone(q) BY <2>1 DEF Calmly, Who
  <2>3. q = p BY <2>2 DEF Alone
  <2> QED BY <2>1, <2>3 DEF Tooling
<1> QED BY <1>1, <1>2 DEF Calmly, Filed

LEMMA ReadCalmly ==
  ASSUME Shape, Calmly, NEW p \in Procs, ReadState(p)
  PROVE  /\ Calmly'
         /\ hooks[p].event # "SessionEnd" => file # Null \/ hooks[p].event = "UserPromptSubmit"
<1> USE DEF Calmly
<1>0. /\ Busy(p) /\ Head(hooks[p].todo) = "read" /\ Hook(p) /\ Moved(p)
      /\ UNCHANGED <<file, turns, calls, phase, prompts, issued, starts, upset>>
  BY ReadMoves DEF ReadState, Doing, Shape, claude, trouble
<1>1. Who'
  BY <1>0, WhoMoves
<1>2. hooks[p].todo = Dispatch[hooks[p].event] /\ hooks[p].event # "SessionStart"
  BY <1>0, Handlers DEF Hook
<1>3. ASSUME hooks[p].event \notin {"SessionEnd", "UserPromptSubmit"} PROVE file # Null
  <2>1. CASE hooks[p].event = "Stop"
    BY <1>0, <1>2, <2>1 DEF Filed, Knows, Dispatch, Stop
  <2>2. CASE hooks[p].event \in Tooling
    BY <1>0, <2>2, ToolingAtWork
  <2> QED BY <1>0, <1>2, <1>3, <2>1, <2>2 DEF Hook, Stages, Tooling
<1>4. hooks'[p] # Idle
  BY <1>3, ReadMoves
<1>5. Busy(p)' /\ hooks'[p].event = hooks[p].event /\ hooks'[p].tool = hooks[p].tool
      /\ hooks'[p].todo = Tail(hooks[p].todo)
  <2>1. Tail(hooks[p].todo) # <<>>
    BY <1>0, <1>4, Handlers DEF Hook, Moved
  <2> QED BY <1>0, <1>4, <2>1 DEF Moved, Busy
<1>6. Prompting' <=> Prompting
  BY <1>0, <1>5 DEF Prompting, Moved, Busy
<1>7. Closing' <=> Closing
  <2>1. CASE hooks[p].event = "Stop"
    <3>1. hooks[p].todo = <<"read", "scan", "close", "write">>
      BY <1>2, <2>1 DEF Dispatch, Stop
    <3> QED BY <1>0, <1>5, <2>1, <3>1, Tuples DEF Closing
  <2>2. CASE hooks[p].event # "Stop"
    BY <1>0, <2>2, Others
  <2> QED BY <2>1, <2>2
<1>8. Filed'
  <2>1. phase' = "idle" => IF file' = Null THEN prompts' = 0 ELSE Numbered(file)'
    BY <1>0 DEF Filed, Numbered
  <2>2. (phase' = "busy" /\ ~Prompting') => file' # Null /\ Current(file)'
    BY <1>0, <1>6 DEF Filed, Current
  <2>3. Knows(p)'
    <3>1. CASE hooks[p].event = "UserPromptSubmit"
      <4>1. hooks[p].todo = <<"read", "turn", "write">>
        BY <1>2, <3>1 DEF Dispatch, UserPromptSubmit
      <4>2. IF file = Null THEN prompts = 1 ELSE file.turnIndex = prompts - 1
        BY <1>0, <3>1, <4>1 DEF Filed, Knows
      <4>3. hooks'[p].state.turnIndex = prompts - 1 /\ hooks'[p].todo = <<"turn", "write">>
        BY <1>5, <3>1, <4>1, <4>2, ReadMoves
      <4> QED BY <1>0, <1>5, <3>1, <4>3, Tuples DEF Knows, Tooling
    <3>2. CASE hooks[p].event = "Stop"
      <4>1. hooks[p].todo = <<"read", "scan", "close", "write">>
        BY <1>2, <3>2 DEF Dispatch, Stop
      <4>2. file # Null /\ Current(file)
        BY <1>0, <3>2, <4>1 DEF Filed, Knows
      <4>3. hooks'[p].state.turnIndex = prompts /\ hooks'[p].state.turn = prompts
            /\ hooks'[p].todo = <<"scan", "close", "write">>
        BY <1>5, <4>1, <4>2, ReadMoves DEF Current
      <4> QED BY <1>0, <1>5, <3>2, <4>3, Tuples DEF Knows, Current, Tooling
    <3>3. CASE hooks[p].event \in Tooling
      <4>1. file # Null /\ Current(file)
        BY <1>0, <3>3, ToolingAtWork
      <4> QED BY <1>0, <1>5, <3>3, <4>1, ReadMoves DEF Knows, Current, Tooling
    <3>4. CASE hooks[p].event = "SessionEnd"
      BY <1>5, <3>4 DEF Knows, Tooling
    <3> QED BY <1>0, <1>2, <3>1, <3>2, <3>3, <3>4 DEF Hook, Stages, Tooling
  <2> QED BY <1>0, <2>1, <2>2, <2>3, OthersKnow DEF Filed
<1>9. Rows'
  <2>1. hooks[p].event = "UserPromptSubmit" =>
          hooks[p].todo # <<"write">> /\ hooks'[p].todo # <<"write">>
    BY <1>2, <1>5, Tuples DEF Dispatch, UserPromptSubmit
  <2> QED BY <1>0, <1>5, <1>6, <1>7, <2>1 DEF Rows, Moved, Busy
<1>10. Issued'
  BY <1>0, <1>5, <1>6 DEF Issued, Moved, Busy
<1> QED BY <1>1, <1>3, <1>8, <1>9, <1>10

LEMMA ReadKept ==
  ASSUME Shape, Calmly, Kept, NEW p \in Procs, ReadState(p)
  PROVE  Kept'
<1>0. /\ Busy(p) /\ Head(hooks[p].todo) = "read" /\ Hook(p) /\ Moved(p) /\ Alone(p)
      /\ UNCHANGED <<file, turns, calls, phase, prompts, issued, starts, upset>>
  BY ReadMoves DEF ReadState, Doing, Shape, claude, trouble, Kept
<1>1. \A q \in Procs : Busy(q)' => q = p
  BY <1>0 DEF Moved, Alone, Busy
<1>2. hooks[p].event \in Tooling => file # Null /\ hooks'[p] # Idle
  BY ReadCalmly, ReadMoves DEF Tooling
<1>3. ASSUME phase' = "busy", NEW t \in DOMAIN issued', Waiting(t)'
      PROVE  (file' # Null /\ t \in file'.active) \/ Running("PreToolUse", t)'
  <2>1. (file # Null /\ t \in file.active) \/ Running("PreToolUse", t)
    BY <1>0, <1>3 DEF Kept, Waiting
  <2>2. CASE Running("PreToolUse", t)
    <3>1. hooks[p].event = "PreToolUse" /\ hooks[p].tool = t
      BY <1>0, <2>2 DEF Running, Alone
    <3>2. hooks'[p] # Idle BY <1>2, <3>1 DEF Tooling
    <3>3. Tail(hooks[p].todo) # <<>>
      BY <1>0, <3>2, Handlers DEF Hook, Moved
    <3> QED BY <1>0, <3>1, <3>2, <3>3 DEF Running, Moved, Busy
  <2> QED BY <1>0, <2>1, <2>2
<1>4. ASSUME phase' = "busy", hooks[p].event \in Tooling, NEW t \in DOMAIN issued, Waiting(t)
      PROVE  t \in hooks'[p].state.active
  <2>1. (file # Null /\ t \in file.active) \/ Running("PreToolUse", t)
    BY <1>0, <1>4 DEF Kept
  <2>2. Running("PreToolUse", t) => hooks[p].event = "PreToolUse" /\ hooks[p].tool = t
    BY <1>0 DEF Running, Alone
  <2> QED BY <2>1, <2>2, <1>2, <1>4, ReadMoves
<1>5. ASSUME phase' = "busy", NEW q \in Procs, Busy(q)' PROVE Keeps(q)'
  <2>1. q = p BY <1>1, <1>5
  <2>2. hooks'[p].event = hooks[p].event
    BY <1>0, <1>5, <2>1, Stopped DEF Moved, Busy, Idle
  <2> QED BY <1>0, <1>4, <1>5, <2>1, <2>2 DEF Keeps, Waiting
<1> QED BY <1>0, <1>1, <1>3, <1>5 DEF Kept, Alone

LEMMA ReadStep ==
  ASSUME IInv, NEW p \in Procs, ReadState(p)
  PROVE  IInv'
<1> USE DEF IInv
<1>0. Busy(p) /\ UNCHANGED <<file, turns, calls, prompts, starts, lines, written, upset>>
  BY DEF ReadState, Doing, claude, trouble
<1>1. Shape' BY <1>0, ReadMoves, ShapeMoves DEF Shape
<1>2. Calm' => Calmly' BY <1>0, ReadCalmly DEF Calm, Calmly
<1>3. Calm' /\ "overlapped" \notin upset' => Kept'
  BY <1>0, ReadKept DEF Calm, Calmly
<1> QED BY <1>1, <1>2, <1>3 DEF Calmly

\* The row that a prompt's hook makes.
LEMMA TurnRows ==
  ASSUME Shape, NEW p \in Procs, RecordTurn(p)
  PROVE
  LET i == hooks[p].state.turnIndex + 1 IN
  /\ Busy(p) /\ Moved(p) /\ hooks'[p] # Idle
  /\ hooks[p].event = "UserPromptSubmit" /\ hooks[p].todo = <<"turn", "write">>
  /\ hooks'[p].state.turnIndex = i /\ hooks'[p].state.turn = i
  /\ DOMAIN turns' = DOMAIN turns \cup {i}
  /\ \A j \in DOMAIN turns : j # i => turns'[j] = turns[j]
  /\ DOMAIN turns'[i] = {"of", "ended"}
  /\ i \notin DOMAIN turns => turns'[i].of = {prompts}
  /\ UNCHANGED <<lines, written, file, calls, phase, prompts, issued, starts, upset>>
<1> DEFINE i == hooks[p].state.turnIndex + 1
<1>1. /\ Busy(p) /\ Hook(p) /\ Head(hooks[p].todo) = "turn"
      /\ UNCHANGED <<lines, written, file, calls, phase, prompts, issued, starts, upset>>
  BY DEF RecordTurn, Doing, Shape, claude, trouble
<1>2. hooks[p].event = "UserPromptSubmit" /\ hooks[p].todo = <<"turn", "write">>
  BY <1>1, Handlers DEF Hook
<1>3. i \in Nat /\ hooks[p].state \in SessionStates
  BY <1>1 DEF Hook, SessionStates
<1> DEFINE s == [hooks[p].state EXCEPT !.turnIndex = i, !.turn = i]
<1>4. s \in SessionStates /\ s.turnIndex = i /\ s.turn = i
  BY <1>3 DEF SessionStates
<1>5. Advance(p, s) BY DEF RecordTurn
<1>6. Moved(p) /\ hooks'[p] # Idle /\ hooks'[p].state = s
  <2> HIDE DEF s
  <2> QED BY <1>1, <1>2, <1>4, <1>5, Advances, Tuples
<1> DEFINE row == [Turn(i) EXCEPT !.of = @ \cup {prompts}]
<1>7. turns' = Set(turns, i, row)
  BY DEF RecordTurn
<1>8. DOMAIN row = {"of", "ended"} /\ (i \notin DOMAIN turns => row.of = {prompts})
  <2>1. DOMAIN Turn(i) = {"of", "ended"} /\ (i \notin DOMAIN turns => Turn(i).of = {})
    BY DEF Turn, Shape
  <2> QED BY <2>1
<1> HIDE DEF row, s
<1>9. /\ DOMAIN turns' = DOMAIN turns \cup {i} /\ turns'[i] = row
      /\ \A j \in DOMAIN turns : j # i => turns'[j] = turns[j]
  BY <1>7 DEF Set
<1> QED BY <1>1, <1>2, <1>4, <1>6, <1>8, <1>9

LEMMA TurnStep ==
  ASSUME IInv, NEW p \in Procs, RecordTurn(p)
  PROVE  IInv'
<1> USE DEF IInv
<1>0. Shape OBVIOUS
<1>1. Shape'
  <2> DEFINE i == hooks[p].state.turnIndex + 1
  <2>1. /\ DOMAIN turns' = DOMAIN turns \cup {i}
        /\ \A j \in DOMAIN turns : j # i => turns'[j] = turns[j]
        /\ DOMAIN turns'[i] = {"of", "ended"}
        /\ Busy(p) /\ Moved(p)
        /\ UNCHANGED <<lines, written, file, calls, prompts, starts>>
    BY <1>0, TurnRows
  <2>2. \A j \in DOMAIN turns' : DOMAIN turns'[j] = {"of", "ended"}
    <3> HIDE DEF i
    <3> QED BY <1>0, <2>1 DEF Shape
  <2> QED BY <1>0, <2>1, <2>2, ShapeMoves DEF Shape
<1>2. UNCHANGED upset /\ Busy(p) /\ Moved(p) /\ UNCHANGED <<file, calls, phase, prompts, issued, starts>>
  BY <1>0, TurnRows
<1>3. ASSUME Calm PROVE Calmly'
  <2>1. /\ hooks[p].event = "UserPromptSubmit" /\ hooks[p].todo = <<"turn", "write">>
        /\ hooks'[p] # Idle
    BY <1>0, TurnRows
  <2>2. Knows(p) /\ Alone(p) /\ phase = "busy" /\ prompts >= 1 /\ prompts \in Nat
    BY <1>0, <1>2, <1>3, <2>1 DEF Filed, Who, Shape
  <2>3. hooks[p].state.turnIndex = prompts - 1
    BY <2>1, <2>2 DEF Knows
  <2>4. hooks[p].state.turnIndex + 1 = prompts /\ prompts \notin DOMAIN turns
    BY <1>2, <1>3, <2>1, <2>2, <2>3, Tuples DEF Rows
  <2>5. /\ hooks'[p].state.turnIndex = prompts /\ hooks'[p].state.turn = prompts
        /\ DOMAIN turns' = DOMAIN turns \cup {prompts}
        /\ \A j \in DOMAIN turns : turns'[j] = turns[j]
        /\ turns'[prompts].of = {prompts}
    BY <1>0, <2>4, TurnRows
  <2>6. /\ hooks'[p].event = "UserPromptSubmit" /\ hooks'[p].todo = <<"write">>
        /\ Busy(p)' /\ \A q \in Procs : Busy(q)' => q = p
    BY <1>2, <2>1, <2>2, Tuples DEF Moved, Busy, Alone
  <2>7. Who' BY <1>0, <1>2, <1>3, WhoMoves
  <2>8. Filed'
    <3>1. Knows(p)'
      BY <1>2, <2>5, <2>6, Tuples DEF Knows, Current, Tooling
    <3> QED BY <1>2, <2>2, <2>6, <3>1 DEF Filed, Prompting
  <2>9. Rows'
    <3>1. \A j \in DOMAIN turns' :
            j \in 1 .. prompts /\ turns'[j].of = {j}
              /\ (turns'[j].ended \/ j = prompts \/ "interrupted" \in upset)
      BY <1>3, <2>2, <2>5 DEF Rows
    <3>2. ~Closing' BY <2>6 DEF Closing
    <3> QED BY <1>2, <2>2, <2>5, <2>6, <3>1, <3>2 DEF Rows
  <2>10. Issued'
    BY <1>2, <1>3, <2>1, <2>6 DEF Issued, Prompting
  <2> QED BY <2>7, <2>8, <2>9, <2>10 DEF Calmly
<1>4. ASSUME Calm, "overlapped" \notin upset PROVE Kept'
  <2>1. Kept /\ hooks[p].event = "UserPromptSubmit" /\ hooks'[p] # Idle
    BY <1>0, <1>4, TurnRows
  <2>2. \A q \in Procs : Busy(q)' => q = p
    BY <1>2, <2>1 DEF Kept, Alone, Moved, Busy
  <2>3. \A t : Running("PreToolUse", t) <=> Running("PreToolUse", t)'
    BY <1>2, <2>1 DEF Running, Moved, Busy
  <2>4. hooks'[p].event = "UserPromptSubmit" BY <1>2, <2>1 DEF Moved
  <2>5. \A t : Waiting(t)' <=> Waiting(t) BY <1>2 DEF Waiting
  <2> QED BY <1>2, <2>1, <2>2, <2>3, <2>4, <2>5 DEF Kept, Keeps, Alone, Tooling
<1> QED BY <1>1, <1>2, <1>3, <1>4 DEF Calm, Calmly

\* The row that a tool's second hook makes, or changes.
LEMMA ToolRows ==
  ASSUME Shape, NEW p \in Procs, RecordToolCall(p)
  PROVE
  LET t == hooks[p].tool
      s == hooks[p].state IN
  /\ Busy(p) /\ Moved(p) /\ hooks'[p] # Idle
  /\ hooks[p].event = "PostToolUse" /\ hooks[p].todo = <<"tool", "scan", "write">>
  /\ hooks'[p].state.turnIndex = s.turnIndex /\ hooks'[p].state.turn = s.turn
  /\ hooks'[p].state.active = s.active \ {t}
  /\ DOMAIN calls' = DOMAIN calls \cup {t}
  /\ \A u \in DOMAIN calls : u # t => calls'[u] = calls[u]
  /\ DOMAIN calls'[t] = {"turn", "timed"}
  /\ s.turn # Null => calls'[t].turn = s.turn
  /\ calls'[t].timed = IF t \in DOMAIN calls THEN calls[t].timed ELSE t \in s.active
  /\ UNCHANGED <<lines, written, file, turns, phase, prompts, issued, starts, upset>>
<1> DEFINE t == hooks[p].tool
           s == hooks[p].state
<1>1. /\ Busy(p) /\ Hook(p) /\ Head(hooks[p].todo) = "tool"
      /\ UNCHANGED <<lines, written, file, turns, phase, prompts, issued, starts, upset>>
  BY DEF RecordToolCall, Doing, Shape, claude, trouble
<1>2. hooks[p].event = "PostToolUse" /\ hooks[p].todo = <<"tool", "scan", "write">>
  BY <1>1, Handlers DEF Hook
<1>3. s \in SessionStates /\ t \in Tools
  BY <1>1, <1>2 DEF Hook
<1> DEFINE new == [s EXCEPT !.active = @ \ {t}]
<1>4. /\ new \in SessionStates /\ new.turnIndex = s.turnIndex /\ new.turn = s.turn
      /\ new.active = s.active \ {t}
  BY <1>3 DEF SessionStates
<1>5. Advance(p, new) BY DEF RecordToolCall
<1>6. Moved(p) /\ hooks'[p] # Idle /\ hooks'[p].state = new
  <2> HIDE DEF new, t, s
  <2>1. Len(hooks[p].todo) # 1 BY <1>2
  <2> QED BY <1>1, <2>1, <1>4, <1>5, Advances
<1>7. /\ DOMAIN calls' = DOMAIN calls \cup {t}
      /\ \A u \in DOMAIN calls : u # t => calls'[u] = calls[u]
      /\ DOMAIN calls'[t] = {"turn", "timed"}
      /\ s.turn # Null => calls'[t].turn = s.turn
      /\ calls'[t].timed = IF t \in DOMAIN calls THEN calls[t].timed ELSE t \in s.active
  <2>1. CASE t \notin DOMAIN calls
    <3> DEFINE row == [turn |-> s.turn, timed |-> t \in s.active]
    <3>1. calls' = Set(calls, t, row) BY <2>1 DEF RecordToolCall
    <3>2. DOMAIN row = {"turn", "timed"} /\ row.turn = s.turn /\ row.timed = (t \in s.active)
      OBVIOUS
    <3> HIDE DEF row, s, t
    <3> QED BY <2>1, <3>1, <3>2 DEF Set
  <2>2. CASE t \in DOMAIN calls
    <3>1. calls' = IF s.turn = Null THEN calls ELSE [calls EXCEPT ![t].turn = s.turn]
      BY <2>2 DEF RecordToolCall
    <3>2. DOMAIN calls[t] = {"turn", "timed"} BY <2>2 DEF Shape
    <3> HIDE DEF s, t
    <3> QED BY <2>2, <3>1, <3>2
  <2> QED BY <2>1, <2>2
<1> HIDE DEF new
<1> QED BY <1>1, <1>2, <1>4, <1>6, <1>7

LEMMA ToolStep ==
  ASSUME IInv, NEW p \in Procs, RecordToolCall(p)
  PROVE  IInv'
<1> USE DEF IInv
<1>0. Shape OBVIOUS
<1>1. Shape'
  <2> DEFINE t == hooks[p].tool
  <2>1. /\ DOMAIN calls' = DOMAIN calls \cup {t}
        /\ \A u \in DOMAIN calls : u # t => calls'[u] = calls[u]
        /\ DOMAIN calls'[t] = {"turn", "timed"}
        /\ Busy(p) /\ Moved(p)
        /\ UNCHANGED <<lines, written, file, turns, prompts, starts>>
    BY <1>0, ToolRows
  <2>2. \A u \in DOMAIN calls' : DOMAIN calls'[u] = {"turn", "timed"}
    <3> HIDE DEF t
    <3> QED BY <1>0, <2>1 DEF Shape
  <2> QED BY <1>0, <2>1, <2>2, ShapeMoves DEF Shape
<1>2. /\ UNCHANGED upset /\ Busy(p) /\ Moved(p) /\ UNCHANGED <<file, turns, phase, prompts, issued, starts>>
      /\ hooks[p].event = "PostToolUse" /\ hooks'[p] # Idle
      /\ hooks[p].todo = <<"tool", "scan", "write">>
  BY <1>0, ToolRows
<1>3. /\ hooks'[p].event = "PostToolUse" /\ hooks'[p].todo = <<"scan", "write">>
      /\ Busy(p)' /\ hooks'[p].tool = hooks[p].tool
      /\ Head(hooks[p].todo) # "read"
  <2>1. hooks'[p].event = "PostToolUse" /\ hooks'[p].tool = hooks[p].tool
        /\ hooks'[p].todo = Tail(hooks[p].todo)
    BY <1>2 DEF Moved
  <2>2. Tail(<<"tool", "scan", "write">>) = <<"scan", "write">>
        /\ Head(<<"tool", "scan", "write">>) # "read" /\ <<"scan", "write">> # <<>>
    OBVIOUS
  <2> QED BY <1>2, <2>1, <2>2 DEF Busy
<1>4. ASSUME Calm PROVE Calmly'
  <2>1. /\ phase = "busy" /\ Knows(p) /\ prompts \in Nat
        /\ hooks[p].tool \in DOMAIN issued /\ issued[hooks[p].tool] = prompts
    BY <1>0, <1>2, <1>4 DEF Filed, Who, Shape, Issued, Tooling
  <2>2. Current(hooks[p].state) /\ prompts # Null
    BY <1>2, <1>3, <2>1, PathsAssumption DEF Knows, Tooling
  <2>3. /\ calls'[hooks[p].tool].turn = prompts
        /\ DOMAIN calls' = DOMAIN calls \cup {hooks[p].tool}
        /\ \A u \in DOMAIN calls : u # hooks[p].tool => calls'[u] = calls[u]
    BY <1>0, <2>2, ToolRows DEF Current
  <2>4. Current(hooks'[p].state)
    BY <1>0, <2>2, ToolRows DEF Current
  <2>5. Who' BY <1>0, <1>2, <1>4, WhoMoves
  <2>6. (Prompting' <=> Prompting) /\ (Closing' <=> Closing)
    BY <1>0, <1>2, Others
  <2>7. Filed'
    <3>1. Knows(p)'
      BY <1>2, <1>3, <2>4 DEF Knows, Current, Tooling
    <3> QED BY <1>2, <1>4, <2>1, <2>6, <3>1, OthersKnow DEF Filed, Current
  <2>8. Rows'
    BY <1>2, <1>3, <1>4, <2>6 DEF Rows, Moved, Busy
  <2>9. Issued'
    BY <1>2, <1>3, <1>4, <2>1, <2>3, <2>6 DEF Issued, Moved, Busy
  <2> QED BY <2>5, <2>7, <2>8, <2>9 DEF Calmly
<1>5. ASSUME Calm, "overlapped" \notin upset PROVE Kept'
  <2>1. Kept /\ phase = "busy" /\ Alone(p) /\ Keeps(p)
        /\ hooks[p].tool \in DOMAIN issued /\ issued[hooks[p].tool] = prompts
    BY <1>2, <1>5 DEF Kept, Who, Issued, Tooling
  <2>2. \A q \in Procs : Busy(q)' => q = p
    BY <1>2, <2>1 DEF Alone, Moved, Busy
  <2>3. \A t : Waiting(t)' => Waiting(t) /\ t # hooks[p].tool
    BY <1>0, <1>2, ToolRows DEF Waiting
  <2>4. Keeps(p)'
    BY <1>0, <1>2, <1>3, <2>1, <2>3, ToolRows DEF Keeps, Tooling
  <2>5. \A t : ~Running("PreToolUse", t)
    BY <1>2, <2>1 DEF Running, Alone
  <2>6. \A t \in DOMAIN issued' : Waiting(t)' => file' # Null /\ t \in file'.active
    BY <1>2, <2>1, <2>3, <2>5 DEF Kept
  <2>7. \A t \in DOMAIN calls' : calls'[t].timed
    <3>1. calls'[hooks[p].tool].timed
      <4>1. hooks[p].tool \notin DOMAIN calls => hooks[p].tool \in hooks[p].state.active
        BY <1>2, <1>3, <2>1 DEF Keeps, Waiting, Tooling
      <4>2. hooks[p].tool \in DOMAIN calls => calls[hooks[p].tool].timed
        BY <2>1 DEF Kept
      <4> QED BY <1>0, <4>1, <4>2, ToolRows
    <3>2. /\ DOMAIN calls' = DOMAIN calls \cup {hooks[p].tool}
          /\ \A u \in DOMAIN calls : u # hooks[p].tool => calls'[u] = calls[u]
      BY <1>0, ToolRows
    <3> QED BY <2>1, <3>1, <3>2 DEF Kept
  <2> QED BY <2>2, <2>4, <2>6, <2>7 DEF Kept, Alone
<1> QED BY <1>1, <1>2, <1>4, <1>5 DEF Calm, Calmly

\* The row that Stop closes.
LEMMA CloseRows ==
  ASSUME Shape, NEW p \in Procs, CloseTurn(p)
  PROVE
  LET i == hooks[p].state.turn IN
  /\ Busy(p) /\ Moved(p) /\ hooks'[p] # Idle
  /\ hooks[p].event = "Stop" /\ hooks[p].todo = <<"close", "write">>
  /\ hooks'[p].state.turnIndex = hooks[p].state.turnIndex
  /\ \A j \in DOMAIN turns' : DOMAIN turns'[j] = {"of", "ended"}
  /\ i \in DOMAIN turns /\ i # Null =>
       /\ DOMAIN turns' = DOMAIN turns
       /\ \A j \in DOMAIN turns : j # i => turns'[j] = turns[j]
       /\ turns'[i].of = turns[i].of /\ turns'[i].ended
  /\ UNCHANGED <<lines, written, file, calls, phase, prompts, issued, starts, upset>>
<1> DEFINE i == hooks[p].state.turn
<1>1. /\ Busy(p) /\ Hook(p) /\ Head(hooks[p].todo) = "close"
      /\ UNCHANGED <<lines, written, file, calls, phase, prompts, issued, starts, upset>>
  BY DEF CloseTurn, Doing, Shape, claude, trouble
<1>2. hooks[p].event = "Stop" /\ hooks[p].todo = <<"close", "write">>
  BY <1>1, Handlers DEF Hook
<1> DEFINE new == [hooks[p].state EXCEPT !.turn = Null, !.active = {}]
<1>3. new \in SessionStates /\ new.turnIndex = hooks[p].state.turnIndex
  BY <1>1 DEF SessionStates, Hook
<1>4. Advance(p, new) BY DEF CloseTurn
<1>5. Moved(p) /\ hooks'[p] # Idle /\ hooks'[p].state = new
  <2> HIDE DEF new
  <2> QED BY <1>1, <1>2, <1>3, <1>4, Advances, Tuples
<1> DEFINE row == [Turn(i) EXCEPT !.ended = TRUE]
<1>6. turns' = IF i = Null THEN turns ELSE Set(turns, i, row)
  BY DEF CloseTurn
<1>7. DOMAIN row = {"of", "ended"} /\ row.ended /\ (i \in DOMAIN turns => row.of = turns[i].of)
  <2>1. DOMAIN Turn(i) = {"of", "ended"} /\ (i \in DOMAIN turns => Turn(i) = turns[i])
    BY DEF Turn, Shape
  <2> QED BY <2>1
<1> HIDE DEF row, new
<1>8. /\ \A j \in DOMAIN turns' : DOMAIN turns'[j] = {"of", "ended"}
      /\ i \in DOMAIN turns /\ i # Null =>
           /\ DOMAIN turns' = DOMAIN turns
           /\ \A j \in DOMAIN turns : j # i => turns'[j] = turns[j]
           /\ turns'[i].of = turns[i].of /\ turns'[i].ended
  <2>1. CASE i = Null BY <1>6, <2>1 DEF Shape
  <2>2. CASE i # Null
    <3>1. /\ DOMAIN turns' = DOMAIN turns \cup {i} /\ turns'[i] = row
          /\ \A j \in DOMAIN turns : j # i => turns'[j] = turns[j]
      BY <1>6, <2>2 DEF Set
    <3> HIDE DEF i
    <3> QED BY <1>7, <3>1 DEF Shape
  <2> QED BY <2>1, <2>2
<1> QED BY <1>1, <1>2, <1>3, <1>5, <1>8

LEMMA CloseStep ==
  ASSUME IInv, NEW p \in Procs, CloseTurn(p)
  PROVE  IInv'
<1> USE DEF IInv
<1>0. Shape OBVIOUS
<1>1. /\ UNCHANGED upset /\ Busy(p) /\ Moved(p)
      /\ UNCHANGED <<lines, written, file, calls, phase, prompts, issued, starts>>
      /\ hooks[p].event = "Stop" /\ hooks'[p] # Idle /\ hooks[p].todo = <<"close", "write">>
      /\ \A j \in DOMAIN turns' : DOMAIN turns'[j] = {"of", "ended"}
  BY <1>0, CloseRows
<1>2. Shape'
  BY <1>0, <1>1, ShapeMoves DEF Shape
<1>3. hooks'[p].event = "Stop" /\ hooks'[p].todo = <<"write">> /\ Busy(p)'
  BY <1>1, Tuples DEF Moved, Busy
<1>4. ASSUME Calm PROVE Calmly'
  <2>1. phase = "idle" /\ Alone(p) /\ Knows(p) /\ prompts \in Nat /\ prompts >= 1
    BY <1>0, <1>1, <1>4 DEF Who, Filed, Shape
  <2>2. Current(hooks[p].state) /\ prompts # Null
    BY <1>1, <2>1, PathsAssumption DEF Knows
  <2>3. Closing BY <1>1, Tuples DEF Closing
  <2>4. prompts \in DOMAIN turns BY <1>4, <2>3 DEF Rows
  <2>5. /\ DOMAIN turns' = DOMAIN turns
        /\ \A j \in DOMAIN turns : j # prompts => turns'[j] = turns[j]
        /\ turns'[prompts].of = turns[prompts].of /\ turns'[prompts].ended
        /\ hooks'[p].state.turnIndex = prompts
    BY <1>0, <2>2, <2>4, CloseRows DEF Current
  <2>6. \A q \in Procs : Busy(q)' => q = p
    BY <1>1, <2>1 DEF Alone, Moved, Busy
  <2>7. ~Closing' /\ ~Prompting'
    BY <1>3, <2>6 DEF Closing, Prompting
  <2>8. Who' BY <1>0, <1>1, <1>4, WhoMoves
  <2>9. Filed'
    <3>1. Knows(p)'
      BY <1>1, <1>3, <2>5, Tuples DEF Knows, Numbered, Tooling
    <3> QED BY <1>1, <1>4, <2>1, <2>6, <3>1 DEF Filed, Numbered
  <2>10. Rows'
    BY <1>1, <1>3, <1>4, <2>1, <2>4, <2>5, <2>6, <2>7 DEF Rows
  <2>11. Issued'
    BY <1>1, <1>3, <1>4, <2>6, <2>7 DEF Issued
  <2> QED BY <2>8, <2>9, <2>10, <2>11 DEF Calmly
<1>5. ASSUME Calm, "overlapped" \notin upset PROVE Kept'
  <2>1. Kept /\ phase = "idle"
    BY <1>1, <1>5 DEF Who
  <2>2. \A q \in Procs : Busy(q)' => q = p
    BY <1>1, <2>1 DEF Kept, Alone, Moved, Busy
  <2> QED BY <1>1, <2>1, <2>2 DEF Kept, Alone
<1> QED BY <1>1, <1>2, <1>4, <1>5 DEF Calm, Calmly

\* The last step of a hook leaves the hooks of other kinds where they were.
LEMMA WriteEffect ==
  ASSUME Shape, NEW p \in Procs, WriteState(p)
  PROVE
  /\ Busy(p) /\ Moved(p) /\ Hook(p)
  /\ file' = hooks[p].state /\ file' \in SessionStates /\ file' # Null
  /\ hooks[p].event = "SessionStart" => hooks[p].todo = <<"write", "git">>
  /\ hooks[p].event = "SessionEnd" => hooks[p].todo = <<"write", "end", "delete">>
  /\ hooks[p].event \notin {"SessionStart", "SessionEnd"} =>
       hooks[p].todo = <<"write">> /\ hooks'[p] = Idle
  /\ hooks'[p] # Idle => hooks'[p].state = hooks[p].state
  /\ Head(hooks[p].todo) = "write"
  /\ UNCHANGED <<lines, written, turns, calls, phase, prompts, issued, starts, upset>>
<1>1. /\ Busy(p) /\ Hook(p) /\ Head(hooks[p].todo) = "write" /\ file' = hooks[p].state
      /\ Advance(p, hooks[p].state)
      /\ UNCHANGED <<lines, written, turns, calls, phase, prompts, issued, starts, upset>>
  BY DEF WriteState, Doing, Shape, store, claude, trouble
<1>2. hooks[p].state \in SessionStates /\ hooks[p].state # Null
  BY <1>1, NullAssumption DEF Hook
<1>3. /\ hooks[p].event = "SessionStart" => hooks[p].todo = <<"write", "git">>
      /\ hooks[p].event = "SessionEnd" => hooks[p].todo = <<"write", "end", "delete">>
      /\ hooks[p].event \notin {"SessionStart", "SessionEnd"} => hooks[p].todo = <<"write">>
  BY <1>1, Handlers DEF Hook
<1>4. /\ Moved(p)
      /\ hooks'[p] = Idle <=> Len(hooks[p].todo) = 1
      /\ hooks'[p] # Idle => hooks'[p].state = hooks[p].state
  BY <1>1, <1>2, Advances
<1>5. hooks[p].event \notin {"SessionStart", "SessionEnd"} => hooks'[p] = Idle
  <2>1. Len(<<"write">>) = 1 OBVIOUS
  <2> QED BY <1>3, <1>4, <2>1
<1> QED BY <1>1, <1>2, <1>3, <1>4, <1>5

LEMMA WriteCalmly ==
  ASSUME Shape, Calmly, NEW p \in Procs, WriteState(p)
  PROVE  Calmly'
<1> USE DEF Calmly
<1> DEFINE e == hooks[p].event
<1>1. /\ Busy(p) /\ Moved(p) /\ Hook(p) /\ file' = hooks[p].state /\ file' # Null
      /\ Head(hooks[p].todo) = "write" /\ Knows(p)
      /\ UNCHANGED <<lines, written, turns, calls, phase, prompts, issued, starts, upset>>
  BY WriteEffect DEF Filed
<1>2. Who'
  BY <1>1, WhoMoves
<1>3. CASE e = "SessionStart"
  <2>1. Alone(p) /\ phase = "idle" /\ prompts = 0 /\ hooks[p].state.turnIndex = 0
    BY <1>1, <1>3 DEF Who, Knows
  <2>2. hooks'[p] # Idle => hooks'[p].state.turnIndex = 0 /\ hooks'[p].event = "SessionStart"
    BY <1>1, <1>3, <2>1, WriteEffect DEF Moved
  <2>3. \A q \in Procs : Busy(q)' => q = p /\ hooks'[p] # Idle
    BY <1>1, <2>1, Stopped DEF Alone, Moved, Busy, Idle
  <2>4. ~Prompting' /\ ~Closing'
    BY <2>2, <2>3 DEF Prompting, Closing
  <2>5. Filed'
    BY <1>1, <2>1, <2>2, <2>3 DEF Filed, Knows, Numbered, Tooling
  <2>6. Rows'
    BY <1>1, <2>1, <2>2, <2>3, <2>4 DEF Rows
  <2>7. Issued'
    BY <1>1, <2>2, <2>3, <2>4 DEF Issued
  <2> QED BY <1>2, <2>5, <2>6, <2>7
<1>4. CASE e = "SessionEnd"
  <2>1. Alone(p) /\ phase = "over"
    BY <1>1, <1>4 DEF Who
  <2>2. \A q \in Procs : Busy(q)' => q = p /\ hooks'[p] # Idle
    BY <1>1, <2>1, Stopped DEF Alone, Moved, Busy, Idle
  <2>3. hooks'[p] # Idle => hooks'[p].event = "SessionEnd"
    BY <1>1, <1>4 DEF Moved
  <2>4. ~Prompting' /\ ~Closing'
    BY <2>2, <2>3 DEF Prompting, Closing
  <2>5. Filed'
    BY <1>1, <2>1, <2>2, <2>3 DEF Filed, Knows, Tooling
  <2>6. Rows'
    BY <1>1, <2>1, <2>2, <2>3, <2>4 DEF Rows
  <2>7. Issued'
    BY <1>1, <2>2, <2>3, <2>4 DEF Issued
  <2> QED BY <1>2, <2>5, <2>6, <2>7
<1>5. CASE e \in {"UserPromptSubmit", "Stop"}
  <2>1. /\ Alone(p) /\ hooks'[p] = Idle /\ hooks[p].todo = <<"write">>
        /\ e = "UserPromptSubmit" => phase = "busy"
        /\ e = "Stop" => phase = "idle"
    BY <1>1, <1>5, WriteEffect DEF Who
  <2>2. \A q \in Procs : ~Busy(q)'
    BY <1>1, <2>1, Stopped DEF Alone, Moved, Busy, Idle
  <2>3. ~Prompting' /\ ~Closing'
    BY <2>2 DEF Prompting, Closing
  <2>4. CASE e = "UserPromptSubmit"
    <3>1. Current(file)' /\ phase = "busy" /\ prompts \in DOMAIN turns
      BY <1>1, <2>1, <2>4 DEF Knows, Current, Rows, Who
    <3>2. Filed' BY <1>1, <2>2, <3>1 DEF Filed
    <3>3. Rows' BY <1>1, <2>2, <2>3, <3>1 DEF Rows
    <3>4. Issued' BY <1>1, <2>2, <2>3 DEF Issued
    <3> QED BY <1>2, <3>2, <3>3, <3>4
  <2>5. CASE e = "Stop"
    <3>1. Numbered(file)' /\ phase = "idle" /\ ~Closing
      BY <1>1, <2>1, <2>5, Tuples DEF Knows, Numbered, Who, Closing, Alone
    <3>2. Filed' BY <1>1, <2>2, <3>1 DEF Filed
    <3>3. Rows' BY <1>1, <2>2, <2>3, <3>1 DEF Rows
    <3>4. Issued' BY <1>1, <2>2, <2>3 DEF Issued
    <3> QED BY <1>2, <3>2, <3>3, <3>4
  <2> QED BY <1>5, <2>4, <2>5
<1>6. CASE e \in Tooling
  <2>1. phase = "busy" /\ ~Prompting /\ hooks'[p] = Idle /\ ~Busy(p)'
    BY <1>1, <1>6, ToolingAtWork, WriteEffect, Stopped DEF Tooling, Busy, Idle
  <2>2. Current(file)'
    BY <1>1, <1>6 DEF Knows, Current, Tooling
  <2>3. \A q \in Procs : Busy(q)' => q # p /\ Busy(q) /\ hooks'[q] = hooks[q]
    BY <1>1, <2>1 DEF Moved, Busy
  <2>4. \A q \in Procs : Busy(q) => hooks[q].event \in Tooling
    <3> SUFFICES ASSUME NEW q \in Procs, Busy(q), hooks[q].event \notin Tooling PROVE FALSE
      OBVIOUS
    <3>1. Hook(q) BY DEF Shape
    <3>2. hooks[q].event \in {"SessionStart", "UserPromptSubmit", "Stop", "SessionEnd"}
      BY <3>1 DEF Hook, Stages, Tooling
    <3>3. Alone(q) BY <3>2 DEF Who
    <3> QED BY <1>1, <1>6, <3>3 DEF Alone
  <2>5. ~Prompting' /\ ~Closing'
    BY <2>3, <2>4 DEF Prompting, Closing, Tooling
  <2>6. \A q \in Procs : Busy(q)' => Knows(q)'
    BY <1>1, <2>3, <2>4 DEF Filed, Knows, Current, Tooling
  <2>7. Filed' BY <1>1, <2>1, <2>2, <2>6 DEF Filed
  <2>8. Rows' BY <1>1, <2>1, <2>3, <2>5 DEF Rows
  <2>9. Issued' BY <1>1, <2>3, <2>5 DEF Issued
  <2> QED BY <1>2, <2>7, <2>8, <2>9
<1> QED BY <1>1, <1>3, <1>4, <1>5, <1>6 DEF Hook, Stages, Tooling

LEMMA WriteStep ==
  ASSUME IInv, NEW p \in Procs, WriteState(p)
  PROVE  IInv'
<1> USE DEF IInv
<1>1. Shape OBVIOUS
<1>2. /\ Busy(p) /\ Moved(p) /\ Hook(p) /\ file' = hooks[p].state /\ file' \in SessionStates
      /\ UNCHANGED <<lines, written, turns, calls, phase, prompts, issued, starts, upset>>
  BY <1>1, WriteEffect
<1>3. Shape' BY <1>1, <1>2, ShapeMoves DEF Shape
<1>4. Calm' => Calmly' BY <1>1, <1>2, WriteCalmly DEF Calm, Calmly
<1>5. ASSUME Calm, "overlapped" \notin upset PROVE Kept'
  <2>1. Kept /\ Who /\ Issued /\ Alone(p) BY <1>2, <1>5 DEF Kept
  <2>2. \A q \in Procs : Busy(q)' => q = p /\ hooks'[p] # Idle
    BY <1>2, <2>1, Stopped DEF Alone, Moved, Busy, Idle
  <2>3. CASE phase # "busy"
    BY <1>2, <2>1, <2>2, <2>3 DEF Kept, Alone
  <2>4. CASE phase = "busy"
    <3>1. hooks[p].event \in Tooling \cup {"UserPromptSubmit"}
      BY <1>2, <2>1, <2>4 DEF Who, Hook, Stages, Tooling
    <3>2. hooks'[p] = Idle /\ \A q \in Procs : ~Busy(q)'
      BY <1>1, <2>2, <3>1, WriteEffect DEF Tooling
    <3>3. ASSUME NEW t \in DOMAIN issued, Waiting(t) PROVE t \in file'.active
      <4>1. CASE hooks[p].event = "UserPromptSubmit"
        <5>1. issued[t] < prompts /\ issued[t] \in Nat /\ prompts \in Nat
          BY <1>1, <1>2, <2>1, <4>1 DEF Issued, Prompting, Shape
        <5> QED BY <3>3, <5>1 DEF Waiting
      <4>2. CASE hooks[p].event \in Tooling
        <5>1. Head(hooks[p].todo) # "read" BY <1>1, WriteEffect
        <5> QED BY <1>2, <2>1, <2>4, <3>3, <4>2, <5>1 DEF Kept, Keeps
      <4> QED BY <3>1, <4>1, <4>2
    <3>4. file' # Null BY <1>1, WriteEffect
    <3> QED BY <1>2, <2>1, <3>2, <3>3, <3>4 DEF Kept, Waiting
  <2> QED BY <2>3, <2>4
<1> QED BY <1>2, <1>3, <1>4, <1>5 DEF Calm, Calmly

LEMMA DeleteStep ==
  ASSUME IInv, NEW p \in Procs, DeleteState(p)
  PROVE  IInv'
<1> USE DEF IInv
<1>1. /\ Busy(p) /\ DOMAIN hooks = Procs /\ Hook(p) /\ Shape
      /\ Head(hooks[p].todo) = "delete" /\ file' = Null /\ Advance(p, hooks[p].state)
      /\ UNCHANGED <<lines, written, turns, calls, phase, prompts, issued, starts, upset>>
  BY DEF DeleteState, Doing, Shape, store, claude, trouble
<1>2. hooks[p].event = "SessionEnd" /\ hooks[p].todo = <<"delete">>
  BY <1>1, Handlers DEF Hook
<1>3. Moved(p) /\ hooks'[p] = Idle
  <2>1. Len(<<"delete">>) = 1 /\ hooks[p].state \in SessionStates BY <1>1 DEF Hook
  <2> QED BY <1>1, <1>2, <2>1, Advances
<1>4. Shape'
  BY <1>1, <1>3, ShapeMoves DEF Shape
<1>5. ASSUME Calm PROVE phase = "over" /\ \A q \in Procs : ~Busy(q)'
  <2>1. phase = "over" /\ Alone(p) BY <1>1, <1>2, <1>5 DEF Who
  <2> QED BY <1>1, <1>3, <2>1, Stopped DEF Alone, Moved, Busy, Idle
<1>6. ASSUME Calm PROVE Calmly'
  <2>1. ~Prompting' /\ ~Closing' BY <1>5, <1>6 DEF Prompting, Closing
  <2>2. Who' BY <1>1, <1>3, <1>6, WhoMoves
  <2>3. (Filed /\ Rows /\ Issued)'
    BY <1>1, <1>5, <1>6, <2>1 DEF Filed, Rows, Issued
  <2> QED BY <2>2, <2>3 DEF Calmly
<1>7. ASSUME Calm, "overlapped" \notin upset PROVE Kept'
  BY <1>1, <1>5, <1>7 DEF Kept
<1> QED BY <1>1, <1>4, <1>6, <1>7 DEF Calm, Calmly

LEMMA AbandonStep ==
  ASSUME IInv, NEW p \in Procs, Abandon(p)
  PROVE  IInv'
<1>1. Shape /\ Busy(p) /\ ~Calm' BY DEF IInv, Abandon, Mishap, Calm
<1>2. Moved(p)
  BY <1>1 DEF Abandon, Moved, Shape
<1>3. Shape'
  BY <1>1, <1>2, ShapeMoves DEF Abandon, Shape, store, claude
<1> QED BY <1>1, <1>3 DEF IInv

-----------------------------------------------------------------------------
(* The steps that are aside of all this                                    *)

\* Transcripts grow, are cut back, and are recorded.
Aside ==
  /\ DOMAIN hooks' = DOMAIN hooks
  /\ \A q \in Procs :
       /\ DOMAIN hooks'[q] = DOMAIN hooks[q]
       /\ hooks'[q].todo = hooks[q].todo
       /\ hooks'[q].event = hooks[q].event /\ hooks'[q].tool = hooks[q].tool
       /\ hooks'[q].state = hooks[q].state /\ hooks'[q].path = hooks[q].path
  /\ UNCHANGED <<file, turns, calls, phase, prompts, issued, starts>>
  /\ upset \subseteq upset'
  /\ lines' \in [Paths -> Seq(Lines)] /\ written' \in Seq(Nat)

LEMMA AsideStep ==
  ASSUME IInv, Aside
  PROVE  IInv'
<1> USE DEF IInv, Calmly
<1>1. /\ DOMAIN hooks' = DOMAIN hooks
      /\ \A q \in Procs :
           /\ Busy(q)' <=> Busy(q)
           /\ DOMAIN hooks'[q] = DOMAIN hooks[q]
           /\ hooks'[q].todo = hooks[q].todo
           /\ hooks'[q].event = hooks[q].event /\ hooks'[q].tool = hooks[q].tool
           /\ hooks'[q].state = hooks[q].state /\ hooks'[q].path = hooks[q].path
      /\ UNCHANGED <<file, turns, calls, phase, prompts, issued, starts>>
  BY DEF Aside, Busy
<1>2. (Prompting' <=> Prompting) /\ (Closing' <=> Closing) /\ (Quiet' <=> Quiet)
      /\ \A q \in Procs : Alone(q)' <=> Alone(q)
  BY <1>1 DEF Prompting, Closing, Quiet, Alone
<1>3. Shape'
  <2>1. \A q \in Procs : Busy(q)' => Hook(q)'
    BY <1>1 DEF Shape, Hook
  <2> QED BY <1>1, <2>1 DEF Shape, Aside
<1>4. ASSUME Calmly PROVE Calmly'
  <2>1. Who' BY <1>1, <1>2, <1>4 DEF Who
  <2>2. Filed'
    <3>1. \A q \in Procs : Busy(q)' => Knows(q)'
      BY <1>1, <1>4 DEF Filed, Knows, Current, Numbered
    <3> QED BY <1>1, <1>2, <1>4, <3>1 DEF Filed, Current, Numbered
  <2>3. ASSUME "interrupted" \in upset => "interrupted" \in upset' PROVE Rows'
    BY <1>1, <1>2, <1>4, <2>3 DEF Rows
  <2>4. Issued' BY <1>1, <1>2, <1>4 DEF Issued
  <2> QED BY <2>1, <2>2, <2>3, <2>4 DEF Aside
<1>5. ASSUME Kept PROVE Kept'
  <2>1. \A t : Waiting(t)' <=> Waiting(t) BY <1>1 DEF Waiting
  <2>2. \A t : Running("PreToolUse", t)' <=> Running("PreToolUse", t)
    BY <1>1 DEF Running
  <2>3. \A q \in Procs : Keeps(q) => Keeps(q)'
    BY <1>1, <2>1 DEF Keeps
  <2> QED BY <1>1, <1>2, <1>5, <2>1, <2>2, <2>3 DEF Kept
<1> QED BY <1>3, <1>4, <1>5, Worse DEF Aside

LEMMA MessageStep ==
  ASSUME IInv, NEW p \in Procs, RecordLlmMessage(p)
  PROVE  IInv'
<1>1. Shape /\ Busy(p) /\ DOMAIN hooks = Procs /\ Hook(p)
  BY DEF IInv, Shape, RecordLlmMessage
<1>2. Aside
  BY <1>1 DEF Aside, RecordLlmMessage, Shape, Hook, HookFields, claude, trouble
<1> QED BY <1>2, AsideStep

LEMMA StillStep ==
  ASSUME IInv, UNCHANGED vars
  PROVE  IInv'
<1>1. Aside
  BY DEF IInv, Shape, Aside, vars, store, claude, trouble
<1> QED BY <1>1, AsideStep

LEMMA SubagentStep ==
  ASSUME IInv, Subagent
  PROVE  IInv'
<1>1. Aside
  BY DEF IInv, Shape, Aside, Subagent, Mishap, store, claude
<1> QED BY <1>1, AsideStep

LEMMA AnswerStep ==
  ASSUME IInv, NEW path \in Paths, Answer(path)
  PROVE  IInv'
<1>1. Shape /\ written \in Seq(Nat) /\ prompts \in Nat /\ lines \in [Paths -> Seq(Lines)]
  BY DEF IInv, Shape
<1>2. written' \in Seq(Nat) /\ Len(written) + 1 \in Nat
  BY <1>1, LenProperties, AppendProperties DEF Answer
<1>3. lines' \in [Paths -> Seq(Lines)]
  <2>1. PICK whole \in BOOLEAN :
          lines' = [lines EXCEPT ![path] = Append(@, [msg |-> Len(written) + 1, whole |-> whole])]
    BY DEF Answer
  <2>2. [msg |-> Len(written) + 1, whole |-> whole] \in Lines
    BY <1>2 DEF Lines
  <2>3. Append(lines[path], [msg |-> Len(written) + 1, whole |-> whole]) \in Seq(Lines)
    BY <1>1, <2>2, AppendProperties
  <2> QED BY <1>1, <2>1, <2>3
<1>4. Aside
  BY <1>1, <1>2, <1>3 DEF Aside, Answer, Mishap, store, trouble
<1> QED BY <1>4, AsideStep

LEMMA CompleteStep ==
  ASSUME IInv, NEW path \in Paths, AnswerComplete(path)
  PROVE  IInv'
<1>1. Shape /\ written \in Seq(Nat) /\ lines \in [Paths -> Seq(Lines)]
  BY DEF IInv, Shape
<1>2. lines' \in [Paths -> Seq(Lines)]
  <2> DEFINE n == Len(lines[path])
  <2>1. lines[path] \in Seq(Lines) /\ lines[path] # <<>> BY <1>1 DEF AnswerComplete
  <2>2. n \in 1 .. Len(lines[path]) /\ lines[path][n] \in Lines
    BY <2>1, LenProperties, ElementOfSeq, EmptySeq
  <2>3. [lines[path][n] EXCEPT !.whole = TRUE] \in Lines
    BY <2>2 DEF Lines
  <2>4. [lines[path] EXCEPT ![n] = [lines[path][n] EXCEPT !.whole = TRUE]] \in Seq(Lines)
    BY <2>1, <2>2, <2>3, ExceptSeq
  <2>5. lines' = [lines EXCEPT ![path] = [lines[path] EXCEPT ![n] = [lines[path][n] EXCEPT !.whole = TRUE]]]
    BY DEF AnswerComplete
  <2> QED BY <1>1, <2>4, <2>5
<1>3. Aside
  BY <1>1, <1>2 DEF Aside, AnswerComplete, store, claude, trouble
<1> QED BY <1>3, AsideStep

LEMMA RotateStep ==
  ASSUME IInv, NEW path \in Paths, Rotate(path)
  PROVE  IInv'
<1>1. Shape /\ written \in Seq(Nat) /\ lines \in [Paths -> Seq(Lines)]
  BY DEF IInv, Shape
<1>2. lines' \in [Paths -> Seq(Lines)]
  <2>1. PICK n \in 0 .. Len(lines[path]) - 1 : lines' = [lines EXCEPT ![path] = SubSeq(@, 1, n)]
    BY DEF Rotate
  <2>2. lines[path] \in Seq(Lines) /\ Len(lines[path]) \in Nat BY <1>1, LenProperties
  <2>3. SubSeq(lines[path], 1, n) \in Seq(Lines)
    BY <2>1, <2>2
  <2> QED BY <1>1, <2>1, <2>3
<1>3. Aside
  BY <1>1, <1>2 DEF Aside, Rotate, Mishap, store, claude
<1> QED BY <1>3, AsideStep

-----------------------------------------------------------------------------
(* Claude Code                                                             *)

\* A new hook has its whole handler before it.
LEMMA Runs ==
  ASSUME Shape, NEW p \in Procs, NEW e \in DOMAIN Stages, NEW path \in Paths, NEW tool,
         Run(p, e, path, tool)
  PROVE
  /\ ~Busy(p) /\ Busy(p)' /\ DOMAIN hooks' = Procs
  /\ \A q \in Procs : q # p => hooks'[q] = hooks[q]
  /\ hooks'[p].todo = Dispatch[e] /\ hooks'[p].event = e
  /\ hooks'[p].tool = tool /\ hooks'[p].state = Fresh
  /\ hooks'[p].path = path /\ hooks'[p].entries = <<>> /\ hooks'[p].within = Null
  /\ (e \in {"PreToolUse", "PostToolUse"} => tool \in Tools)
       /\ (e = "UserPromptSubmit" => tool = Null) => Hook(p)'
<1>1. /\ ~Busy(p) /\ DOMAIN hooks' = Procs
      /\ \A q \in Procs : q # p => hooks'[q] = hooks[q]
      /\ hooks'[p] = [event |-> e, todo |-> Dispatch[e], state |-> Fresh, path |-> path,
                      tool |-> tool, entries |-> <<>>, within |-> Null]
  BY DEF Run, Shape
<1>2. Dispatch[e] \in Stages[e] /\ Dispatch[e] # <<>>
  BY DEF Stages, Dispatch, SessionStart, UserPromptSubmit, PreToolUse, PostToolUse, Stop,
         SubagentStop, SessionEnd
<1>3. DOMAIN hooks'[p] = HookFields
  BY <1>1 DEF HookFields
<1> HIDE DEF Dispatch
<1>4. /\ hooks'[p].todo = Dispatch[e] /\ hooks'[p].event = e /\ hooks'[p].path = path
      /\ hooks'[p].tool = tool /\ hooks'[p].state = Fresh
      /\ hooks'[p].entries = <<>> /\ hooks'[p].within = Null
  BY <1>1
<1> QED BY <1>1, <1>2, <1>3, <1>4, FreshState DEF Busy, Hook

\* Every event has a handler that begins like this.
LEMMA Begins ==
  /\ DOMAIN Stages = {"SessionStart", "UserPromptSubmit", "PreToolUse", "PostToolUse", "Stop",
                      "SubagentStop", "SessionEnd"}
  /\ Dispatch["UserPromptSubmit"] = <<"read", "turn", "write">>
  /\ Dispatch["Stop"] = <<"read", "scan", "close", "write">>
  /\ \A e \in Tooling : Head(Dispatch[e]) = "read"
BY DEF Stages, Dispatch, Tooling, UserPromptSubmit, PreToolUse, PostToolUse, Stop, SubagentStop

LEMMA ShapeRuns ==
  ASSUME Shape, NEW p \in Procs, ~Busy(p), DOMAIN hooks' = Procs, Hook(p)',
         \A q \in Procs : q # p => hooks'[q] = hooks[q],
         UNCHANGED <<file, lines, written, turns, calls>>, prompts' \in Nat, starts' \in Nat
  PROVE  Shape'
<1>1. \A q \in Procs : Busy(q)' => Hook(q)'
  <2> SUFFICES ASSUME NEW q \in Procs, Busy(q)' PROVE Hook(q)' OBVIOUS
  <2>1. CASE q = p BY <2>1
  <2>2. CASE q # p BY <2>2 DEF Shape, Busy, Hook
  <2> QED BY <2>1, <2>2
<1> QED BY <1>1 DEF Shape

LEMMA BeginStep ==
  ASSUME IInv, NEW p \in Procs, Begin(p)
  PROVE  IInv'
<1> USE DEF IInv
<1>0. /\ Shape /\ Quiet /\ phase' = "idle" /\ starts' = starts + 1 /\ starts \in Nat
      /\ UNCHANGED <<file, lines, written, turns, calls, prompts, issued>>
      /\ Run(p, "SessionStart", Main, Null) /\ prompts \in Nat
      /\ upset \subseteq upset' /\ (starts # 0 => ~Calm')
  BY DEF Begin, Mishap, Shape, store, trouble, Calm
<1>1. /\ ~Busy(p) /\ Busy(p)' /\ DOMAIN hooks' = Procs /\ Hook(p)'
      /\ \A q \in Procs : q # p => hooks'[q] = hooks[q]
      /\ hooks'[p].event = "SessionStart" /\ hooks'[p].state.turnIndex = 0
  BY <1>0, Runs, Begins, FreshState DEF Paths
<1>2. Shape' BY <1>0, <1>1, ShapeRuns
<1>3. \A q \in Procs : Busy(q)' => q = p
  BY <1>0, <1>1 DEF Quiet, Busy
<1>4. ASSUME Calm' PROVE Calmly'
  <2>1. Calm /\ starts = 0 /\ Who /\ Rows /\ Issued BY <1>0, <1>4, Worse
  <2>2. prompts = 0 /\ file = Null BY <2>1 DEF Who
  <2>3. ~Prompting' /\ ~Closing' BY <1>1, <1>3 DEF Prompting, Closing
  <2>4. Who' BY <1>0, <1>1, <1>3, <2>1, <2>2 DEF Who, Alone, Quiet, Tooling
  <2>5. Filed' BY <1>0, <1>1, <1>3, <2>2 DEF Filed, Knows, Tooling
  <2>6. DOMAIN turns = {} /\ DOMAIN issued = {} /\ DOMAIN calls = {}
    <3>1. \A i \in DOMAIN turns : i \in 1 .. 0 BY <2>1, <2>2 DEF Rows
    <3>2. \A t \in DOMAIN issued : issued[t] \in 1 .. 0 BY <2>1, <2>2 DEF Issued
    <3>3. \A t \in DOMAIN calls : t \in DOMAIN issued BY <2>1 DEF Issued
    <3>4. \A i : i \notin 1 .. 0 OBVIOUS
    <3>5. DOMAIN turns = {} BY <3>1, <3>4
    <3>6. DOMAIN issued = {} BY <3>2, <3>4
    <3>7. DOMAIN calls = {} BY <3>3, <3>6
    <3> QED BY <3>5, <3>6, <3>7
  <2>7. Rows' BY <1>0, <1>1, <1>3, <2>3, <2>6 DEF Rows
  <2>8. Issued' BY <1>0, <1>1, <1>3, <2>3, <2>6 DEF Issued
  <2> QED BY <2>4, <2>5, <2>7, <2>8 DEF Calmly
<1>5. ASSUME Calm', "overlapped" \notin upset' PROVE Kept'
  <2>1. Kept BY <1>0, <1>5, Worse
  <2> QED BY <1>0, <1>1, <1>3, <2>1 DEF Kept, Alone
<1> QED BY <1>2, <1>4, <1>5 DEF Calmly

LEMMA UnseenStep ==
  ASSUME IInv, BeginUnseen
  PROVE  IInv'
<1> USE DEF IInv
<1>0. /\ Shape /\ phase = "off" /\ phase' = "idle" /\ starts' = 1
      /\ UNCHANGED <<file, lines, hooks, written, turns, calls, prompts, issued, upset>>
  BY DEF BeginUnseen, store, trouble
<1>1. Shape' BY <1>0 DEF Shape, Busy, Hook
<1>2. ASSUME Calm PROVE Calmly'
  <2>1. prompts = 0 /\ file = Null /\ \A q \in Procs : ~Busy(q) /\ ~Busy(q)'
    BY <1>0, <1>2 DEF Who, Quiet, Busy
  <2>2. ~Prompting' /\ ~Closing' BY <2>1 DEF Prompting, Closing
  <2>3. Who' BY <1>0, <2>1 DEF Who
  <2>4. Filed' BY <1>0, <2>1 DEF Filed
  <2>5. DOMAIN turns = {} BY <1>2, <2>1 DEF Rows
  <2>6. Rows' BY <1>0, <2>1, <2>2, <2>5 DEF Rows
  <2>7. Issued' BY <1>0, <1>2, <2>1, <2>2 DEF Issued
  <2> QED BY <2>3, <2>4, <2>6, <2>7 DEF Calmly
<1>3. ASSUME Calm, "overlapped" \notin upset PROVE Kept'
  <2>1. \A q \in Procs : Busy(q)' => Alone(q)'
    BY <1>0, <1>3 DEF Kept, Alone, Busy
  <2> QED BY <1>0, <1>3, <2>1 DEF Kept
<1> QED BY <1>0, <1>1, <1>2, <1>3 DEF Calm, Calmly

LEMMA PromptStep ==
  ASSUME IInv, NEW p \in Procs, Prompt(p)
  PROVE  IInv'
<1> USE DEF IInv
<1>0. /\ Shape /\ Quiet /\ phase = "idle" /\ phase' = "busy" /\ prompts' = prompts + 1
      /\ UNCHANGED <<file, lines, written, turns, calls, starts, issued, upset>>
      /\ Run(p, "UserPromptSubmit", Main, Null) /\ prompts \in Nat /\ starts \in Nat
  BY DEF Prompt, Shape, store, trouble
<1>1. /\ ~Busy(p) /\ Busy(p)' /\ DOMAIN hooks' = Procs /\ Hook(p)'
      /\ \A q \in Procs : q # p => hooks'[q] = hooks[q]
      /\ hooks'[p].event = "UserPromptSubmit" /\ hooks'[p].todo = <<"read", "turn", "write">>
  BY <1>0, Runs, Begins DEF Paths
<1>2. Shape' BY <1>0, <1>1, ShapeRuns
<1>3. \A q \in Procs : ~Busy(q) /\ (Busy(q)' => q = p)
  BY <1>0, <1>1 DEF Quiet, Busy
<1>4. ASSUME Calm PROVE Calmly'
  <2>1. Prompting' /\ ~Closing' BY <1>1, <1>3 DEF Prompting, Closing
  <2>2. Who' BY <1>0, <1>1, <1>3, <1>4 DEF Who, Alone, Quiet, Tooling
  <2>3. IF file = Null THEN prompts = 0 ELSE file.turnIndex = prompts
    BY <1>0, <1>4 DEF Filed, Numbered
  <2>4. Knows(p)'
    BY <1>0, <1>1, <2>3, Tuples DEF Knows, Tooling
  <2>5. Filed' BY <1>0, <1>3, <2>1, <2>4 DEF Filed
  <2>6. ~Closing BY <1>3 DEF Closing
  <2>7. \A j \in DOMAIN turns :
          j \in 1 .. prompts /\ turns[j].of = {j} /\ (turns[j].ended \/ "interrupted" \in upset)
    BY <1>0, <1>4, <2>6 DEF Rows
  <2>8. prompts + 1 \notin DOMAIN turns BY <1>0, <2>7
  <2>9. Rows' BY <1>0, <1>1, <1>3, <2>1, <2>7, <2>8, Tuples DEF Rows
  <2>10. Issued' BY <1>0, <1>1, <1>3, <1>4 DEF Issued
  <2> QED BY <2>2, <2>5, <2>9, <2>10 DEF Calmly
<1>5. ASSUME Calm, "overlapped" \notin upset PROVE Kept'
  <2>1. \A t \in DOMAIN issued' : ~Waiting(t)'
    BY <1>0, <1>5 DEF Issued, Waiting
  <2> QED BY <1>0, <1>1, <1>3, <1>5, <2>1 DEF Kept, Keeps, Alone, Tooling
<1> QED BY <1>0, <1>2, <1>4, <1>5 DEF Calm, Calmly

\* While Claude Code works on a prompt, only hooks of tools and subagents run.
LEMMA OnlyTooling ==
  ASSUME Shape, Calmly, Working, NEW q \in Procs, Busy(q)
  PROVE  hooks[q].event \in Tooling
<1>1. Hook(q) BY DEF Shape
<1>2. hooks[q].event # "UserPromptSubmit"
  BY <1>1 DEF Working, Running, Hook
<1> QED BY <1>1, <1>2, Begins DEF Calmly, Who, Working, Hook, Tooling

LEMMA NoPrompting ==
  ASSUME Shape, Calmly, Working
  PROVE  /\ ~Prompting /\ ~Closing /\ phase = "busy" /\ prompts >= 1
         /\ file # Null /\ Current(file) /\ prompts \in DOMAIN turns
<1>1. ~Prompting /\ ~Closing
  BY OnlyTooling DEF Prompting, Closing, Tooling
<1> QED BY <1>1 DEF Working, Calmly, Who, Filed, Rows

\* A hook that begins meanwhile knows nothing yet.
LEMMA WorkingRuns ==
  ASSUME Shape, Calmly, Working, NEW p \in Procs, NEW e \in Tooling, NEW path \in Paths, NEW tool,
         Run(p, e, path, tool),
         e \in {"PreToolUse", "PostToolUse"} => tool \in Tools,
         UNCHANGED <<file, lines, written, turns, calls, phase, prompts, starts>>,
         upset \subseteq upset'
  PROVE  /\ Shape' /\ Who' /\ Filed' /\ Rows' /\ ~Prompting'
         /\ ~Busy(p) /\ Busy(p)' /\ hooks'[p].event = e /\ hooks'[p].tool = tool
         /\ Head(hooks'[p].todo) = "read"
         /\ \A q \in Procs : q # p => hooks'[q] = hooks[q] /\ (Busy(q)' <=> Busy(q))
<1>0. e \in DOMAIN Stages /\ e # "UserPromptSubmit" BY Begins DEF Tooling
<1>1. /\ ~Busy(p) /\ Busy(p)' /\ DOMAIN hooks' = Procs /\ Hook(p)'
      /\ \A q \in Procs : q # p => hooks'[q] = hooks[q]
      /\ hooks'[p].event = e /\ hooks'[p].tool = tool /\ hooks'[p].todo = Dispatch[e]
  BY <1>0, Runs
<1>2. Head(hooks'[p].todo) = "read" BY <1>1, Begins
<1>3. \A q \in Procs : q # p => hooks'[q] = hooks[q] /\ (Busy(q)' <=> Busy(q))
  BY <1>1 DEF Busy
<1>4. \A q \in Procs : Busy(q)' => hooks'[q].event \in Tooling
  BY <1>1, <1>3, OnlyTooling
<1>5. ~Prompting' /\ ~Closing'
  BY <1>4 DEF Prompting, Closing, Tooling
<1>6. Shape'
  <2>1. prompts' \in Nat /\ starts' \in Nat BY DEF Shape
  <2> QED BY <1>1, <2>1, ShapeRuns
<1>7. Who'
  BY <1>4, NoPrompting DEF Calmly, Who, Tooling
<1>8. Filed'
  <2>1. \A q \in Procs : Busy(q)' => Knows(q)'
    <3> SUFFICES ASSUME NEW q \in Procs, Busy(q)' PROVE Knows(q)' OBVIOUS
    <3>1. CASE q = p
      BY <1>1, <1>2, <3>1 DEF Knows, Tooling
    <3>2. CASE q # p
      BY <1>3, <3>2 DEF Calmly, Filed, Knows, Current, Numbered
    <3> QED BY <3>1, <3>2
  <2> QED BY <1>5, <2>1, NoPrompting DEF Filed, Current
<1>9. Rows'
  BY <1>4, <1>5, NoPrompting DEF Calmly, Rows, Tooling
<1> QED BY <1>1, <1>2, <1>3, <1>5, <1>6, <1>7, <1>8, <1>9

\* Overlap is set down.
LEMMA Overlapping ==
  ASSUME Overlap
  PROVE  upset \subseteq upset' /\ (Calm' <=> Calm) /\ ("overlapped" \notin upset' => Quiet)
BY DEF Overlap, Calm

LEMMA ToolBeginsStep ==
  ASSUME IInv, NEW p \in Procs, NEW t \in Tools, ToolBegins(p, t)
  PROVE  IInv'
<1> USE DEF IInv
<1>0. /\ Shape /\ Working /\ t \notin DOMAIN issued /\ Run(p, "PreToolUse", Main, t)
      /\ issued' = Set(issued, t, prompts) /\ Overlap
      /\ UNCHANGED <<file, lines, written, turns, calls, phase, prompts, starts>>
      /\ Main \in Paths /\ "PreToolUse" \in Tooling /\ prompts \in Nat
  BY DEF ToolBegins, Shape, store, Paths, Tooling
<1>1. Shape'
  BY <1>0, Runs, Begins, ShapeRuns DEF Shape
<1>2. /\ DOMAIN issued' = DOMAIN issued \cup {t} /\ issued'[t] = prompts
      /\ \A u \in DOMAIN issued : issued'[u] = issued[u]
  BY <1>0 DEF Set
<1>3. ASSUME Calm PROVE Calmly'
  <2>1. Calmly BY <1>3 DEF Calmly
  <2>2. /\ Who' /\ Filed' /\ Rows' /\ ~Prompting'
        /\ ~Busy(p) /\ Busy(p)' /\ hooks'[p].event = "PreToolUse" /\ hooks'[p].tool = t
        /\ \A q \in Procs : q # p => hooks'[q] = hooks[q] /\ (Busy(q)' <=> Busy(q))
    BY <1>0, <2>1, Overlapping, WorkingRuns
  <2>3. prompts \in 1 .. prompts BY <1>0, <2>1, NoPrompting
  <2>4. \A q \in Procs : Busy(q)' /\ hooks'[q].event = "PostToolUse" =>
          hooks'[q].tool \in DOMAIN issued' /\ issued'[hooks'[q].tool] = prompts'
    BY <1>0, <1>2, <1>3, <2>2 DEF Issued
  <2>5. Issued'
    BY <1>0, <1>2, <1>3, <2>2, <2>3, <2>4 DEF Issued
  <2> QED BY <2>2, <2>5 DEF Calmly
<1>4. ASSUME Calm, "overlapped" \notin upset' PROVE Kept'
  <2>1. Calmly /\ Kept /\ Quiet BY <1>0, <1>4, Overlapping DEF Calmly
  <2>2. /\ ~Busy(p) /\ Busy(p)' /\ hooks'[p].event = "PreToolUse" /\ hooks'[p].tool = t
        /\ Head(hooks'[p].todo) = "read"
        /\ \A q \in Procs : Busy(q)' => q = p
    BY <1>0, <2>1, Overlapping, WorkingRuns DEF Quiet
  <2>3. Running("PreToolUse", t)' BY <2>2 DEF Running
  <2>4. \A u : ~Running("PreToolUse", u) BY <2>1 DEF Running, Quiet
  <2>5. ASSUME phase' = "busy", NEW u \in DOMAIN issued', Waiting(u)'
        PROVE  (file' # Null /\ u \in file'.active) \/ Running("PreToolUse", u)'
    <3>1. CASE u = t BY <2>3, <3>1
    <3>2. CASE u # t
      <4>1. u \in DOMAIN issued /\ Waiting(u) BY <1>0, <1>2, <2>5, <3>2 DEF Waiting
      <4> QED BY <1>0, <2>1, <2>4, <2>5, <4>1 DEF Kept
    <3> QED BY <3>1, <3>2
  <2> QED BY <1>0, <2>1, <2>2, <2>5 DEF Kept, Keeps, Alone
<1> QED BY <1>0, <1>1, <1>3, <1>4, Overlapping DEF Calmly

LEMMA OtherBeginsStep ==
  ASSUME IInv, NEW p \in Procs, NEW e \in {"PostToolUse", "SubagentStop"}, NEW path \in Paths,
         NEW tool, Working, Run(p, e, path, tool), Overlap,
         e = "PostToolUse" => tool \in Tools /\ tool \in DOMAIN issued /\ issued[tool] = prompts,
         UNCHANGED <<file, lines, written, turns, calls, phase, prompts, starts, issued>>
  PROVE  IInv'
<1> USE DEF IInv
<1>0. Shape /\ e \in Tooling /\ e # "PreToolUse" /\ (e \in {"PreToolUse", "PostToolUse"} => tool \in Tools)
  BY DEF Tooling
<1>1. Shape'
  BY <1>0, Runs, Begins, ShapeRuns DEF Shape, Tooling
<1>2. ASSUME Calm PROVE Calmly'
  <2>1. Calmly BY <1>2 DEF Calmly
  <2>2. /\ Who' /\ Filed' /\ Rows' /\ ~Prompting'
        /\ Busy(p)' /\ hooks'[p].event = e /\ hooks'[p].tool = tool
        /\ \A q \in Procs : q # p => hooks'[q] = hooks[q] /\ (Busy(q)' <=> Busy(q))
    BY <1>0, <2>1, Overlapping, WorkingRuns
  <2>3. \A q \in Procs : Busy(q)' /\ hooks'[q].event = "PostToolUse" =>
          hooks'[q].tool \in DOMAIN issued' /\ issued'[hooks'[q].tool] = prompts'
    BY <1>2, <2>2 DEF Issued
  <2>4. Issued' BY <1>2, <2>2, <2>3 DEF Issued
  <2> QED BY <2>2, <2>4 DEF Calmly
<1>3. ASSUME Calm, "overlapped" \notin upset' PROVE Kept'
  <2>1. Calmly /\ Kept /\ Quiet BY <1>3, Overlapping DEF Calmly
  <2>2. /\ Busy(p)' /\ hooks'[p].event = e /\ Head(hooks'[p].todo) = "read"
        /\ \A q \in Procs : Busy(q)' => q = p
    BY <1>0, <2>1, Overlapping, WorkingRuns DEF Quiet
  <2>3. \A u : ~Running("PreToolUse", u) BY <2>1 DEF Running, Quiet
  <2>4. \A u : Waiting(u)' <=> Waiting(u) BY DEF Waiting
  <2> QED BY <2>1, <2>2, <2>3, <2>4 DEF Kept, Keeps, Alone
<1> QED BY <1>1, <1>2, <1>3, Overlapping DEF Calmly

LEMMA ToolEndsStep ==
  ASSUME IInv, NEW p \in Procs, NEW t \in Tools, ToolEnds(p, t)
  PROVE  IInv'
<1>1. Main \in Paths BY DEF Paths
<1> QED BY <1>1, OtherBeginsStep DEF ToolEnds, store, claude

LEMMA SubagentEndsStep ==
  ASSUME IInv, NEW p \in Procs, NEW path \in Paths, SubagentEnds(p, path)
  PROVE  IInv'
BY OtherBeginsStep DEF SubagentEnds, store, claude

LEMMA AnsweredStep ==
  ASSUME IInv, NEW p \in Procs, Answered(p)
  PROVE  IInv'
<1> USE DEF IInv
<1>0. /\ Shape /\ Working /\ Quiet /\ phase' = "idle" /\ Run(p, "Stop", Main, Null)
      /\ UNCHANGED <<file, lines, written, turns, calls, prompts, starts, issued, upset>>
      /\ prompts \in Nat /\ starts \in Nat
  BY DEF Answered, Shape, store, trouble
<1>1. /\ ~Busy(p) /\ Busy(p)' /\ DOMAIN hooks' = Procs /\ Hook(p)'
      /\ \A q \in Procs : q # p => hooks'[q] = hooks[q]
      /\ hooks'[p].event = "Stop" /\ hooks'[p].todo = <<"read", "scan", "close", "write">>
  BY <1>0, Runs, Begins DEF Paths
<1>2. Shape' BY <1>0, <1>1, ShapeRuns
<1>3. \A q \in Procs : Busy(q)' => q = p
  BY <1>0, <1>1 DEF Quiet, Busy
<1>4. ASSUME Calm PROVE Calmly'
  <2>1. /\ phase = "busy" /\ prompts >= 1 /\ file # Null /\ Current(file)
        /\ prompts \in DOMAIN turns
    BY <1>0, <1>4, NoPrompting DEF Calmly
  <2>2. ~Prompting' /\ Closing'
    BY <1>1, <1>3, Tuples DEF Prompting, Closing
  <2>3. Who' BY <1>0, <1>1, <1>3, <1>4, <2>1 DEF Who, Alone, Quiet, Tooling
  <2>4. Knows(p)'
    BY <1>0, <1>1, <2>1, Tuples DEF Knows, Current, Tooling
  <2>5. Filed' BY <1>0, <1>3, <2>1, <2>4 DEF Filed, Current, Numbered
  <2>6. Rows' BY <1>0, <1>1, <1>3, <1>4, <2>1, <2>2 DEF Rows
  <2>7. Issued' BY <1>0, <1>1, <1>3, <1>4, <2>2 DEF Issued
  <2> QED BY <2>3, <2>5, <2>6, <2>7 DEF Calmly
<1>5. ASSUME Calm, "overlapped" \notin upset PROVE Kept'
  BY <1>0, <1>3, <1>5 DEF Kept, Alone
<1> QED BY <1>0, <1>2, <1>4, <1>5 DEF Calm, Calmly

LEMMA InterruptStep ==
  ASSUME IInv, Interrupt
  PROVE  IInv'
<1> USE DEF IInv
<1>0. /\ Shape /\ Working /\ Quiet /\ phase' = "idle" /\ "interrupted" \in upset'
      /\ UNCHANGED <<file, lines, hooks, written, turns, calls, prompts, starts, issued>>
      /\ upset \subseteq upset'
  BY DEF Interrupt, Mishap, store
<1>1. Shape' BY <1>0 DEF Shape, Busy, Hook
<1>2. \A q \in Procs : ~Busy(q) /\ ~Busy(q)'
  BY <1>0 DEF Quiet, Busy
<1>3. ASSUME Calm' PROVE Calmly'
  <2>1. Calm /\ Calmly BY <1>0, <1>3, Worse DEF Calmly
  <2>2. file # Null /\ Current(file) BY <1>0, <2>1, NoPrompting
  <2>3. ~Prompting' /\ ~Closing' BY <1>2 DEF Prompting, Closing
  <2>4. Who' BY <1>0, <1>2, <2>1, NoPrompting DEF Who, Calmly
  <2>5. Filed' BY <1>0, <1>2, <2>2 DEF Filed, Current, Numbered
  <2>6. Rows' BY <1>0, <1>2, <2>1, <2>3 DEF Rows, Calmly
  <2>7. Issued' BY <1>0, <1>2, <2>1, <2>3 DEF Issued, Calmly
  <2> QED BY <2>4, <2>5, <2>6, <2>7 DEF Calmly
<1>4. ASSUME Calm', "overlapped" \notin upset' PROVE Kept'
  <2>1. Kept BY <1>0, <1>4, Worse
  <2> QED BY <1>0, <1>2, <2>1 DEF Kept
<1> QED BY <1>1, <1>3, <1>4 DEF Calmly

LEMMA EndStep ==
  ASSUME IInv, NEW p \in Procs, End(p)
  PROVE  IInv'
<1> USE DEF IInv
<1>0. /\ Shape /\ phase \in {"idle", "busy"} /\ phase' = "over" /\ Run(p, "SessionEnd", Main, Null)
      /\ UNCHANGED <<file, lines, written, turns, calls, prompts, starts, issued>>
      /\ upset \subseteq upset' /\ (Calm' => Quiet) /\ prompts \in Nat /\ starts \in Nat
  BY DEF End, Mishap, Shape, store, trouble, Calm
<1>1. /\ ~Busy(p) /\ Busy(p)' /\ DOMAIN hooks' = Procs /\ Hook(p)'
      /\ \A q \in Procs : q # p => hooks'[q] = hooks[q]
      /\ hooks'[p].event = "SessionEnd"
  BY <1>0, Runs, Begins DEF Paths
<1>2. Shape' BY <1>0, <1>1, ShapeRuns
<1>3. ASSUME Calm' PROVE \A q \in Procs : Busy(q)' => q = p
  BY <1>0, <1>1, <1>3 DEF Quiet, Busy
<1>4. ASSUME Calm' PROVE Calmly'
  <2>1. Calm /\ Who /\ Rows /\ Issued BY <1>0, <1>4, Worse
  <2>2. ~Prompting' /\ ~Closing' BY <1>1, <1>3, <1>4 DEF Prompting, Closing
  <2>3. Who' BY <1>0, <1>1, <1>3, <1>4, <2>1 DEF Who, Alone, Quiet, Tooling
  <2>4. Filed' BY <1>0, <1>1, <1>3, <1>4 DEF Filed, Knows, Tooling
  <2>5. Rows' BY <1>0, <1>1, <1>3, <1>4, <2>1, <2>2 DEF Rows
  <2>6. Issued' BY <1>0, <1>1, <1>3, <1>4, <2>1, <2>2 DEF Issued
  <2> QED BY <2>3, <2>4, <2>5, <2>6 DEF Calmly
<1>5. ASSUME Calm', "overlapped" \notin upset' PROVE Kept'
  <2>1. Kept BY <1>0, <1>5, Worse
  <2> QED BY <1>0, <1>3, <1>5, <2>1 DEF Kept, Alone
<1> QED BY <1>2, <1>4, <1>5 DEF Calmly

-----------------------------------------------------------------------------
(* The theorems about turns and tools                                      *)

LEMMA InitIInv == Init => IInv
<1> SUFFICES ASSUME Init PROVE IInv OBVIOUS
<1>1. \A q \in Procs : ~Busy(q)
  BY DEF Init, Busy, Idle
<1>2. Shape
  <2>1. lines \in [Paths -> Seq(Lines)] /\ written \in Seq(Nat)
    BY EmptySeq DEF Init
  <2> QED BY <1>1, <2>1 DEF Init, Shape
<1>3. ~Prompting /\ ~Closing BY <1>1 DEF Prompting, Closing
<1>4. Who BY <1>1 DEF Init, Who, Quiet
<1>5. Filed BY <1>1 DEF Init, Filed
<1>6. Rows BY <1>1, <1>3 DEF Init, Rows
<1>7. Issued BY <1>1, <1>3 DEF Init, Issued
<1>8. Kept BY <1>1 DEF Init, Kept
<1> QED BY <1>2, <1>4, <1>5, <1>6, <1>7, <1>8 DEF IInv

LEMMA HarnessIInv == IInv /\ Harness => IInv'
<1> SUFFICES ASSUME IInv, Harness PROVE IInv' OBVIOUS
<1>1. CASE BeginUnseen BY <1>1, UnseenStep
<1>2. CASE Subagent BY <1>2, SubagentStep
<1>3. CASE Interrupt BY <1>3, InterruptStep
<1>4. CASE \E p \in Procs : Begin(p) \/ Prompt(p) \/ Answered(p) \/ End(p)
  BY <1>4, BeginStep, PromptStep, AnsweredStep, EndStep
<1>5. CASE \E p \in Procs, t \in Tools : ToolBegins(p, t) \/ ToolEnds(p, t)
  BY <1>5, ToolBeginsStep, ToolEndsStep
<1>6. CASE \E p \in Procs, path \in Paths : SubagentEnds(p, path)
  BY <1>6, SubagentEndsStep
<1>7. CASE \E path \in Paths : Answer(path) \/ AnswerComplete(path) \/ Rotate(path)
  BY <1>7, AnswerStep, CompleteStep, RotateStep
<1> QED BY <1>1, <1>2, <1>3, <1>4, <1>5, <1>6, <1>7 DEF Harness

LEMMA NextIInv == IInv /\ [Next]_vars => IInv'
<1> SUFFICES ASSUME IInv, [Next]_vars PROVE IInv' OBVIOUS
<1>1. CASE Harness BY <1>1, HarnessIInv
<1>2. ASSUME NEW p \in Procs, Step(p) PROVE IInv'
  BY <1>2, ReadStep, PlainAdvances, TurnStep, ToolStep, ScanStep, MessageStep, CloseStep, WriteStep,
     DeleteStep, AbandonStep DEF Step
<1>3. CASE UNCHANGED vars BY <1>3, StillStep
<1> QED BY <1>1, <1>2, <1>3 DEF Next

\* What a hook knows and what the state file says agree with Claude Code's own
\* count of prompts, unless a hook was abandoned, the session replayed or ended
\* in the middle of a hook (the handlers of src/hooks and state-io.ts).
THEOREM HooksInvariant == Spec => []IInv
<1>1. Init => IInv BY InitIInv
<1>2. IInv /\ [Next]_vars => IInv' BY NextIInv
<1> QED BY <1>1, <1>2, PTL DEF Spec

\* Prompts never share a turn's row, and a turn has ended before the next one
\* begins, however many tools' and subagents' hooks overlap in between.
THEOREM TurnsStayApart == Spec => []TurnsApart
<1>1. IInv => TurnsApart
  BY DEF IInv, Calm, Rows, TurnsApart
<1> QED BY <1>1, HooksInvariant, PTL

\* Hooks that take turns lose no tool's start time.
THEOREM ToolsTimed == Spec => []Timed
<1>1. IInv => Timed
  BY DEF IInv, Calm, Kept, Timed
<1> QED BY <1>1, HooksInvariant, PTL

\* A tool's row has the turn the tool was issued in (recordToolCall of
\* post-tool-use.ts, from the state it has read).
ToolsAttributed == Calm => \A t \in DOMAIN calls : calls[t].turn = issued[t]

\* So it is even when overlapping hooks lose each other's updates: what they
\* lose is never the turn.
THEOREM ToolsKeepTurn == Spec => []ToolsAttributed
<1>1. IInv => ToolsAttributed
  BY DEF IInv, Issued, ToolsAttributed
<1> QED BY <1>1, HooksInvariant, PTL

-----------------------------------------------------------------------------
(* What a step does to a scan                                              *)

\* A step that reads or writes the state, or one of the rows of turns and tools:
\* it leaves the transcripts alone, and what is known of them.
Passes(p) ==
  /\ Busy(p) /\ Moved(p)
  /\ hooks'[p] # Idle =>
       /\ hooks[p].entries = <<>> /\ hooks'[p].entries = <<>> /\ Head(hooks[p].todo) # "scan"
       /\ hooks'[p].within = hooks[p].within
       /\ \E s \in {hooks[p].state, Fresh, file} :
            s # Null /\ hooks'[p].state.path = s.path /\ hooks'[p].state.offset = s.offset
  /\ file' \in {file, Null} \/ (file' = hooks[p].state /\ hooks[p].entries = <<>>)
  /\ UNCHANGED <<lines, written, messages, missed, phase, prompts, issued, starts>>
  /\ upset \subseteq upset'

LEMMA StaysBusy ==
  ASSUME Shape, NEW p \in Procs, Busy(p), Moved(p)
  PROVE  Busy(p)' <=> hooks'[p] # Idle
<1>1. Hook(p) BY DEF Shape
<1>2. ASSUME hooks'[p] # Idle PROVE Busy(p)'
  <2>1. Tail(hooks[p].todo) # <<>> BY <1>1, <1>2, Handlers DEF Hook, Moved
  <2> QED BY <1>2, <2>1 DEF Moved, Busy
<1> QED BY <1>2, Stopped DEF Idle, Busy

\* A step that hands on a state.
LEMMA AdvancePasses ==
  ASSUME Shape, NEW p \in Procs, Busy(p), hooks[p].entries = <<>>, Head(hooks[p].todo) # "scan",
         NEW s \in SessionStates, Advance(p, s),
         NEW r \in {hooks[p].state, Fresh, file}, r # Null, s.path = r.path, s.offset = r.offset,
         file' \in {file, Null} \/ file' = hooks[p].state,
         UNCHANGED <<lines, written, messages, missed, phase, prompts, issued, starts, upset>>
  PROVE  Passes(p)
BY Advances DEF Passes

LEMMA NotNull == Null \notin SessionStates
BY NullAssumption

LEMMA ReadPasses ==
  ASSUME Shape, NEW p \in Procs, ReadState(p)
  PROVE  /\ Passes(p) /\ UNCHANGED <<file, turns, calls>>
         /\ session \subseteq session' /\ session' \subseteq session \cup {"known"}
         /\ hooks'[p] # Idle =>
              \E s \in SessionStates :
                /\ IF file = Null THEN s = Fresh ELSE s = file
                /\ hooks'[p].state.path = s.path /\ hooks'[p].state.offset = s.offset
                /\ hooks'[p].state.turn = s.turn /\ hooks'[p].state.turnIndex = s.turnIndex
<1>1. /\ Busy(p) /\ Hook(p) /\ hooks[p].entries = <<>> /\ Head(hooks[p].todo) = "read"
      /\ file \in SessionStates \cup {Null} /\ Moved(p)
      /\ UNCHANGED <<lines, file, written, turns, calls, messages, missed, phase, prompts, issued, starts, upset>>
  BY ReadMoves DEF ReadState, Doing, Shape, claude, trouble
<1>2. session \subseteq session' /\ session' \subseteq session \cup {"known"}
  BY DEF ReadState, Missing
<1>3. CASE file # Null
  <2> DEFINE s == IF hooks[p].event = "PreToolUse" THEN [file EXCEPT !.active = @ \cup {hooks[p].tool}]
                                                   ELSE file
  <2>1. Advance(p, s) BY <1>3 DEF ReadState, Missing
  <2>2. /\ s \in SessionStates /\ s.path = file.path /\ s.offset = file.offset
        /\ s.turn = file.turn /\ s.turnIndex = file.turnIndex
    BY <1>1, <1>3 DEF SessionStates, Hook
  <2> HIDE DEF s
  <2>3. Passes(p) BY <1>1, <1>3, <2>1, <2>2, AdvancePasses
  <2>4. hooks'[p] # Idle => hooks'[p].state = s BY <1>1, <2>1, <2>2, Advances
  <2> QED BY <1>1, <1>2, <1>3, <2>2, <2>3, <2>4
<1>4. CASE file = Null
  <2>1. CASE hooks[p].event \in {"UserPromptSubmit", "SessionEnd"}
    <3>1. Advance(p, Fresh) BY <1>4, <2>1 DEF ReadState, Missing
    <3>2. Passes(p) BY <1>1, <3>1, FreshState, NotNull, AdvancePasses
    <3>3. hooks'[p] # Idle => hooks'[p].state = Fresh BY <1>1, <3>1, FreshState, Advances
    <3> QED BY <1>1, <1>2, <1>4, <3>2, <3>3, FreshState
  <2>2. CASE hooks[p].event \notin {"UserPromptSubmit", "SessionEnd"}
    <3>1. hooks'[p] = Idle BY <1>1, <1>4, <2>2 DEF ReadState, Missing, Shape
    <3> QED BY <1>1, <1>2, <3>1 DEF Passes
  <2> QED BY <2>1, <2>2
<1> QED BY <1>3, <1>4

\* The steps that only write rows.
LEMMA RowPasses ==
  ASSUME Shape, NEW p \in Procs, RecordSession(p) \/ CaptureGit(p) \/ EndSession(p)
  PROVE  /\ Passes(p) /\ UNCHANGED <<file, turns, calls>>
         /\ session' \subseteq session \cup {"known", "repo", "ended"}
         /\ hooks'[p] # Idle =>
              \/ hooks'[p].state = hooks[p].state
              \/ hooks[p].event = "SessionStart" /\ hooks'[p].state = Fresh
         /\ Head(hooks[p].todo) \in {"session", "git", "end"}
<1>1. /\ Busy(p) /\ Hook(p) /\ hooks[p].entries = <<>>
      /\ Head(hooks[p].todo) \in {"session", "git", "end"}
      /\ UNCHANGED <<lines, file, written, turns, calls, messages, missed, phase, prompts, issued, starts, upset>>
      /\ session' \subseteq session \cup {"known", "repo", "ended"}
  BY DEF RecordSession, CaptureGit, EndSession, Doing, Shape, claude, trouble
<1>2. CASE RecordSession(p)
  <2>1. Advance(p, Fresh) /\ hooks[p].event = "SessionStart"
    BY <1>1, <1>2, Handlers DEF RecordSession, Doing, Hook
  <2>2. Passes(p) BY <1>1, <2>1, FreshState, NotNull, AdvancePasses
  <2> QED BY <1>1, <2>1, <2>2, FreshState, Advances
<1>3. CASE CaptureGit(p) \/ EndSession(p)
  <2>1. Advance(p, hooks[p].state) /\ hooks[p].state \in SessionStates
    BY <1>1, <1>3 DEF CaptureGit, EndSession, Hook
  <2>2. Passes(p) BY <1>1, <2>1, NotNull, AdvancePasses
  <2> QED BY <1>1, <2>1, <2>2, Advances
<1> QED BY <1>2, <1>3

LEMMA TurnPasses ==
  ASSUME Shape, NEW p \in Procs, RecordTurn(p)
  PROVE  /\ Passes(p) /\ UNCHANGED <<file, calls, session>> /\ hooks'[p] # Idle
         /\ hooks[p].event = "UserPromptSubmit" /\ hooks[p].todo = <<"turn", "write">>
         /\ DOMAIN turns' = DOMAIN turns \cup {hooks[p].state.turnIndex + 1}
         /\ LET s == hooks[p].state IN
              hooks'[p].state = [s EXCEPT !.turnIndex = s.turnIndex + 1, !.turn = s.turnIndex + 1]
<1> DEFINE s == hooks[p].state
           t == [s EXCEPT !.turnIndex = s.turnIndex + 1, !.turn = s.turnIndex + 1]
<1>1. /\ Busy(p) /\ Hook(p) /\ hooks[p].entries = <<>> /\ Head(hooks[p].todo) = "turn"
      /\ UNCHANGED <<lines, file, written, calls, session, messages, missed, phase, prompts, issued, starts, upset>>
      /\ Advance(p, t)
  BY DEF RecordTurn, Doing, Shape, claude, trouble
<1>2. s \in SessionStates BY <1>1 DEF Hook
<1> HIDE DEF s
<1>3. t \in SessionStates /\ t.path = s.path /\ t.offset = s.offset
  <2>1. s.turnIndex + 1 \in Nat BY <1>2 DEF SessionStates
  <2> QED BY <1>2, <2>1 DEF SessionStates
<1>4. DOMAIN turns' = DOMAIN turns \cup {hooks[p].state.turnIndex + 1} /\ hooks'[p] # Idle
      /\ hooks[p].event = "UserPromptSubmit" /\ hooks[p].todo = <<"turn", "write">>
  BY TurnRows
<1> HIDE DEF t
<1>5. Passes(p)
  BY <1>1, <1>2, <1>3, NotNull, AdvancePasses DEF s
<1>6. hooks'[p].state = t BY <1>1, <1>3, <1>4, Advances
<1> QED BY <1>1, <1>4, <1>5, <1>6 DEF s, t

LEMMA ToolPasses ==
  ASSUME Shape, NEW p \in Procs, RecordToolCall(p)
  PROVE  /\ Passes(p) /\ UNCHANGED <<file, turns, session>> /\ hooks'[p] # Idle
         /\ hooks[p].event = "PostToolUse" /\ hooks[p].todo = <<"tool", "scan", "write">>
         /\ DOMAIN calls' \subseteq DOMAIN calls \cup Tools
         /\ LET s == hooks[p].state IN
              hooks'[p].state = [s EXCEPT !.active = s.active \ {hooks[p].tool}]
<1> DEFINE s == hooks[p].state
           t == [s EXCEPT !.active = s.active \ {hooks[p].tool}]
<1>1. /\ Busy(p) /\ Hook(p) /\ hooks[p].entries = <<>> /\ Head(hooks[p].todo) = "tool"
      /\ UNCHANGED <<lines, file, written, turns, session, messages, missed, phase, prompts, issued, starts, upset>>
      /\ Advance(p, t)
  BY DEF RecordToolCall, Doing, Shape, claude, trouble
<1>2. s \in SessionStates BY <1>1 DEF Hook
<1>3. hooks[p].event = "PostToolUse" /\ hooks[p].todo = <<"tool", "scan", "write">>
      /\ Len(<<"tool", "scan", "write">>) # 1 /\ hooks[p].tool \in Tools
  BY <1>1, Handlers DEF Hook
<1>4. DOMAIN calls' \subseteq DOMAIN calls \cup Tools
  BY <1>3 DEF RecordToolCall, Set
<1> HIDE DEF s
<1>5. t \in SessionStates /\ t.path = s.path /\ t.offset = s.offset
  BY <1>2 DEF SessionStates
<1> HIDE DEF t
<1>6. Passes(p)
  BY <1>1, <1>2, <1>5, NotNull, AdvancePasses DEF s
<1>7. hooks'[p].state = t /\ hooks'[p] # Idle BY <1>1, <1>3, <1>5, Advances
<1> QED BY <1>1, <1>3, <1>4, <1>6, <1>7 DEF s, t

LEMMA ClosePasses ==
  ASSUME Shape, NEW p \in Procs, CloseTurn(p)
  PROVE  /\ Passes(p) /\ UNCHANGED <<file, calls, session>> /\ hooks'[p] # Idle
         /\ hooks[p].event = "Stop" /\ hooks[p].todo = <<"close", "write">>
         /\ DOMAIN turns' \subseteq DOMAIN turns \cup ({hooks[p].state.turn} \ {Null})
         /\ LET s == hooks[p].state IN
              hooks'[p].state = [s EXCEPT !.turn = Null, !.active = {}]
<1> DEFINE s == hooks[p].state
           t == [s EXCEPT !.turn = Null, !.active = {}]
<1>1. /\ Busy(p) /\ Hook(p) /\ hooks[p].entries = <<>> /\ Head(hooks[p].todo) = "close"
      /\ UNCHANGED <<lines, file, written, calls, session, messages, missed, phase, prompts, issued, starts, upset>>
      /\ Advance(p, t)
  BY DEF CloseTurn, Doing, Shape, claude, trouble
<1>2. s \in SessionStates BY <1>1 DEF Hook
<1>3. hooks[p].event = "Stop" /\ hooks[p].todo = <<"close", "write">>
      /\ Len(<<"close", "write">>) # 1
  BY <1>1, Handlers DEF Hook
<1>4. DOMAIN turns' \subseteq DOMAIN turns \cup ({hooks[p].state.turn} \ {Null})
  BY DEF CloseTurn, Set
<1> HIDE DEF s
<1>5. t \in SessionStates /\ t.path = s.path /\ t.offset = s.offset
  BY <1>2 DEF SessionStates
<1> HIDE DEF t
<1>6. Passes(p)
  BY <1>1, <1>2, <1>5, NotNull, AdvancePasses DEF s
<1>7. hooks'[p].state = t /\ hooks'[p] # Idle BY <1>1, <1>3, <1>5, Advances
<1> QED BY <1>1, <1>3, <1>4, <1>6, <1>7 DEF s, t

LEMMA WritePasses ==
  ASSUME Shape, NEW p \in Procs, WriteState(p)
  PROVE  Passes(p) /\ UNCHANGED <<turns, calls, session>> /\ file' = hooks[p].state
<1>1. /\ Busy(p) /\ Hook(p) /\ hooks[p].entries = <<>> /\ Head(hooks[p].todo) = "write"
      /\ UNCHANGED <<lines, written, turns, calls, session, messages, missed, phase, prompts, issued, starts, upset>>
      /\ Advance(p, hooks[p].state) /\ file' = hooks[p].state
  BY DEF WriteState, Doing, Shape, store, claude, trouble
<1>2. hooks[p].state \in SessionStates BY <1>1 DEF Hook
<1> QED BY <1>1, <1>2, NotNull, AdvancePasses

LEMMA DeletePasses ==
  ASSUME Shape, NEW p \in Procs, DeleteState(p)
  PROVE  /\ Passes(p) /\ UNCHANGED <<turns, calls, session>> /\ file' = Null
         /\ hooks[p].event = "SessionEnd" /\ hooks[p].todo = <<"delete">> /\ hooks'[p] = Idle
<1>1. /\ Busy(p) /\ Hook(p) /\ hooks[p].entries = <<>> /\ Head(hooks[p].todo) = "delete"
      /\ UNCHANGED <<lines, written, turns, calls, session, messages, missed, phase, prompts, issued, starts, upset>>
      /\ Advance(p, hooks[p].state) /\ file' = Null
  BY DEF DeleteState, Doing, Shape, store, claude, trouble
<1>2. hooks[p].state \in SessionStates /\ Len(<<"delete">>) = 1 BY <1>1 DEF Hook
<1>3. hooks[p].event = "SessionEnd" /\ hooks[p].todo = <<"delete">>
  BY <1>1, Handlers DEF Hook
<1>4. Passes(p)
  <2>1. file' \in {file, Null} BY <1>1
  <2>2. /\ Moved(p)
        /\ hooks'[p] = Idle
    BY <1>1, <1>2, <1>3, Advances
  <2> QED BY <1>1, <2>1, <2>2 DEF Passes
<1> QED BY <1>1, <1>2, <1>3, <1>4, Advances

LEMMA AbandonPasses ==
  ASSUME Shape, NEW p \in Procs, Abandon(p)
  PROVE  Passes(p) /\ UNCHANGED <<file, turns, calls, session>> /\ hooks'[p] = Idle /\ "abandoned" \in upset'
<1>1. /\ Busy(p) /\ hooks' = [hooks EXCEPT ![p] = Idle] /\ DOMAIN hooks = Procs
      /\ upset' = upset \cup {"abandoned"}
      /\ UNCHANGED <<lines, file, written, turns, calls, session, messages, missed, phase, prompts, issued, starts>>
  BY DEF Abandon, Mishap, Shape, store, claude
<1>2. Moved(p) /\ hooks'[p] = Idle
  BY <1>1 DEF Moved
<1> QED BY <1>1, <1>2 DEF Passes

\* The lines after the first k.
LEMMA Rest ==
  ASSUME NEW S, NEW l \in Seq(S), NEW k \in 0 .. Len(l)
  PROVE  /\ SubSeq(l, k + 1, Len(l)) \in Seq(S)
         /\ DOMAIN SubSeq(l, k + 1, Len(l)) = 1 .. Len(l) - k
         /\ \A i \in 1 .. Len(l) - k : SubSeq(l, k + 1, Len(l))[i] = l[k + i]
<1>1. Len(l) \in Nat /\ DOMAIN l = 1 .. Len(l) /\ \A i \in 1 .. Len(l) : l[i] \in S
  BY LenProperties, ElementOfSeq
<1>2. \A i \in k + 1 .. Len(l) : l[i] \in S
  BY <1>1
<1>3. /\ SubSeq(l, k + 1, Len(l)) \in Seq(S)
      /\ Len(SubSeq(l, k + 1, Len(l))) = Len(l) - k
      /\ \A i \in 1 .. Len(l) - k : SubSeq(l, k + 1, Len(l))[i] = l[k + i]
  OBVIOUS
<1> QED BY <1>3, LenProperties

\* A scan takes over every line from its offset on, or all of them.
LEMMA ScanEffect ==
  ASSUME Shape, NEW p \in Procs, Scan(p)
  PROVE
  LET path == hooks[p].path
      k == IF Offset(p) > Len(lines[path]) THEN 0 ELSE Offset(p)
  IN
  /\ Busy(p) /\ Hook(p) /\ Moved(p) /\ hooks'[p] # Idle /\ Busy(p)'
  /\ Head(hooks[p].todo) = "scan" /\ hooks[p].entries = <<>>
  /\ UNCHANGED <<lines, file, store, claude, trouble>> /\ missed \subseteq missed'
  /\ hooks'[p].state = [hooks[p].state EXCEPT !.path = path, !.offset = Len(lines[path])]
  /\ hooks'[p].within = IF Offset(p) > Len(lines[path]) THEN Null ELSE hooks[p].state.turn
  /\ hooks'[p].entries \in Seq(Nat)
  /\ \A j \in DOMAIN hooks'[p].entries :
       \E i \in DOMAIN lines[path] : i > k /\ lines[path][i].msg = hooks'[p].entries[j]
  /\ \A i \in DOMAIN lines[path] : i > k => lines[path][i].msg \in missed' \cup Pending(p)'
<1> DEFINE path == hooks[p].path
           l == lines[path]
           off == Offset(p)
           k == IF off > Len(l) THEN 0 ELSE off
           new == SubSeq(l, k + 1, Len(l))
           read == From(path, off)
<1>1. /\ Busy(p) /\ Hook(p) /\ hooks[p].entries = <<>> /\ Head(hooks[p].todo) = "scan"
      /\ UNCHANGED <<lines, file, store, claude, trouble>>
      /\ hooks' = [hooks EXCEPT ![p] = Scanned(p, read)] /\ missed' = missed \cup read.torn
      /\ DOMAIN hooks = Procs
  BY DEF Scan, Doing, Shape
<1>2. l \in Seq(Lines) /\ off \in Nat /\ Len(l) \in Nat /\ path \in Paths
  <2>1. l \in Seq(Lines) BY <1>1 DEF Shape, Hook
  <2> QED BY <1>1, <2>1, LenProperties DEF Offset, Hook, SessionStates
<1>3. k \in 0 .. Len(l) BY <1>2
<1>4. /\ read.entries = Messages(new) /\ read.nextLine = Len(l)
      /\ read.torn = {new[i].msg : i \in {j \in DOMAIN new : ~new[j].whole}}
      /\ read.wasReset = (off > Len(l))
  <2>1. new = SubSeq(l, IF off > Len(l) THEN 1 ELSE off + 1, Len(l))
    <3>1. k + 1 = IF off > Len(l) THEN 1 ELSE off + 1
      <4>1. CASE off > Len(l) BY <4>1
      <4>2. CASE ~(off > Len(l)) BY <4>2
      <4> QED BY <4>1, <4>2
    <3> QED BY <3>1
  <2> QED BY <2>1 DEF From
<1> HIDE DEF read
<1>5. /\ new \in Seq(Lines) /\ DOMAIN new = 1 .. Len(l) - k
      /\ \A i \in 1 .. Len(l) - k : new[i] = l[k + i]
  BY <1>2, <1>3, Rest
<1> HIDE DEF new
<1>6. /\ Messages(new) \in Seq(Nat)
      /\ \A j \in DOMAIN Messages(new) : \E i \in DOMAIN new : new[i].whole /\ new[i].msg = Messages(new)[j]
      /\ \A i \in DOMAIN new : new[i].whole => \E j \in DOMAIN Messages(new) : Messages(new)[j] = new[i].msg
  BY <1>5, MessagesFacts
<1>7. /\ DOMAIN hooks'[p] = HookFields
      /\ hooks'[p].event = hooks[p].event /\ hooks'[p].tool = hooks[p].tool
      /\ hooks'[p].path = path /\ hooks'[p].todo = Tail(hooks[p].todo)
      /\ hooks'[p].state = [hooks[p].state EXCEPT !.path = path, !.offset = Len(l)]
      /\ hooks'[p].entries = Messages(new)
      /\ hooks'[p].within = IF off > Len(l) THEN Null ELSE hooks[p].state.turn
      /\ DOMAIN hooks' = Procs /\ \A q \in Procs : q # p => hooks'[q] = hooks[q]
  BY <1>1, <1>4 DEF Scanned, Advanced, Hook, HookFields
<1>8. Len(hooks[p].todo) # 1 /\ Tail(hooks[p].todo) # <<>>
  <2>1. Len(hooks[p].todo) # 1 BY <1>1 DEF Hook, Stages
  <2> QED BY <1>1, <2>1, Handlers DEF Hook
<1>9. hooks'[p].state \in SessionStates
  BY <1>1, <1>2, <1>7 DEF Hook, SessionStates, Paths
<1>10. Moved(p) /\ hooks'[p] # Idle /\ Busy(p)'
  BY <1>7, <1>8, <1>9, NothingLeft DEF Moved, Busy
<1>11. ASSUME NEW j \in DOMAIN hooks'[p].entries
       PROVE  \E i \in DOMAIN l : i > k /\ l[i].msg = hooks'[p].entries[j]
  <2>1. PICK i \in DOMAIN new : new[i].msg = hooks'[p].entries[j]
    BY <1>6, <1>7, <1>11
  <2>2. k + i \in DOMAIN l /\ k + i > k /\ l[k + i] = new[i]
    BY <1>2, <1>3, <1>5, <2>1, LenProperties
  <2> QED BY <2>1, <2>2
<1>12. ASSUME NEW i \in DOMAIN l, i > k
       PROVE  l[i].msg \in missed' \cup Pending(p)'
  <2>1. i - k \in DOMAIN new /\ new[i - k] = l[i]
    BY <1>2, <1>3, <1>5, <1>12, LenProperties
  <2>2. CASE new[i - k].whole
    <3>0. \E j \in DOMAIN Messages(new) : Messages(new)[j] = new[i - k].msg
      BY <1>6, <2>1, <2>2
    <3>1. PICK j \in DOMAIN hooks'[p].entries : hooks'[p].entries[j] = l[i].msg
      BY <1>7, <2>1, <3>0
    <3> QED BY <3>1 DEF Pending
  <2>3. CASE ~new[i - k].whole
    BY <1>1, <1>4, <2>1, <2>3
  <2> QED BY <2>2, <2>3
<1> QED BY <1>1, <1>6, <1>7, <1>10, <1>11, <1>12

LEMMA ScanFailsEffect ==
  ASSUME Shape, NEW p \in Procs, ScanFails(p)
  PROVE
  /\ Busy(p) /\ Hook(p) /\ Moved(p) /\ hooks'[p] # Idle /\ Busy(p)'
  /\ Head(hooks[p].todo) = "scan" /\ hooks[p].entries = <<>> /\ hooks'[p].entries = <<>>
  /\ UNCHANGED <<lines, file, store, claude, missed>> /\ upset' = upset \cup {"unreadable"}
  /\ hooks'[p].state = [hooks[p].state EXCEPT !.path = hooks[p].path, !.offset = 0]
<1>1. /\ Busy(p) /\ Hook(p) /\ hooks[p].entries = <<>> /\ Head(hooks[p].todo) = "scan"
      /\ UNCHANGED <<lines, file, store, claude, missed>> /\ upset' = upset \cup {"unreadable"}
      /\ hooks' = [hooks EXCEPT ![p] = Scanned(p, NoFile)]
      /\ DOMAIN hooks = Procs
  BY DEF ScanFails, Mishap, Doing, Shape
<1>2. /\ DOMAIN hooks'[p] = HookFields
      /\ hooks'[p].event = hooks[p].event /\ hooks'[p].tool = hooks[p].tool
      /\ hooks'[p].path = hooks[p].path /\ hooks'[p].todo = Tail(hooks[p].todo)
      /\ hooks'[p].state = [hooks[p].state EXCEPT !.path = hooks[p].path, !.offset = 0]
      /\ hooks'[p].entries = <<>>
      /\ DOMAIN hooks' = Procs /\ \A q \in Procs : q # p => hooks'[q] = hooks[q]
  BY <1>1 DEF Scanned, Advanced, Hook, HookFields, NoFile
<1>3. Len(hooks[p].todo) # 1 /\ Tail(hooks[p].todo) # <<>>
  <2>1. Len(hooks[p].todo) # 1 BY <1>1 DEF Hook, Stages
  <2> QED BY <1>1, <2>1, Handlers DEF Hook
<1>4. hooks'[p].state \in SessionStates
  <2>1. hooks[p].state \in SessionStates /\ hooks[p].path \in {Main, Sub, Null} /\ 0 \in Nat
    BY <1>1 DEF Hook, Paths
  <2> QED BY <1>2, <2>1 DEF SessionStates
<1> QED BY <1>1, <1>2, <1>3, <1>4, NothingLeft DEF Moved, Busy

\* One message is recorded, and no longer pending.
LEMMA MessageEffect ==
  ASSUME Shape, Transcripts, NEW p \in Procs, RecordLlmMessage(p)
  PROVE
  LET m == Head(hooks[p].entries) IN
  /\ Busy(p) /\ Hook(p) /\ Busy(p)'
  /\ \A q \in Procs : q # p => hooks'[q] = hooks[q]
  /\ hooks'[p].event = hooks[p].event /\ hooks'[p].todo = hooks[p].todo
  /\ hooks'[p].state = hooks[p].state /\ hooks'[p].within = hooks[p].within
  /\ hooks'[p].path = hooks[p].path
  /\ hooks[p].entries \in Seq(DOMAIN written) /\ hooks[p].entries # <<>>
  /\ hooks'[p].entries = Tail(hooks[p].entries)
  /\ m \in DOMAIN written /\ DOMAIN messages' = DOMAIN messages \cup {m}
  /\ messages'[m] = IF hooks[p].within = Null /\ m \in DOMAIN messages THEN messages[m] ELSE hooks[p].within
  /\ \A n \in DOMAIN messages : n # m => messages'[n] = messages[n]
  /\ Pending(p) = Pending(p)' \cup {m}
  /\ UNCHANGED <<lines, file, session, turns, calls, claude, missed, trouble>>
<1>1. /\ Busy(p) /\ Hook(p) /\ hooks[p].entries # <<>> /\ DOMAIN hooks = Procs
      /\ hooks' = [hooks EXCEPT ![p].entries = Tail(@)]
      /\ UNCHANGED <<lines, file, session, turns, calls, claude, missed, trouble>>
      /\ hooks[p].entries \in Seq(DOMAIN written)
  BY DEF RecordLlmMessage, Shape, Transcripts
<1> DEFINE e == hooks[p].entries
           m == Head(e)
           turn == hooks[p].within
<1>2. /\ \A q \in Procs : q # p => hooks'[q] = hooks[q]
      /\ hooks'[p].event = hooks[p].event /\ hooks'[p].todo = hooks[p].todo
      /\ hooks'[p].state = hooks[p].state /\ hooks'[p].within = hooks[p].within
      /\ hooks'[p].path = hooks[p].path
      /\ hooks'[p].entries = Tail(hooks[p].entries)
  BY <1>1 DEF Hook, HookFields
<1>3. messages' = Set(messages, m, IF turn = Null /\ m \in DOMAIN messages THEN messages[m] ELSE turn)
  BY DEF RecordLlmMessage
<1>4. /\ DOMAIN messages' = DOMAIN messages \cup {m}
      /\ messages'[m] = IF turn = Null /\ m \in DOMAIN messages THEN messages[m] ELSE turn
      /\ \A n \in DOMAIN messages : n # m => messages'[n] = messages[n]
  BY <1>3 DEF Set
<1>5. /\ m \in DOMAIN written /\ m = e[1] /\ 1 \in DOMAIN e
      /\ DOMAIN Tail(e) = 1 .. Len(e) - 1 /\ DOMAIN e = 1 .. Len(e) /\ Len(e) \in Nat
      /\ \A j \in 1 .. Len(e) - 1 : Tail(e)[j] = e[j + 1]
  BY <1>1, LenProperties, HeadTailProperties, EmptySeq
<1>6. Pending(p) = Pending(p)' \cup {m}
  <2>1. ASSUME NEW j \in DOMAIN e PROVE e[j] \in Pending(p)' \cup {m}
    <3>1. CASE j = 1 BY <1>5, <3>1
    <3>2. CASE j # 1
      <4>1. j - 1 \in 1 .. Len(e) - 1 /\ (j - 1) + 1 = j BY <1>5, <3>2
      <4>2. Tail(e)[j - 1] = e[(j - 1) + 1] BY <1>5, <4>1
      <4>3. j - 1 \in DOMAIN hooks'[p].entries /\ hooks'[p].entries[j - 1] = e[j]
        BY <1>2, <1>5, <4>1, <4>2
      <4> QED BY <4>3 DEF Pending
    <3> QED BY <3>1, <3>2
  <2>2. ASSUME NEW j \in DOMAIN Tail(e) PROVE \E i \in DOMAIN e : e[i] = Tail(e)[j]
    <3>1. j + 1 \in DOMAIN e /\ e[j + 1] = Tail(e)[j] BY <1>5
    <3> QED BY <3>1
  <2>3. Pending(p) \subseteq Pending(p)' \cup {m} BY <2>1 DEF Pending
  <2>4. Pending(p)' \subseteq Pending(p) BY <1>2, <2>2 DEF Pending
  <2>5. m \in Pending(p) BY <1>5 DEF Pending
  <2> QED BY <2>3, <2>4, <2>5
<1> QED BY <1>1, <1>2, <1>4, <1>5, <1>6 DEF Busy

-----------------------------------------------------------------------------
(* Transcripts                                                             *)

\* Most steps neither write nor take up anything.
LEMMA TranscriptsStay ==
  ASSUME Shape, Transcripts, UNCHANGED <<lines, written, messages>>,
         prompts' \in Nat, prompts <= prompts', prompts' <= MaxPrompts,
         \A q \in Procs : Busy(q)' =>
           hooks'[q].entries = <<>> \/ (Busy(q) /\ hooks'[q].entries = hooks[q].entries)
  PROVE  Transcripts'
<1>1. \A m \in DOMAIN written' : written'[m] \in 1 .. prompts'
  <2>1. prompts \in Nat BY DEF Shape
  <2> QED BY <2>1 DEF Transcripts
<1>2. \A q \in Procs : Busy(q)' => hooks'[q].entries \in Seq(DOMAIN written')
  <2>1. <<>> \in Seq(DOMAIN written') BY EmptySeq
  <2> QED BY <2>1 DEF Transcripts
<1> QED BY <1>1, <1>2 DEF Transcripts

LEMMA TranscriptsPass ==
  ASSUME Shape, Transcripts, NEW p \in Procs, Passes(p)
  PROVE  Transcripts'
<1>1. /\ UNCHANGED <<lines, written, messages, prompts>> /\ prompts \in Nat
      /\ prompts <= MaxPrompts
  BY DEF Passes, Shape, Transcripts
<1>2. \A q \in Procs : Busy(q)' =>
        hooks'[q].entries = <<>> \/ (Busy(q) /\ hooks'[q].entries = hooks[q].entries)
  BY StaysBusy DEF Passes, Moved, Busy
<1> QED BY <1>1, <1>2, TranscriptsStay

LEMMA TranscriptsScan ==
  ASSUME Shape, Transcripts, NEW p \in Procs, Scan(p) \/ ScanFails(p)
  PROVE  Transcripts'
<1>1. /\ UNCHANGED <<lines, written, messages, prompts>> /\ Moved(p) /\ Hook(p)
  BY ScanEffect, ScanFailsEffect DEF store, claude
<1>2. hooks'[p].entries \in Seq(DOMAIN written)
  <2>1. CASE Scan(p)
    <3> DEFINE e == hooks'[p].entries
               path == hooks[p].path
    <3>0. /\ e \in Seq(Nat)
          /\ \A j \in DOMAIN e : \E i \in DOMAIN lines[path] :
               i > (IF Offset(p) > Len(lines[path]) THEN 0 ELSE Offset(p)) /\ lines[path][i].msg = e[j]
      BY <2>1, ScanEffect, Zenon
    <3>1. e \in Seq(Nat) /\ \A j \in DOMAIN e : \E i \in DOMAIN lines[path] : lines[path][i].msg = e[j]
      BY <3>0
    <3>2. \A j \in DOMAIN e : e[j] \in DOMAIN written
      BY <1>1, <3>1 DEF Transcripts, Hook
    <3>3. Len(e) \in Nat /\ DOMAIN e = 1 .. Len(e) /\ e \in [1 .. Len(e) -> Nat]
      BY <3>1, LenProperties
    <3> HIDE DEF e
    <3>4. e \in [1 .. Len(e) -> DOMAIN written] BY <3>2, <3>3
    <3>5. e \in Seq(DOMAIN written)
      BY <3>3, <3>4, SeqDef
    <3> QED BY <3>5 DEF e
  <2>2. CASE ScanFails(p)
    <3>1. hooks'[p].entries = <<>> BY <2>2, ScanFailsEffect, Zenon
    <3> QED BY <3>1, EmptySeq
  <2> QED BY <2>1, <2>2
<1>3. \A q \in Procs : Busy(q)' => hooks'[q].entries \in Seq(DOMAIN written)
  BY <1>1, <1>2 DEF Transcripts, Moved, Busy
<1> QED BY <1>1, <1>3 DEF Transcripts

LEMMA TranscriptsMessage ==
  ASSUME Shape, Transcripts, NEW p \in Procs, RecordLlmMessage(p)
  PROVE  Transcripts'
<1>1. /\ UNCHANGED <<lines, written, prompts>>
      /\ hooks[p].entries \in Seq(DOMAIN written) /\ hooks[p].entries # <<>>
      /\ hooks'[p].entries = Tail(hooks[p].entries)
      /\ \A q \in Procs : q # p => hooks'[q] = hooks[q]
      /\ DOMAIN messages' = DOMAIN messages \cup {Head(hooks[p].entries)}
      /\ Head(hooks[p].entries) \in DOMAIN written
  BY MessageEffect DEF claude
<1>2. hooks'[p].entries \in Seq(DOMAIN written)
  BY <1>1, HeadTailProperties
<1>3. \A q \in Procs : Busy(q)' => hooks'[q].entries \in Seq(DOMAIN written)
  BY <1>1, <1>2 DEF Transcripts, Busy
<1> QED BY <1>1, <1>3 DEF Transcripts

\* A hook that begins has read nothing.
LEMMA TranscriptsRun ==
  ASSUME Shape, Transcripts, NEW p \in Procs, NEW e \in DOMAIN Stages, NEW path \in Paths, NEW tool,
         Run(p, e, path, tool), UNCHANGED <<lines, written, messages>>,
         prompts' \in Nat, prompts <= prompts', prompts' <= MaxPrompts
  PROVE  Transcripts'
<1>1. \A q \in Procs : Busy(q)' =>
        hooks'[q].entries = <<>> \/ (Busy(q) /\ hooks'[q].entries = hooks[q].entries)
  BY Runs DEF Busy
<1> QED BY <1>1, TranscriptsStay

LEMMA TranscriptsAnswer ==
  ASSUME Shape, Transcripts, NEW path \in Paths, Answer(path), prompts >= 1
  PROVE  Transcripts'
<1> DEFINE n == Len(written) + 1
<1>1. /\ written \in Seq(Nat) /\ prompts \in Nat /\ lines \in [Paths -> Seq(Lines)]
      /\ written' = Append(written, prompts) /\ Len(written) < MaxMessages
      /\ UNCHANGED <<hooks, prompts, messages>>
  BY DEF Answer, Shape, store
<1>2. PICK whole \in BOOLEAN : lines' = [lines EXCEPT ![path] = Append(@, [msg |-> n, whole |-> whole])]
  BY DEF Answer
<1>3. /\ Len(written) \in Nat /\ Len(written') = n
      /\ DOMAIN written = 1 .. Len(written) /\ DOMAIN written' = 1 .. n
      /\ \A m \in DOMAIN written : written'[m] = written[m]
      /\ written'[n] = prompts
  BY <1>1, LenProperties, AppendProperties
<1>4. Len(written') <= MaxMessages
  BY <1>1, <1>3, BoundsAssumption
<1>5. \A m \in DOMAIN written' : written'[m] \in 1 .. prompts
  BY <1>1, <1>3 DEF Transcripts
<1> HIDE DEF n
<1> DEFINE new == [msg |-> n, whole |-> whole]
<1>6. ASSUME NEW other \in Paths
      PROVE  /\ Len(lines'[other]) <= Len(written')
             /\ \A i \in DOMAIN lines'[other] : lines'[other][i].msg \in DOMAIN written'
  <2>0. lines[other] \in Seq(Lines) /\ Len(lines[other]) \in Nat /\ DOMAIN lines[other] = 1 .. Len(lines[other])
    BY <1>1, LenProperties
  <2>1. /\ Len(lines[other]) <= Len(written)
        /\ \A i \in DOMAIN lines[other] : lines[other][i].msg \in DOMAIN written
    BY DEF Transcripts
  <2>2. CASE other # path
    <3>1. lines'[other] = lines[other] BY <1>1, <1>2, <2>2
    <3> QED BY <1>3, <2>0, <2>1, <3>1 DEF n
  <2>3. CASE other = path
    <3>1. lines'[other] = Append(lines[other], new) BY <1>1, <1>2, <2>3
    <3>2. new \in Lines BY <1>3 DEF Lines, n
    <3>3. new.msg = n OBVIOUS
    <3> HIDE DEF new
    <3>4. /\ Len(lines'[other]) = Len(lines[other]) + 1
          /\ DOMAIN lines'[other] = 1 .. Len(lines[other]) + 1
          /\ lines'[other][Len(lines[other]) + 1] = new
          /\ \A i \in 1 .. Len(lines[other]) : lines'[other][i] = lines[other][i]
      BY <2>0, <3>1, <3>2, AppendProperties, LenProperties
    <3>5. Len(lines'[other]) <= Len(written') BY <1>3, <2>0, <2>1, <3>4 DEF n
    <3>6. ASSUME NEW i \in DOMAIN lines'[other] PROVE lines'[other][i].msg \in DOMAIN written'
      <4>1. CASE i = Len(lines[other]) + 1
        <5>1. lines'[other][i].msg = n BY <3>3, <3>4, <4>1
        <5> QED BY <1>3, <5>1 DEF n
      <4>2. CASE i # Len(lines[other]) + 1
        <5>1. i \in DOMAIN lines[other] /\ lines'[other][i] = lines[other][i]
          BY <2>0, <3>4, <3>6, <4>2
        <5> QED BY <1>3, <2>1, <5>1 DEF n
      <4> QED BY <4>1, <4>2
    <3> QED BY <3>5, <3>6
  <2> QED BY <2>2, <2>3
<1>7. \A q \in Procs : Busy(q)' => hooks'[q].entries \in Seq(DOMAIN written')
  <2>1. DOMAIN written \subseteq DOMAIN written' BY <1>3 DEF n
  <2>2. Seq(DOMAIN written) \subseteq Seq(DOMAIN written') BY <2>1
  <2> QED BY <1>1, <2>2 DEF Transcripts, Busy
<1>8. DOMAIN messages' \subseteq DOMAIN written'
  BY <1>1, <1>3 DEF Transcripts, n
<1>9. prompts' <= MaxPrompts /\ Paths' = Paths BY <1>1 DEF Transcripts, Paths
<1> QED BY <1>1, <1>4, <1>5, <1>6, <1>7, <1>8, <1>9 DEF Transcripts

\* A line that is completed is of the same message.
LEMMA CompleteEffect ==
  ASSUME Shape, NEW path \in Paths, AnswerComplete(path)
  PROVE  /\ UNCHANGED <<file, hooks, store, claude, missed, trouble>>
         /\ \A other \in Paths : DOMAIN lines'[other] = DOMAIN lines[other]
              /\ Len(lines'[other]) = Len(lines[other])
              /\ \A i \in DOMAIN lines[other] : lines'[other][i].msg = lines[other][i].msg
<1> DEFINE n == Len(lines[path])
<1>1. /\ lines \in [Paths -> Seq(Lines)]
      /\ lines' = [lines EXCEPT ![path] = [lines[path] EXCEPT ![n] = [lines[path][n] EXCEPT !.whole = TRUE]]]
      /\ lines[path] # <<>>
      /\ UNCHANGED <<file, hooks, store, claude, missed, trouble>>
  BY DEF AnswerComplete, Shape
<1>2. /\ lines[path] \in Seq(Lines) /\ n \in Nat /\ n >= 1 /\ DOMAIN lines[path] = 1 .. n
      /\ lines[path][n] \in Lines
  BY <1>1, LenProperties, ElementOfSeq, EmptySeq
<1>3. ASSUME NEW other \in Paths
      PROVE  /\ DOMAIN lines'[other] = DOMAIN lines[other] /\ Len(lines'[other]) = Len(lines[other])
             /\ \A i \in DOMAIN lines[other] : lines'[other][i].msg = lines[other][i].msg
  <2>1. CASE other # path BY <1>1, <2>1
  <2>2. CASE other = path
    <3> DEFINE line == [lines[path][n] EXCEPT !.whole = TRUE]
    <3>1. line.msg = lines[path][n].msg /\ line \in Lines
      BY <1>2 DEF Lines
    <3>2. lines'[other] = [lines[path] EXCEPT ![n] = line] BY <1>1, <2>2
    <3> HIDE DEF line, n
    <3>3. DOMAIN lines'[other] = DOMAIN lines[path]
      BY <1>2, <3>2
    <3>4. Len(lines'[other]) = Len(lines[path])
      <4>1. lines'[other] \in Seq(Lines) BY <1>2, <3>1, <3>2, ExceptSeq DEF n
      <4> QED BY <1>2, <3>3, <4>1, LenProperties
    <3>5. \A i \in DOMAIN lines[path] : lines'[other][i].msg = lines[path][i].msg
      BY <1>2, <3>1, <3>2
    <3> QED BY <2>2, <3>3, <3>4, <3>5
  <2> QED BY <2>1, <2>2
<1> QED BY <1>1, <1>3

\* A transcript that is cut back keeps its first lines.
LEMMA RotateEffect ==
  ASSUME Shape, NEW path \in Paths, Rotate(path)
  PROVE  /\ UNCHANGED <<file, hooks, store, claude, missed>> /\ upset' = upset \cup {"rotated"}
         /\ \A other \in Paths : DOMAIN lines'[other] \subseteq DOMAIN lines[other]
              /\ Len(lines'[other]) <= Len(lines[other]) /\ Len(lines'[other]) \in Nat
              /\ \A i \in DOMAIN lines'[other] : lines'[other][i] = lines[other][i]
<1>1. /\ lines \in [Paths -> Seq(Lines)]
      /\ UNCHANGED <<file, hooks, store, claude, missed>> /\ upset' = upset \cup {"rotated"}
  BY DEF Rotate, Mishap, Shape
<1>2. PICK n \in 0 .. Len(lines[path]) - 1 : lines' = [lines EXCEPT ![path] = SubSeq(@, 1, n)]
  BY DEF Rotate
<1>3. ASSUME NEW other \in Paths
      PROVE  /\ DOMAIN lines'[other] \subseteq DOMAIN lines[other]
             /\ Len(lines'[other]) <= Len(lines[other]) /\ Len(lines'[other]) \in Nat
             /\ \A i \in DOMAIN lines'[other] : lines'[other][i] = lines[other][i]
  <2> DEFINE l == lines[other]
  <2>0. l \in Seq(Lines) /\ Len(l) \in Nat /\ DOMAIN l = 1 .. Len(l) BY <1>1, LenProperties
  <2>1. CASE other # path BY <1>1, <1>2, <2>0, <2>1
  <2>2. CASE other = path
    <3>1. lines'[other] = SubSeq(l, 1, n) /\ n \in 0 .. Len(l) - 1 BY <1>1, <1>2, <2>2
    <3> HIDE DEF l
    <3>2. /\ SubSeq(l, 1, n) \in Seq(Lines) /\ Len(SubSeq(l, 1, n)) = n
          /\ \A i \in 1 .. n : SubSeq(l, 1, n)[i] = l[i]
      BY <2>0, <3>1
    <3>3. DOMAIN SubSeq(l, 1, n) = 1 .. n BY <3>2, LenProperties
    <3>4. 1 .. n \subseteq DOMAIN l /\ n <= Len(l) /\ n \in Nat BY <2>0, <3>1
    <3> QED BY <3>1, <3>2, <3>3, <3>4 DEF l
  <2> QED BY <2>1, <2>2
<1> QED BY <1>1, <1>3

LEMMA TranscriptsComplete ==
  ASSUME Shape, Transcripts, NEW path \in Paths, AnswerComplete(path)
  PROVE  Transcripts'
BY CompleteEffect DEF Transcripts, store, claude, Busy, Paths

LEMMA TranscriptsRotate ==
  ASSUME Shape, Transcripts, NEW path \in Paths, Rotate(path)
  PROVE  Transcripts'
<1>1. UNCHANGED <<hooks, messages, prompts, written>>
  BY RotateEffect DEF store, claude
<1>2. \A other \in Paths : Len(lines[other]) \in Nat
  BY LenProperties DEF Shape
<1>3. Len(written) \in Nat BY LenProperties DEF Shape
<1>4. \A other \in Paths :
        /\ Len(lines'[other]) <= Len(written)
        /\ \A i \in DOMAIN lines'[other] : lines'[other][i].msg \in DOMAIN written
  BY <1>2, <1>3, RotateEffect DEF Transcripts
<1> QED BY <1>1, <1>4 DEF Transcripts, Busy, Paths

-----------------------------------------------------------------------------
(* The count of turns                                                      *)

LEMMA NumbersNat ==
  ASSUME Shape, Counted
  PROVE  Numbers \in Nat /\ Numbers <= prompts /\ (\A p \in Procs : Numbering(p) => Numbers = prompts - 1)
<1>1. prompts \in Nat BY DEF Shape
<1>2. CASE \E p \in Procs : Numbering(p)
  <2>1. prompts >= 1 BY <1>2 DEF Counted, Numbering
  <2> QED BY <1>1, <1>2, <2>1 DEF Numbers
<1>3. CASE ~\E p \in Procs : Numbering(p)
  BY <1>1, <1>3 DEF Numbers
<1> QED BY <1>2, <1>3

\* Nobody starts to number in a step of another hook.
LEMMA NumbersMove ==
  ASSUME Shape, Counted, NEW p \in Procs, Busy(p), Moved(p), prompts' = prompts
  PROVE  /\ \A q \in Procs : Numbering(q)' => Numbering(q)
         /\ Numbers \in Nat /\ Numbers' \in Nat /\ Numbers <= Numbers' /\ Numbers' <= prompts
<1>1. ASSUME NEW q \in Procs, Numbering(q)' PROVE Numbering(q)
  <2>1. CASE q # p BY <1>1, <2>1 DEF Numbering, Moved, Busy
  <2>2. CASE q = p
    <3>1. Hook(p) BY DEF Shape
    <3>2. hooks'[p] # Idle /\ hooks'[p].todo = Tail(hooks[p].todo) /\ Len(hooks[p].todo) # 1
          /\ hooks'[p].event = hooks[p].event
      BY <1>1, <2>2, StaysBusy DEF Numbering, Moved
    <3>3. Len(<<"write">>) = 1 OBVIOUS
    <3> QED BY <1>1, <2>2, <3>2, <3>3 DEF Numbering
  <2> QED BY <2>1, <2>2
<1>2. prompts \in Nat /\ Numbers \in Nat /\ Numbers <= prompts
  BY NumbersNat DEF Shape
<1>3. CASE \E q \in Procs : Numbering(q)'
  <2>1. Numbers = prompts - 1 /\ Numbers' = prompts - 1
    BY <1>1, <1>3 DEF Numbers
  <2> QED BY <1>1, <1>2, <2>1
<1>4. CASE ~\E q \in Procs : Numbering(q)'
  <2>1. Numbers' = prompts BY <1>4 DEF Numbers
  <2> QED BY <1>1, <1>2, <2>1
<1> QED BY <1>3, <1>4

LEMMA BoundsGrow ==
  ASSUME NEW s \in SessionStates, NEW n \in Nat, NEW m \in Nat, n <= m, Bounded(s, n)
  PROVE  Bounded(s, m)
<1>1. s.turnIndex \in Nat /\ s.turnIndex <= m BY DEF Bounded, SessionStates
<1>2. 1 .. n \subseteq 1 .. m OBVIOUS
<1> QED BY <1>1, <1>2 DEF Bounded

LEMMA FreshBounded == \A n \in Nat : Bounded(Fresh, n)
BY BoundsAssumption DEF Bounded, Fresh

LEMMA CountedMoves ==
  ASSUME Shape, Counted, NEW p \in Procs, Busy(p), Moved(p), UNCHANGED <<phase, prompts>>,
         file' \in {file, Null} \/ (file' \in SessionStates /\ Bounded(file', Numbers)),
         hooks'[p] # Idle => Bounded(hooks'[p].state, Numbers'),
         DOMAIN turns' \subseteq 1 .. prompts, DOMAIN calls' \subseteq Tools,
         session' \subseteq {"known", "repo", "ended"}
  PROVE  Counted'
<1>1. /\ \A q \in Procs : Numbering(q)' => Numbering(q)
      /\ Numbers \in Nat /\ Numbers' \in Nat /\ Numbers <= Numbers'
  BY NumbersMove
<1>2. file' # Null => Bounded(file', Numbers')
  <2>1. file' # Null => file' \in SessionStates /\ Bounded(file', Numbers)
    BY DEF Counted, Shape
  <2> QED BY <1>1, <2>1, BoundsGrow
<1>3. ASSUME NEW q \in Procs, Busy(q)'
      PROVE  Bounded(hooks'[q].state, Numbers') /\ (hooks'[q].event = "UserPromptSubmit" => prompts' >= 1)
  <2>1. CASE q = p
    <3>1. hooks'[p] # Idle /\ hooks'[p].event = hooks[p].event
      BY <1>3, <2>1, StaysBusy DEF Moved
    <3> QED BY <2>1, <3>1 DEF Counted
  <2>2. CASE q # p
    <3>1. Busy(q) /\ hooks'[q] = hooks[q] BY <1>3, <2>2 DEF Moved, Busy
    <3>2. hooks[q].state \in SessionStates BY <3>1 DEF Shape, Hook
    <3> QED BY <1>1, <3>1, <3>2, BoundsGrow DEF Counted
  <2> QED BY <2>1, <2>2
<1>4. \A q, r \in Procs : Numbering(q)' /\ Numbering(r)' => q = r
  BY <1>1 DEF Counted
<1> QED BY <1>2, <1>3, <1>4 DEF Counted

LEMMA CountedRead ==
  ASSUME Shape, Counted, NEW p \in Procs, ReadState(p)
  PROVE  Counted'
<1>1. /\ Passes(p) /\ UNCHANGED <<file, turns, calls>> /\ session' \subseteq session \cup {"known"}
      /\ Busy(p) /\ Moved(p) /\ UNCHANGED <<phase, prompts>>
  BY ReadPasses DEF Passes
<1>2. Numbers \in Nat /\ Numbers' \in Nat /\ Numbers <= Numbers'
  BY <1>1, NumbersMove
<1>3. ASSUME hooks'[p] # Idle PROVE Bounded(hooks'[p].state, Numbers')
  <2>1. PICK s \in SessionStates :
          /\ IF file = Null THEN s = Fresh ELSE s = file
          /\ hooks'[p].state.offset = s.offset
          /\ hooks'[p].state.turn = s.turn /\ hooks'[p].state.turnIndex = s.turnIndex
    BY <1>3, ReadPasses
  <2>2. Bounded(s, Numbers) BY <1>2, <2>1, FreshBounded DEF Counted
  <2>3. Bounded(s, Numbers') BY <1>2, <2>2, BoundsGrow
  <2> QED BY <2>1, <2>3 DEF Bounded
<1>4. /\ DOMAIN turns' \subseteq 1 .. prompts /\ DOMAIN calls' \subseteq Tools
      /\ session' \subseteq {"known", "repo", "ended"}
  BY <1>1 DEF Counted
<1> QED BY <1>1, <1>3, <1>4, CountedMoves

LEMMA CountedRow ==
  ASSUME Shape, Counted, NEW p \in Procs, RecordSession(p) \/ CaptureGit(p) \/ EndSession(p)
  PROVE  Counted'
<1>1. /\ Passes(p) /\ UNCHANGED <<file, turns, calls>>
      /\ session' \subseteq session \cup {"known", "repo", "ended"}
      /\ hooks'[p] # Idle => hooks'[p].state \in {hooks[p].state, Fresh}
  BY RowPasses
<1>2. /\ Busy(p) /\ Moved(p) /\ UNCHANGED <<phase, prompts>> /\ hooks[p].state \in SessionStates
  BY <1>1 DEF Passes, Shape, Hook
<1>3. Numbers \in Nat /\ Numbers' \in Nat /\ Numbers <= Numbers'
  BY <1>2, NumbersMove
<1>4. hooks'[p] # Idle => Bounded(hooks'[p].state, Numbers')
  <2>1. Bounded(hooks[p].state, Numbers') BY <1>2, <1>3, BoundsGrow DEF Counted
  <2> QED BY <1>1, <1>3, <2>1, FreshBounded
<1>5. /\ DOMAIN turns' \subseteq 1 .. prompts /\ DOMAIN calls' \subseteq Tools
      /\ session' \subseteq {"known", "repo", "ended"}
  BY <1>1 DEF Counted
<1> QED BY <1>1, <1>2, <1>4, <1>5, CountedMoves

LEMMA CountedTurn ==
  ASSUME Shape, Counted, NEW p \in Procs, RecordTurn(p)
  PROVE  Counted'
<1> DEFINE s == hooks[p].state
           i == s.turnIndex + 1
<1>1. /\ Passes(p) /\ UNCHANGED <<file, calls, session>> /\ hooks'[p] # Idle
      /\ hooks[p].event = "UserPromptSubmit" /\ hooks[p].todo = <<"turn", "write">>
      /\ DOMAIN turns' = DOMAIN turns \cup {i}
      /\ hooks'[p].state = [s EXCEPT !.turnIndex = i, !.turn = i]
  BY TurnPasses
<1>2. /\ Busy(p) /\ Moved(p) /\ UNCHANGED <<phase, prompts>> /\ s \in SessionStates
      /\ prompts \in Nat
  BY <1>1 DEF Passes, Shape, Hook
<1>3. Numbering(p) BY <1>1, <1>2, Tuples DEF Numbering
<1>4. Numbers = prompts - 1 /\ Numbers \in Nat /\ Bounded(s, Numbers)
  BY <1>2, <1>3, NumbersNat DEF Counted
<1>5. s.turnIndex \in Nat /\ s.offset \in Nat BY <1>2 DEF SessionStates
<1>6. i \in 1 .. prompts
  BY <1>2, <1>4, <1>5 DEF Bounded
<1>7. Numbers' = prompts
  <2>1. hooks'[p].todo = <<"write">> BY <1>1, <1>2, Tuples DEF Moved
  <2>2. ~\E q \in Procs : Numbering(q)'
    BY <1>2, <1>3, <2>1, NumbersMove DEF Counted, Numbering
  <2> QED BY <1>2, <2>2 DEF Numbers
<1>8. Bounded(hooks'[p].state, Numbers')
  <2>1. /\ hooks'[p].state.turnIndex = i /\ hooks'[p].state.turn = i
        /\ hooks'[p].state.offset = s.offset
    BY <1>1, <1>2 DEF SessionStates
  <2> HIDE DEF i, s
  <2> QED BY <1>2, <1>4, <1>6, <1>7, <2>1 DEF Bounded
<1>9. /\ DOMAIN turns' \subseteq 1 .. prompts /\ DOMAIN calls' \subseteq Tools
      /\ session' \subseteq {"known", "repo", "ended"}
  BY <1>1, <1>6 DEF Counted
<1>10. file' \in {file, Null} BY <1>1
<1> QED BY <1>2, <1>8, <1>9, <1>10, CountedMoves

LEMMA CountedTool ==
  ASSUME Shape, Counted, NEW p \in Procs, RecordToolCall(p)
  PROVE  Counted'
<1> DEFINE s == hooks[p].state
<1>1. /\ Passes(p) /\ UNCHANGED <<file, turns, session>>
      /\ DOMAIN calls' \subseteq DOMAIN calls \cup Tools
      /\ hooks'[p].state = [s EXCEPT !.active = s.active \ {hooks[p].tool}]
  BY ToolPasses
<1>2. /\ Busy(p) /\ Moved(p) /\ UNCHANGED <<phase, prompts>> /\ s \in SessionStates
  BY <1>1 DEF Passes, Shape, Hook
<1>3. Numbers \in Nat /\ Numbers' \in Nat /\ Numbers <= Numbers'
  BY <1>2, NumbersMove
<1>4. Bounded(s, Numbers') BY <1>2, <1>3, BoundsGrow DEF Counted
<1>5. Bounded(hooks'[p].state, Numbers')
  <2>1. /\ hooks'[p].state.turnIndex = s.turnIndex /\ hooks'[p].state.turn = s.turn
        /\ hooks'[p].state.offset = s.offset
    BY <1>1, <1>2 DEF SessionStates
  <2> HIDE DEF s
  <2> QED BY <1>4, <2>1 DEF Bounded
<1>6. /\ DOMAIN turns' \subseteq 1 .. prompts /\ DOMAIN calls' \subseteq Tools
      /\ session' \subseteq {"known", "repo", "ended"}
  BY <1>1 DEF Counted
<1>7. file' \in {file, Null} BY <1>1
<1> QED BY <1>2, <1>5, <1>6, <1>7, CountedMoves

LEMMA CountedClose ==
  ASSUME Shape, Counted, NEW p \in Procs, CloseTurn(p)
  PROVE  Counted'
<1> DEFINE s == hooks[p].state
<1>1. /\ Passes(p) /\ UNCHANGED <<file, calls, session>>
      /\ DOMAIN turns' \subseteq DOMAIN turns \cup ({s.turn} \ {Null})
      /\ hooks'[p].state = [s EXCEPT !.turn = Null, !.active = {}]
  BY ClosePasses
<1>2. /\ Busy(p) /\ Moved(p) /\ UNCHANGED <<phase, prompts>> /\ s \in SessionStates
      /\ prompts \in Nat
  BY <1>1 DEF Passes, Shape, Hook
<1>3. Numbers \in Nat /\ Numbers' \in Nat /\ Numbers <= Numbers' /\ Numbers <= prompts
  BY <1>2, NumbersMove, NumbersNat
<1>4. Bounded(s, Numbers) /\ Bounded(s, Numbers') BY <1>2, <1>3, BoundsGrow DEF Counted
<1>5. Bounded(hooks'[p].state, Numbers')
  <2>1. /\ hooks'[p].state.turnIndex = s.turnIndex /\ hooks'[p].state.turn = Null
        /\ hooks'[p].state.offset = s.offset
    BY <1>1, <1>2 DEF SessionStates
  <2> HIDE DEF s
  <2> QED BY <1>4, <2>1 DEF Bounded
<1>6. s.turn \in 1 .. prompts \cup {Null}
  BY <1>2, <1>3, <1>4 DEF Bounded
<1>7. /\ DOMAIN turns' \subseteq 1 .. prompts /\ DOMAIN calls' \subseteq Tools
      /\ session' \subseteq {"known", "repo", "ended"}
  <2> HIDE DEF s
  <2> QED BY <1>1, <1>6 DEF Counted
<1>8. file' \in {file, Null} BY <1>1
<1> QED BY <1>2, <1>5, <1>7, <1>8, CountedMoves

LEMMA CountedWrite ==
  ASSUME Shape, Counted, NEW p \in Procs, WriteState(p) \/ DeleteState(p) \/ Abandon(p)
  PROVE  Counted'
<1>1. /\ Passes(p) /\ UNCHANGED <<turns, calls, session>> /\ Busy(p) /\ Moved(p)
      /\ UNCHANGED <<phase, prompts>>
  BY WritePasses, DeletePasses, AbandonPasses DEF Passes
<1>2. hooks[p].state \in SessionStates /\ Bounded(hooks[p].state, Numbers)
  BY <1>1 DEF Shape, Hook, Counted
<1>3. Numbers \in Nat /\ Numbers' \in Nat /\ Numbers <= Numbers'
  BY <1>1, NumbersMove
<1>4. hooks'[p] # Idle => hooks'[p].state = hooks[p].state
  BY WriteEffect, DeletePasses, AbandonPasses
<1>5. hooks'[p] # Idle => Bounded(hooks'[p].state, Numbers')
  BY <1>2, <1>3, <1>4, BoundsGrow
<1>6. file' \in {file, Null} \/ file' = hooks[p].state
  BY WritePasses, DeletePasses, AbandonPasses
<1>7. /\ DOMAIN turns' \subseteq 1 .. prompts /\ DOMAIN calls' \subseteq Tools
      /\ session' \subseteq {"known", "repo", "ended"}
  BY <1>1 DEF Counted
<1> QED BY <1>1, <1>2, <1>5, <1>6, <1>7, CountedMoves

LEMMA CountedScan ==
  ASSUME Shape, Transcripts, Counted, NEW p \in Procs, Scan(p) \/ ScanFails(p)
  PROVE  Counted'
<1> DEFINE s == hooks[p].state
<1>1. /\ Busy(p) /\ Hook(p) /\ Moved(p) /\ UNCHANGED <<file, store, claude>>
  BY ScanEffect, ScanFailsEffect
<1>2. PICK n \in Nat : n <= MaxMessages /\ hooks'[p].state = [s EXCEPT !.path = hooks[p].path, !.offset = n]
  <2>1. CASE Scan(p)
    <3>1. Len(lines[hooks[p].path]) \in Nat /\ Len(written) \in Nat
      BY <1>1, LenProperties DEF Shape, Hook
    <3>2. Len(lines[hooks[p].path]) <= MaxMessages
      BY <1>1, <3>1, BoundsAssumption DEF Transcripts, Hook
    <3>3. hooks'[p].state = [s EXCEPT !.path = hooks[p].path, !.offset = Len(lines[hooks[p].path])]
      BY <2>1, ScanEffect
    <3> QED BY <3>1, <3>2, <3>3
  <2>2. CASE ScanFails(p)
    <3>1. hooks'[p].state = [s EXCEPT !.path = hooks[p].path, !.offset = 0]
      BY <2>2, ScanFailsEffect, Zenon
    <3>2. 0 \in Nat /\ 0 <= MaxMessages BY BoundsAssumption
    <3> HIDE DEF s
    <3> QED BY <3>1, <3>2
  <2> QED BY <2>1, <2>2
<1>3. /\ UNCHANGED <<phase, prompts, turns, calls, session>> /\ s \in SessionStates
  BY <1>1 DEF store, claude, Hook
<1>4. Numbers \in Nat /\ Numbers' \in Nat /\ Numbers <= Numbers'
  BY <1>1, <1>3, NumbersMove
<1>5. Bounded(s, Numbers') BY <1>1, <1>3, <1>4, BoundsGrow DEF Counted
<1>6. Bounded(hooks'[p].state, Numbers')
  <2>1. /\ hooks'[p].state.turnIndex = s.turnIndex /\ hooks'[p].state.turn = s.turn
        /\ hooks'[p].state.offset = n
    BY <1>2, <1>3 DEF SessionStates
  <2> HIDE DEF s
  <2> QED BY <1>2, <1>5, <2>1 DEF Bounded
<1>7. /\ DOMAIN turns' \subseteq 1 .. prompts /\ DOMAIN calls' \subseteq Tools
      /\ session' \subseteq {"known", "repo", "ended"}
  BY <1>3 DEF Counted
<1>8. file' \in {file, Null} BY <1>1
<1> QED BY <1>1, <1>3, <1>6, <1>7, <1>8, CountedMoves

\* Steps that leave the hooks' states and the rows as they are.
LEMMA CountedStays ==
  ASSUME Shape, Counted, UNCHANGED <<file, prompts, turns, calls, session>>,
         phase' = "busy" => phase = "busy",
         \A q \in Procs : /\ hooks'[q].todo = hooks[q].todo /\ hooks'[q].event = hooks[q].event
                          /\ hooks'[q].state = hooks[q].state
  PROVE  Counted'
<1>1. \A q \in Procs : (Numbering(q)' <=> Numbering(q)) /\ (Busy(q)' <=> Busy(q))
  BY DEF Numbering, Busy
<1>2. Numbers' = Numbers BY <1>1 DEF Numbers
<1> QED BY <1>1, <1>2 DEF Counted

\* A hook that begins has counted nothing.
LEMMA CountedRun ==
  ASSUME Shape, Counted, NEW p \in Procs, NEW e \in DOMAIN Stages, NEW path \in Paths, NEW tool,
         Run(p, e, path, tool), UNCHANGED <<file, turns, calls, session>>,
         phase' = "busy" => prompts' >= 1,
         IF e = "UserPromptSubmit" THEN Quiet /\ prompts' = prompts + 1 ELSE prompts' = prompts
  PROVE  Counted'
<1>1. /\ ~Busy(p) /\ Busy(p)' /\ hooks'[p].event = e /\ hooks'[p].state = Fresh
      /\ \A q \in Procs : q # p => hooks'[q] = hooks[q]
  BY Runs, Zenon
<1>2. prompts \in Nat /\ Numbers \in Nat /\ Numbers <= prompts BY NumbersNat DEF Shape
<1>3. /\ \A q, r \in Procs : Numbering(q)' /\ Numbering(r)' => q = r
      /\ Numbers' = Numbers /\ prompts <= prompts' /\ prompts' \in Nat
      /\ e = "UserPromptSubmit" => prompts' >= 1
  <2>1. CASE e = "UserPromptSubmit"
    <3>1. \A q \in Procs : ~Busy(q) BY <2>1 DEF Quiet
    <3>2. \A q \in Procs : ~Numbering(q) BY <3>1 DEF Numbering
    <3>3. Numbers = prompts BY <3>2 DEF Numbers
    <3>4. \A q \in Procs : Numbering(q)' => q = p
      BY <1>1, <3>1 DEF Numbering, Busy
    <3>5. hooks'[p].todo = <<"read", "turn", "write">> BY <2>1, Runs, Begins
    <3>6. Numbering(p)'
      BY <1>1, <2>1, <3>5, Tuples DEF Numbering
    <3>7. Numbers' = prompts' - 1 BY <3>6 DEF Numbers
    <3> QED BY <1>2, <2>1, <3>3, <3>4, <3>7
  <2>2. CASE e # "UserPromptSubmit"
    <3>1. \A q \in Procs : Numbering(q)' <=> Numbering(q)
      BY <1>1, <2>2 DEF Numbering, Busy
    <3>2. Numbers' = Numbers BY <2>2, <3>1 DEF Numbers
    <3> QED BY <1>2, <2>2, <3>1, <3>2 DEF Counted
  <2> QED BY <2>1, <2>2
<1>4. file' # Null => Bounded(file', Numbers') BY <1>3 DEF Counted
<1>5. ASSUME NEW q \in Procs, Busy(q)'
      PROVE  Bounded(hooks'[q].state, Numbers') /\ (hooks'[q].event = "UserPromptSubmit" => prompts' >= 1)
  <2>1. CASE q = p BY <1>1, <1>2, <1>3, <2>1, FreshBounded
  <2>2. CASE q # p
    <3>1. Busy(q) /\ hooks'[q] = hooks[q] BY <1>1, <1>5, <2>2 DEF Busy
    <3> QED BY <1>2, <1>3, <3>1 DEF Counted
  <2> QED BY <2>1, <2>2
<1>6. DOMAIN turns' \subseteq 1 .. prompts' BY <1>2, <1>3 DEF Counted
<1> QED BY <1>3, <1>4, <1>5, <1>6 DEF Counted

-----------------------------------------------------------------------------
(* Nothing is skipped                                                      *)

LEMMA HeldGrows ==
  ASSUME NEW s, NEW t, NEW known, NEW more, NEW a, NEW b,
         t.path = s.path, t.offset = s.offset, known \subseteq more, Held(s, known, a),
         s.path # Null =>
           /\ s.offset \in Nat /\ Len(a[s.path]) \in Nat /\ Len(b[s.path]) \in Nat
           /\ Len(a[s.path]) <= Len(b[s.path])
           /\ \A i \in 1 .. Len(a[s.path]) : b[s.path][i].msg = a[s.path][i].msg
  PROVE  Held(t, more, b)
<1>1. SUFFICES ASSUME s.path # Null
               PROVE  /\ s.offset <= Len(b[s.path])
                      /\ \A i \in 1 .. s.offset : b[s.path][i].msg \in more
  BY DEF Held
<1>2. /\ s.offset <= Len(a[s.path])
      /\ \A i \in 1 .. s.offset : a[s.path][i].msg \in known
  BY <1>1 DEF Held
<1>3. \A i \in 1 .. s.offset : i \in 1 .. Len(a[s.path]) BY <1>1, <1>2
<1> QED BY <1>1, <1>2, <1>3

LEMMA HeldSame ==
  ASSUME NEW s, NEW t, NEW known, NEW more, NEW a,
         t.path = s.path, t.offset = s.offset, known \subseteq more, Held(s, known, a)
  PROVE  Held(t, more, a)
BY DEF Held

LEMMA HeldFresh == \A known, a : Held(Fresh, known, a)
BY DEF Held, Fresh

LEMMA NonePending ==
  ASSUME NEW p, hooks[p].entries = <<>>
  PROVE  Pending(p) = {}
BY DEF Pending

LEMMA SkiplessPass ==
  ASSUME Shape, Skipless, NEW p \in Procs, Passes(p)
  PROVE  Skipless'
<1> SUFFICES ASSUME "rotated" \notin upset'
             PROVE  /\ file' # Null => Held(file', Known', lines')
                    /\ \A q \in Procs : Busy(q)' => Held(hooks'[q].state, Known' \cup Pending(q)', lines')
  BY DEF Skipless
<1>1. /\ file # Null => Held(file, Known, lines)
      /\ \A q \in Procs : Busy(q) => Held(hooks[q].state, Known \cup Pending(q), lines)
  BY DEF Skipless, Passes
<1>2. /\ Busy(p) /\ Moved(p) /\ lines' = lines /\ Known' = Known
      /\ file' \in {file, Null} \/ (file' = hooks[p].state /\ hooks[p].entries = <<>>)
  BY DEF Passes, Known
<1>3. file' # Null => Held(file', Known', lines')
  <2>1. CASE file' = hooks[p].state /\ hooks[p].entries = <<>>
    <3>1. Pending(p) = {} BY <2>1, NonePending
    <3>2. Held(hooks[p].state, Known \cup {}, lines) BY <1>1, <1>2, <3>1
    <3> QED BY <1>2, <2>1, <3>2, HeldSame
  <2>2. CASE file' \in {file, Null} BY <1>1, <1>2, <2>2
  <2> QED BY <1>2, <2>1, <2>2
<1>4. ASSUME NEW q \in Procs, Busy(q)'
      PROVE  Held(hooks'[q].state, Known' \cup Pending(q)', lines')
  <2>1. CASE q # p
    <3>1. hooks'[q] = hooks[q] /\ Busy(q) BY <1>2, <1>4, <2>1 DEF Moved, Busy
    <3>2. Pending(q)' = Pending(q) BY <3>1 DEF Pending
    <3> QED BY <1>1, <1>2, <3>1, <3>2
  <2>2. CASE q = p
    <3>1. hooks'[p] # Idle BY <1>2, <1>4, <2>2, StaysBusy
    <3>2. PICK s \in {hooks[p].state, Fresh, file} :
            s # Null /\ hooks'[p].state.path = s.path /\ hooks'[p].state.offset = s.offset
      BY <3>1 DEF Passes
    <3>3. Pending(p) = {} BY <3>1, NonePending DEF Passes
    <3>4. Held(s, Known, lines)
      <4>1. Held(hooks[p].state, Known \cup {}, lines) BY <1>1, <1>2, <3>3
      <4>2. Held(hooks[p].state, Known, lines) BY <4>1, HeldSame
      <4> QED BY <1>1, <3>2, <4>2, HeldFresh
    <3>5. Held(hooks'[p].state, Known \cup Pending(p)', lines)
      BY <3>2, <3>4, HeldSame
    <3> QED BY <1>2, <2>2, <3>5
  <2> QED BY <2>1, <2>2
<1> QED BY <1>3, <1>4

\* What a scan does not take up, or finds half-written, was known before.
LEMMA ScanKnows ==
  ASSUME Shape, Skipless, NEW p \in Procs, Scan(p), "rotated" \notin upset
  PROVE  /\ \A i \in DOMAIN lines[hooks[p].path] :
              lines[hooks[p].path][i].msg \in Known' \cup Pending(p)'
         /\ Offset(p) <= Len(lines[hooks[p].path])
<1> DEFINE path == hooks[p].path
           k == IF Offset(p) > Len(lines[path]) THEN 0 ELSE Offset(p)
<1>1. /\ Busy(p) /\ Hook(p) /\ hooks[p].entries = <<>> /\ UNCHANGED messages /\ missed \subseteq missed'
  BY ScanEffect DEF store
<1>2. \A i \in DOMAIN lines[path] : i > k => lines[path][i].msg \in missed' \cup Pending(p)'
  BY ScanEffect
<1>3. /\ path \in Paths /\ path # Null /\ hooks[p].state.offset \in Nat /\ Len(lines[path]) \in Nat
      /\ DOMAIN lines[path] = 1 .. Len(lines[path])
  BY <1>1, PathsAssumption, LenProperties DEF Hook, Paths, SessionStates, Shape
<1>4. Pending(p) = {} BY <1>1, NonePending
<1>5. Held(hooks[p].state, Known, lines)
  <2>1. Held(hooks[p].state, Known \cup {}, lines) BY <1>1, <1>4 DEF Skipless
  <2> QED BY <2>1, HeldSame
<1>6. /\ Offset(p) \in Nat /\ Offset(p) <= Len(lines[path])
      /\ \A i \in 1 .. Offset(p) : lines[path][i].msg \in Known
  <2>1. CASE hooks[p].state.path = path
    BY <1>3, <1>5, <2>1 DEF Held, Offset
  <2>2. CASE hooks[p].state.path # path
    BY <1>3, <2>2 DEF Offset
  <2> QED BY <2>1, <2>2
<1>7. k = Offset(p) BY <1>3, <1>6
<1> HIDE DEF k
<1>8. Known \subseteq Known' BY <1>1 DEF Known
<1>9. ASSUME NEW i \in DOMAIN lines[path] PROVE lines[path][i].msg \in Known' \cup Pending(p)'
  <2>1. CASE i > k BY <1>2, <2>1 DEF Known
  <2>2. CASE ~(i > k)
    <3>1. i \in 1 .. Offset(p) BY <1>3, <1>6, <1>7, <2>2
    <3> QED BY <1>6, <1>8, <3>1
  <2> QED BY <2>1, <2>2
<1> QED BY <1>6, <1>9

LEMMA SkiplessScan ==
  ASSUME Shape, Skipless, NEW p \in Procs, Scan(p) \/ ScanFails(p)
  PROVE  Skipless'
<1> SUFFICES ASSUME "rotated" \notin upset'
             PROVE  /\ file' # Null => Held(file', Known', lines')
                    /\ \A q \in Procs : Busy(q)' => Held(hooks'[q].state, Known' \cup Pending(q)', lines')
  BY DEF Skipless
<1>1. /\ Busy(p) /\ Hook(p) /\ Moved(p) /\ UNCHANGED <<lines, file>> /\ Known \subseteq Known'
      /\ "rotated" \notin upset
  <2>1. CASE Scan(p)
    BY <2>1, ScanEffect DEF store, trouble, Known
  <2>2. CASE ScanFails(p)
    <3>1. /\ Busy(p) /\ Hook(p) /\ Moved(p) /\ UNCHANGED <<lines, file, store, missed>>
          /\ upset' = upset \cup {"unreadable"}
      BY <2>2, ScanFailsEffect
    <3> QED BY <3>1 DEF store, Known
  <2> QED BY <2>1, <2>2
<1>2. /\ file # Null => Held(file, Known, lines)
      /\ \A q \in Procs : Busy(q) => Held(hooks[q].state, Known \cup Pending(q), lines)
  BY <1>1 DEF Skipless
<1>3. file' # Null => Held(file', Known', lines') BY <1>1, <1>2, HeldSame
<1>4. Held(hooks'[p].state, Known' \cup Pending(p)', lines)
  <2> DEFINE path == hooks[p].path
  <2>0. hooks[p].state \in SessionStates BY <1>1 DEF Hook
  <2>1. CASE Scan(p)
    <3>1. hooks'[p].state = [hooks[p].state EXCEPT !.path = path, !.offset = Len(lines[path])]
      BY <2>1, ScanEffect
    <3>2. hooks'[p].state.path = path /\ hooks'[p].state.offset = Len(lines[path])
      BY <2>0, <3>1 DEF SessionStates
    <3>3. lines[path] \in Seq(Lines) BY <1>1 DEF Shape, Hook
    <3>4. Len(lines[path]) \in Nat /\ DOMAIN lines[path] = 1 .. Len(lines[path])
      BY <3>3, LenProperties
    <3>5. \A i \in DOMAIN lines[path] : lines[path][i].msg \in Known' \cup Pending(p)'
      BY <1>1, <2>1, ScanKnows
    <3> QED BY <3>2, <3>4, <3>5 DEF Held
  <2>2. CASE ScanFails(p)
    <3>1. hooks'[p].state = [hooks[p].state EXCEPT !.path = path, !.offset = 0]
      BY <2>2, ScanFailsEffect, Zenon
    <3>2. hooks'[p].state.path = path /\ hooks'[p].state.offset = 0
      BY <2>0, <3>1 DEF SessionStates
    <3>3. Len(lines[path]) \in Nat BY <1>1, LenProperties DEF Shape, Hook
    <3> QED BY <3>2, <3>3 DEF Held
  <2> QED BY <2>1, <2>2
<1>5. ASSUME NEW q \in Procs, Busy(q)', q # p
      PROVE  Held(hooks'[q].state, Known' \cup Pending(q)', lines')
  <2>1. hooks'[q] = hooks[q] /\ Busy(q) BY <1>1, <1>5 DEF Moved, Busy
  <2>2. Pending(q)' = Pending(q) BY <2>1 DEF Pending
  <2>3. Known \cup Pending(q) \subseteq Known' \cup Pending(q) BY <1>1
  <2>4. Held(hooks[q].state, Known \cup Pending(q), lines) BY <1>2, <2>1
  <2>5. Held(hooks[q].state, Known' \cup Pending(q), lines) BY <2>3, <2>4, HeldSame
  <2> QED BY <1>1, <2>1, <2>2, <2>5
<1> QED BY <1>1, <1>3, <1>4, <1>5

LEMMA SkiplessMessage ==
  ASSUME Shape, Transcripts, Skipless, NEW p \in Procs, RecordLlmMessage(p)
  PROVE  Skipless'
<1> DEFINE m == Head(hooks[p].entries)
<1>1. /\ \A q \in Procs : q # p => hooks'[q] = hooks[q]
      /\ hooks'[p].todo = hooks[p].todo /\ hooks'[p].state = hooks[p].state
      /\ DOMAIN messages' = DOMAIN messages \cup {m}
      /\ Pending(p) = Pending(p)' \cup {m}
      /\ UNCHANGED <<lines, file, missed, upset>>
  BY MessageEffect DEF trouble
<1>2. Known' = Known \cup {m} BY <1>1 DEF Known
<1>3. ASSUME NEW q \in Procs
      PROVE  /\ Busy(q)' <=> Busy(q)
             /\ hooks'[q].state = hooks[q].state
             /\ Known \cup Pending(q) \subseteq Known' \cup Pending(q)'
  <2>1. CASE q = p BY <1>1, <1>2, <2>1 DEF Busy
  <2>2. CASE q # p
    <3>1. Pending(q)' = Pending(q) BY <1>1, <2>2 DEF Pending
    <3> QED BY <1>1, <1>2, <2>2, <3>1 DEF Busy
  <2> QED BY <2>1, <2>2
<1> HIDE DEF m
<1>4. ASSUME "rotated" \notin upset', file' # Null PROVE Held(file', Known', lines')
  <2>1. Held(file, Known, lines) BY <1>1, <1>4 DEF Skipless
  <2> QED BY <1>1, <1>2, <2>1, HeldSame
<1>5. ASSUME "rotated" \notin upset', NEW q \in Procs, Busy(q)'
      PROVE  Held(hooks'[q].state, Known' \cup Pending(q)', lines')
  <2>1. Held(hooks[q].state, Known \cup Pending(q), lines) BY <1>1, <1>3, <1>5 DEF Skipless
  <2>2. Held(hooks'[q].state, Known' \cup Pending(q)', lines) BY <1>3, <2>1, HeldSame
  <2> QED BY <1>1, <2>2
<1> QED BY <1>4, <1>5 DEF Skipless

\* What the harness does to hooks and transcripts takes nothing away, unless a
\* transcript is cut back.
LEMMA SkiplessHarness ==
  ASSUME Shape, Skipless, UNCHANGED <<file, messages, missed>>, upset \subseteq upset',
         \A q \in Procs : Busy(q)' =>
           \/ hooks'[q].state = Fresh
           \/ Busy(q) /\ hooks'[q] = hooks[q],
         "rotated" \notin upset' =>
           \A path \in Paths :
             /\ Len(lines'[path]) \in Nat /\ Len(lines[path]) <= Len(lines'[path])
             /\ \A i \in 1 .. Len(lines[path]) : lines'[path][i].msg = lines[path][i].msg
  PROVE  Skipless'
<1> SUFFICES ASSUME "rotated" \notin upset'
             PROVE  /\ file' # Null => Held(file', Known', lines')
                    /\ \A q \in Procs : Busy(q)' => Held(hooks'[q].state, Known' \cup Pending(q)', lines')
  BY DEF Skipless
<1>1. /\ file # Null => Held(file, Known, lines)
      /\ \A q \in Procs : Busy(q) => Held(hooks[q].state, Known \cup Pending(q), lines)
      /\ Known' = Known
  BY DEF Skipless, Known
<1>2. ASSUME NEW s \in SessionStates, s.path # Null
      PROVE  /\ s.offset \in Nat /\ Len(lines[s.path]) \in Nat /\ Len(lines'[s.path]) \in Nat
             /\ Len(lines[s.path]) <= Len(lines'[s.path])
             /\ \A i \in 1 .. Len(lines[s.path]) : lines'[s.path][i].msg = lines[s.path][i].msg
  <2>1. s.path \in Paths /\ s.offset \in Nat BY <1>2 DEF SessionStates, Paths
  <2>2. Len(lines[s.path]) \in Nat BY <2>1, LenProperties DEF Shape
  <2> QED BY <2>1, <2>2
<1>3. file' # Null => Held(file', Known', lines')
  <2> SUFFICES ASSUME file # Null PROVE Held(file, Known, lines') BY <1>1
  <2>1. file \in SessionStates BY DEF Shape
  <2>2. Held(file, Known, lines) BY <1>1
  <2> QED BY <1>2, <2>1, <2>2, HeldGrows
<1>4. ASSUME NEW q \in Procs, Busy(q)' PROVE Held(hooks'[q].state, Known' \cup Pending(q)', lines')
  <2>1. CASE hooks'[q].state = Fresh BY <2>1, HeldFresh
  <2>2. CASE Busy(q) /\ hooks'[q] = hooks[q]
    <3>1. hooks[q].state \in SessionStates BY <2>2 DEF Shape, Hook
    <3>2. Pending(q)' = Pending(q) BY <2>2 DEF Pending
    <3>3. Held(hooks[q].state, Known \cup Pending(q), lines) BY <1>1, <2>2
    <3>4. Held(hooks[q].state, Known \cup Pending(q), lines') BY <1>2, <3>1, <3>3, HeldGrows
    <3> QED BY <1>1, <2>2, <3>2, <3>4
  <2> QED BY <1>4, <2>1, <2>2
<1> QED BY <1>3, <1>4

-----------------------------------------------------------------------------
(* The end of a session                                                    *)

LEMMA Endings ==
  ASSUME NEW todo \in Stages["SessionEnd"], Head(todo) # "scan", Tail(todo) # <<>>,
         Head(Tail(todo)) \in AfterScan
  PROVE  Head(todo) \in AfterScan
<1>1. Stages["SessionEnd"] =
        {<<"read", "scan", "write", "end", "delete">>, <<"scan", "write", "end", "delete">>,
         <<"write", "end", "delete">>, <<"end", "delete">>, <<"delete">>}
  BY DEF Stages
<1>2. Head(Tail(<<"read", "scan", "write", "end", "delete">>)) = "scan" OBVIOUS
<1>3. Head(<<"scan", "write", "end", "delete">>) = "scan" OBVIOUS
<1>4. /\ Head(<<"write", "end", "delete">>) = "write" /\ Head(<<"end", "delete">>) = "end"
      /\ Head(<<"delete">>) = "delete"
  OBVIOUS
<1> QED BY <1>1, <1>2, <1>3, <1>4 DEF AfterScan

LEMMA EndSeenPass ==
  ASSUME Shape, EndSeen, NEW p \in Procs, Passes(p)
  PROVE  EndSeen'
<1>1. /\ Busy(p) /\ Moved(p) /\ UNCHANGED <<lines, phase>> /\ Known' = Known /\ upset \subseteq upset'
  BY DEF Passes, Known
<1>2. ASSUME NEW q \in Procs, Busy(q)', hooks'[q].event = "SessionEnd"
      PROVE  /\ phase' = "over" /\ hooks'[q].path = Main
             /\ Head(hooks'[q].todo) \in AfterScan /\ upset' \cap {"rotated", "unreadable"} = {} =>
                  \A i \in DOMAIN lines'[Main] : lines'[Main][i].msg \in Known' \cup Pending(q)'
  <2>1. CASE q # p
    <3>1. hooks'[q] = hooks[q] /\ Busy(q) BY <1>1, <1>2, <2>1 DEF Moved, Busy
    <3>2. Pending(q)' = Pending(q) BY <3>1 DEF Pending
    <3> QED BY <1>1, <1>2, <3>1, <3>2 DEF EndSeen
  <2>2. CASE q = p
    <3>1. /\ hooks'[p].event = hooks[p].event /\ hooks'[p].path = hooks[p].path
          /\ hooks'[p].todo = Tail(hooks[p].todo) /\ Hook(p) /\ Head(hooks[p].todo) # "scan"
          /\ hooks[p].entries = <<>> /\ hooks'[p].entries = <<>>
      BY <1>1, <1>2, <2>2, StaysBusy DEF Moved, Shape, Passes
    <3>2. Tail(hooks[p].todo) # <<>> BY <1>2, <2>2, <3>1 DEF Busy
    <3>3. Head(hooks'[p].todo) \in AfterScan => Head(hooks[p].todo) \in AfterScan
      BY <1>2, <2>2, <3>1, <3>2, Endings DEF Hook
    <3>4. Pending(p)' = Pending(p) BY <3>1 DEF Pending
    <3> QED BY <1>1, <1>2, <2>2, <3>1, <3>3, <3>4 DEF EndSeen
  <2> QED BY <2>1, <2>2
<1> QED BY <1>2 DEF EndSeen

LEMMA EndSeenScan ==
  ASSUME Shape, Skipless, EndSeen, NEW p \in Procs, Scan(p) \/ ScanFails(p)
  PROVE  EndSeen'
<1>1. /\ Busy(p) /\ Hook(p) /\ Moved(p) /\ UNCHANGED <<lines, phase>> /\ Known \subseteq Known'
      /\ upset \subseteq upset' /\ hooks'[p] # Idle
  <2>1. CASE Scan(p) BY <2>1, ScanEffect DEF store, claude, trouble, Known
  <2>2. CASE ScanFails(p)
    <3>1. /\ Busy(p) /\ Hook(p) /\ Moved(p) /\ UNCHANGED <<lines, store, claude, missed>>
          /\ upset' = upset \cup {"unreadable"} /\ hooks'[p] # Idle
      BY <2>2, ScanFailsEffect
    <3> QED BY <3>1 DEF store, claude, Known
  <2> QED BY <2>1, <2>2
<1>2. ASSUME NEW q \in Procs, Busy(q)', hooks'[q].event = "SessionEnd"
      PROVE  /\ phase' = "over" /\ hooks'[q].path = Main
             /\ Head(hooks'[q].todo) \in AfterScan /\ upset' \cap {"rotated", "unreadable"} = {} =>
                  \A i \in DOMAIN lines'[Main] : lines'[Main][i].msg \in Known' \cup Pending(q)'
  <2>1. CASE q # p
    <3>1. hooks'[q] = hooks[q] /\ Busy(q) BY <1>1, <1>2, <2>1 DEF Moved, Busy
    <3>2. Pending(q)' = Pending(q) BY <3>1 DEF Pending
    <3> QED BY <1>1, <1>2, <3>1, <3>2 DEF EndSeen
  <2>2. CASE q = p
    <3>1. hooks'[p].event = hooks[p].event /\ hooks'[p].path = hooks[p].path
      BY <1>1 DEF Moved
    <3>2. phase = "over" /\ hooks[p].path = Main BY <1>1, <1>2, <2>2, <3>1 DEF EndSeen
    <3>3. CASE Scan(p)
      <4>1. ASSUME "rotated" \notin upset
            PROVE  \A i \in DOMAIN lines[Main] : lines[Main][i].msg \in Known' \cup Pending(p)'
        BY <3>2, <3>3, <4>1, ScanKnows
      <4> QED BY <1>1, <2>2, <3>1, <3>2, <4>1
    <3>4. CASE ScanFails(p)
      <4>1. "unreadable" \in upset' BY <3>4, ScanFailsEffect
      <4> QED BY <1>1, <2>2, <3>1, <3>2, <4>1
    <3> QED BY <3>3, <3>4
  <2> QED BY <2>1, <2>2
<1> QED BY <1>2 DEF EndSeen

LEMMA EndSeenMessage ==
  ASSUME Shape, Transcripts, EndSeen, NEW p \in Procs, RecordLlmMessage(p)
  PROVE  EndSeen'
<1> DEFINE m == Head(hooks[p].entries)
<1>1. /\ \A q \in Procs : q # p => hooks'[q] = hooks[q]
      /\ hooks'[p].todo = hooks[p].todo /\ hooks'[p].event = hooks[p].event
      /\ hooks'[p].path = hooks[p].path
      /\ DOMAIN messages' = DOMAIN messages \cup {m}
      /\ Pending(p) = Pending(p)' \cup {m}
      /\ UNCHANGED <<lines, missed, upset, phase>>
  BY MessageEffect DEF trouble, claude
<1>2. Known' = Known \cup {m} BY <1>1 DEF Known
<1>3. ASSUME NEW q \in Procs
      PROVE  /\ Busy(q)' <=> Busy(q)
             /\ hooks'[q].todo = hooks[q].todo /\ hooks'[q].event = hooks[q].event
             /\ hooks'[q].path = hooks[q].path
             /\ Known \cup Pending(q) \subseteq Known' \cup Pending(q)'
  <2>1. CASE q = p BY <1>1, <1>2, <2>1 DEF Busy
  <2>2. CASE q # p
    <3>1. Pending(q)' = Pending(q) BY <1>1, <2>2 DEF Pending
    <3> QED BY <1>1, <1>2, <2>2, <3>1 DEF Busy
  <2> QED BY <2>1, <2>2
<1> HIDE DEF m
<1> QED BY <1>1, <1>3 DEF EndSeen

LEMMA EndSeenHarness ==
  ASSUME EndSeen, UNCHANGED <<messages, missed>>, upset \subseteq upset',
         \A q \in Procs : Busy(q)' =>
           \/ Busy(q) /\ hooks'[q] = hooks[q]
           \/ hooks'[q].event = "SessionEnd" =>
                phase' = "over" /\ hooks'[q].path = Main /\ Head(hooks'[q].todo) \notin AfterScan,
         \A q \in Procs : Busy(q) /\ hooks[q].event = "SessionEnd" => phase' = phase,
         "rotated" \notin upset' /\ phase = "over" => \A i \in DOMAIN lines'[Main] :
           i \in DOMAIN lines[Main] /\ lines'[Main][i].msg = lines[Main][i].msg
  PROVE  EndSeen'
<1>1. Known' = Known BY DEF Known
<1>2. ASSUME NEW q \in Procs, Busy(q)', hooks'[q].event = "SessionEnd"
      PROVE  /\ phase' = "over" /\ hooks'[q].path = Main
             /\ Head(hooks'[q].todo) \in AfterScan /\ upset' \cap {"rotated", "unreadable"} = {} =>
                  \A i \in DOMAIN lines'[Main] : lines'[Main][i].msg \in Known' \cup Pending(q)'
  <2>1. CASE Busy(q) /\ hooks'[q] = hooks[q]
    <3>1. Pending(q)' = Pending(q) BY <2>1 DEF Pending
    <3>2. phase = "over" /\ phase' = "over" /\ hooks'[q].path = Main
      BY <1>2, <2>1 DEF EndSeen
    <3>3. ASSUME Head(hooks'[q].todo) \in AfterScan, upset' \cap {"rotated", "unreadable"} = {},
                 NEW i \in DOMAIN lines'[Main]
          PROVE  lines'[Main][i].msg \in Known' \cup Pending(q)'
      <4>1. i \in DOMAIN lines[Main] /\ lines'[Main][i].msg = lines[Main][i].msg
        BY <3>2, <3>3
      <4>2. upset \cap {"rotated", "unreadable"} = {} BY <3>3
      <4>3. \A j \in DOMAIN lines[Main] : lines[Main][j].msg \in Known \cup Pending(q)
        BY <1>2, <2>1, <3>3, <4>2 DEF EndSeen
      <4> QED BY <1>1, <3>1, <4>1, <4>3
    <3> QED BY <3>2, <3>3
  <2>2. CASE /\ phase' = "over" /\ hooks'[q].path = Main /\ Head(hooks'[q].todo) \notin AfterScan
    BY <2>2
  <2> QED BY <1>2, <2>1, <2>2
<1> QED BY <1>2 DEF EndSeen

-----------------------------------------------------------------------------
(* What holds whatever happens                                             *)

Scans == Transcripts /\ Counted /\ Skipless /\ EndSeen

LEMMA ScansStep ==
  ASSUME Shape, Scans, NEW p \in Procs, Step(p)
  PROVE  Scans'
<1> USE DEF Scans
<1>1. CASE ReadState(p)
  BY <1>1, ReadPasses, TranscriptsPass, CountedRead, SkiplessPass, EndSeenPass
<1>2. CASE RecordSession(p) \/ CaptureGit(p) \/ EndSession(p)
  BY <1>2, RowPasses, TranscriptsPass, CountedRow, SkiplessPass, EndSeenPass
<1>3. CASE RecordTurn(p)
  BY <1>3, TurnPasses, TranscriptsPass, CountedTurn, SkiplessPass, EndSeenPass
<1>4. CASE RecordToolCall(p)
  BY <1>4, ToolPasses, TranscriptsPass, CountedTool, SkiplessPass, EndSeenPass
<1>5. CASE CloseTurn(p)
  BY <1>5, ClosePasses, TranscriptsPass, CountedClose, SkiplessPass, EndSeenPass
<1>6. CASE WriteState(p) \/ DeleteState(p) \/ Abandon(p)
  BY <1>6, WritePasses, DeletePasses, AbandonPasses, TranscriptsPass, CountedWrite, SkiplessPass,
     EndSeenPass
<1>7. CASE Scan(p) \/ ScanFails(p)
  BY <1>7, TranscriptsScan, CountedScan, SkiplessScan, EndSeenScan
<1>8. CASE RecordLlmMessage(p)
  <2>1. Counted'
    <3>1. /\ UNCHANGED <<file, session, turns, calls, phase, prompts>>
          /\ \A q \in Procs : q # p => hooks'[q] = hooks[q]
          /\ hooks'[p].todo = hooks[p].todo /\ hooks'[p].event = hooks[p].event
          /\ hooks'[p].state = hooks[p].state
      BY <1>8, MessageEffect DEF claude
    <3> QED BY <3>1, CountedStays
  <2> QED BY <1>8, <2>1, TranscriptsMessage, SkiplessMessage, EndSeenMessage
<1> QED BY <1>1, <1>2, <1>3, <1>4, <1>5, <1>6, <1>7, <1>8 DEF Step

LEMMA ScansRun ==
  ASSUME Shape, Scans, NEW p \in Procs, NEW e \in DOMAIN Stages, NEW path \in Paths, NEW tool,
         Run(p, e, path, tool), UNCHANGED <<lines, file, store, written, missed>>,
         upset \subseteq upset',
         phase' = "busy" => prompts' >= 1, prompts' <= MaxPrompts,
         IF e = "UserPromptSubmit" THEN Quiet /\ prompts' = prompts + 1 ELSE prompts' = prompts,
         e = "SessionEnd" => phase' = "over" /\ path = Main,
         Quiet \/ phase' = phase \/ phase # "over"
  PROVE  Scans'
<1> USE DEF Scans
<1>1. prompts \in Nat /\ prompts' \in Nat /\ prompts <= prompts' BY DEF Shape
<1>2. UNCHANGED <<session, turns, messages, calls>> BY DEF store
<1>3. /\ ~Busy(p) /\ hooks'[p].event = e /\ hooks'[p].state = Fresh /\ hooks'[p].path = path
      /\ hooks'[p].todo = Dispatch[e]
      /\ \A q \in Procs : q # p => hooks'[q] = hooks[q]
  <2> HIDE DEF Scans
  <2> QED BY Runs
<1>4. Transcripts' BY <1>1, <1>2, TranscriptsRun
<1>5. Counted' BY <1>2, CountedRun
<1>6. Skipless'
  <2>1. \A q \in Procs : Busy(q)' =>
          \/ hooks'[q].state = Fresh
          \/ Busy(q) /\ hooks'[q] = hooks[q]
    BY <1>3 DEF Busy
  <2>2. \A other \in Paths : Len(lines[other]) \in Nat BY LenProperties DEF Shape
  <2> QED BY <1>2, <2>1, <2>2, SkiplessHarness
<1>7. EndSeen'
  <2>1. Head(Dispatch["SessionEnd"]) = "read" BY DEF Dispatch, SessionEnd
  <2>2. \A q \in Procs : Busy(q)' =>
          \/ Busy(q) /\ hooks'[q] = hooks[q]
          \/ hooks'[q].event = "SessionEnd" =>
               phase' = "over" /\ hooks'[q].path = Main /\ Head(hooks'[q].todo) \notin AfterScan
    BY <1>3, <2>1 DEF Busy, AfterScan
  <2>3. \A q \in Procs : Busy(q) /\ hooks[q].event = "SessionEnd" => phase' = phase
    BY DEF EndSeen, Quiet
  <2> QED BY <1>2, <2>2, <2>3, EndSeenHarness
<1> QED BY <1>4, <1>5, <1>6, <1>7

\* Steps in which no hook takes part.
LEMMA ScansAside ==
  ASSUME Shape, Scans, UNCHANGED <<file, hooks, store, prompts, missed>>, Transcripts',
         upset \subseteq upset', phase' = "busy" => phase = "busy", phase' = phase \/ phase # "over",
         "rotated" \notin upset' =>
           \A path \in Paths :
             /\ Len(lines'[path]) \in Nat /\ Len(lines[path]) <= Len(lines'[path])
             /\ \A i \in 1 .. Len(lines[path]) : lines'[path][i].msg = lines[path][i].msg,
         "rotated" \notin upset' /\ phase = "over" => \A i \in DOMAIN lines'[Main] :
           i \in DOMAIN lines[Main] /\ lines'[Main][i].msg = lines[Main][i].msg
  PROVE  Scans'
<1> USE DEF Scans
<1>1. UNCHANGED <<session, turns, messages, calls>> BY DEF store
<1>2. \A q \in Procs : Busy(q)' <=> Busy(q) BY DEF Busy
<1>3. Counted' BY <1>1, CountedStays
<1>4. Skipless' BY <1>1, <1>2, SkiplessHarness
<1>5. EndSeen'
  <2>1. \A q \in Procs : Busy(q) /\ hooks[q].event = "SessionEnd" => phase' = phase
    BY DEF EndSeen
  <2> QED BY <1>1, <1>2, <2>1, EndSeenHarness
<1> QED BY <1>3, <1>4, <1>5

LEMMA ScansStill ==
  ASSUME Shape, Scans, UNCHANGED <<lines, file, hooks, store, prompts, written, missed>>,
         upset \subseteq upset', phase' = "busy" => phase = "busy", phase' = phase \/ phase # "over"
  PROVE  Scans'
<1>1. \A path \in Paths : Len(lines[path]) \in Nat BY LenProperties DEF Shape
<1>2. Transcripts'
  <2>1. UNCHANGED messages /\ prompts \in Nat /\ prompts <= prompts BY DEF store, Shape
  <2>2. \A q \in Procs : Busy(q)' => Busy(q) /\ hooks'[q].entries = hooks[q].entries BY DEF Busy
  <2> QED BY <2>1, <2>2, TranscriptsStay DEF Scans, Transcripts
<1> QED BY <1>1, <1>2, ScansAside

LEMMA ScansBegin ==
  ASSUME Shape, Scans, NEW p \in Procs, Begin(p) \/ Prompt(p) \/ Answered(p) \/ End(p)
  PROVE  Scans'
<1>0. /\ UNCHANGED <<lines, file, store, written, missed>> /\ upset \subseteq upset'
      /\ Main \in Paths /\ prompts \in Nat /\ prompts <= MaxPrompts
      /\ {"SessionStart", "UserPromptSubmit", "Stop", "SessionEnd"} \subseteq DOMAIN Stages
  BY Begins DEF Begin, Prompt, Answered, End, Mishap, trouble, Paths, Shape, Scans, Transcripts
<1>1. CASE Begin(p)
  <2>1. Run(p, "SessionStart", Main, Null) /\ Quiet /\ phase' = "idle" /\ prompts' = prompts
    BY <1>1 DEF Begin
  <2> QED BY <1>0, <2>1, ScansRun
<1>2. CASE Prompt(p)
  <2>1. /\ Run(p, "UserPromptSubmit", Main, Null) /\ Quiet /\ phase' = "busy"
        /\ prompts' = prompts + 1 /\ prompts < MaxPrompts
    BY <1>2 DEF Prompt
  <2>2. prompts' >= 1 /\ prompts' <= MaxPrompts BY <1>0, <2>1, BoundsAssumption
  <2> QED BY <1>0, <2>1, <2>2, ScansRun
<1>3. CASE Answered(p)
  <2>1. Run(p, "Stop", Main, Null) /\ Quiet /\ phase' = "idle" /\ prompts' = prompts
    BY <1>3 DEF Answered
  <2> QED BY <1>0, <2>1, ScansRun
<1>4. CASE End(p)
  <2>1. Run(p, "SessionEnd", Main, Null) /\ phase # "over" /\ phase' = "over" /\ prompts' = prompts
    BY <1>4 DEF End
  <2> QED BY <1>0, <2>1, ScansRun
<1> QED BY <1>1, <1>2, <1>3, <1>4

LEMMA ScansTool ==
  ASSUME Shape, Scans, NEW p \in Procs, NEW e \in Tooling, NEW path \in Paths, NEW tool,
         Run(p, e, path, tool), UNCHANGED <<lines, file, store, written, missed, phase, prompts>>,
         upset \subseteq upset'
  PROVE  Scans'
<1>1. e \in DOMAIN Stages /\ e # "UserPromptSubmit" /\ e # "SessionEnd" BY Begins DEF Tooling
<1>2. prompts <= MaxPrompts /\ (phase = "busy" => prompts >= 1) BY DEF Scans, Transcripts, Counted
<1> QED BY <1>1, <1>2, ScansRun

LEMMA ScansTools ==
  ASSUME Shape, Scans, NEW p \in Procs, NEW t \in Tools, ToolBegins(p, t) \/ ToolEnds(p, t)
  PROVE  Scans'
<1>1. PICK e \in Tooling : Run(p, e, Main, t)
  BY DEF ToolBegins, ToolEnds, Tooling
<1>2. UNCHANGED <<lines, file, store, written, missed, phase, prompts>> /\ upset \subseteq upset'
      /\ Main \in Paths
  BY DEF ToolBegins, ToolEnds, Overlap, claude, Paths
<1> QED BY <1>1, <1>2, ScansTool

LEMMA ScansSubagent ==
  ASSUME Shape, Scans, NEW p \in Procs, NEW path \in Paths, SubagentEnds(p, path)
  PROVE  Scans'
<1>1. "SubagentStop" \in Tooling BY DEF Tooling
<1>2. UNCHANGED <<lines, file, store, written, missed, phase, prompts>> /\ upset \subseteq upset'
  BY DEF SubagentEnds, Overlap, claude
<1> QED BY <1>1, <1>2, ScansTool DEF SubagentEnds

\* The new line comes after all the others.
LEMMA AnswerEffect ==
  ASSUME Shape, NEW path \in Paths, Answer(path)
  PROVE
  LET n == Len(written) + 1 IN
  /\ Working /\ Available(path) /\ upset \subseteq upset' /\ upset' \subseteq upset \cup {"torn"}
  /\ UNCHANGED <<file, hooks, store, phase, prompts, issued, starts, missed>>
  /\ n \notin DOMAIN written /\ DOMAIN written' = DOMAIN written \cup {n} /\ written'[n] = prompts
  /\ \A m \in DOMAIN written : written'[m] = written[m]
  /\ \A other \in Paths :
       /\ Len(lines[other]) \in Nat /\ Len(lines'[other]) \in Nat
       /\ Len(lines[other]) <= Len(lines'[other])
       /\ \A i \in 1 .. Len(lines[other]) : lines'[other][i] = lines[other][i]
       /\ \A i \in DOMAIN lines'[other] :
            i \in DOMAIN lines[other] \/ (other = path /\ lines'[other][i].msg = n)
<1> DEFINE n == Len(written) + 1
<1>1. /\ written \in Seq(Nat) /\ prompts \in Nat /\ lines \in [Paths -> Seq(Lines)]
      /\ written' = Append(written, prompts)
      /\ Working /\ Available(path) /\ upset \subseteq upset' /\ upset' \subseteq upset \cup {"torn"}
      /\ UNCHANGED <<file, hooks, store, phase, prompts, issued, starts, missed>>
  BY DEF Answer, Shape, Mishap, trouble
<1>2. PICK whole \in BOOLEAN : lines' = [lines EXCEPT ![path] = Append(@, [msg |-> n, whole |-> whole])]
  BY DEF Answer
<1>3. /\ n \notin DOMAIN written /\ DOMAIN written' = DOMAIN written \cup {n} /\ n \in Nat
      /\ \A m \in DOMAIN written : written'[m] = written[m]
      /\ written'[n] = prompts
  <2>1. /\ Len(written) \in Nat /\ Len(written') = n
        /\ DOMAIN written = 1 .. Len(written) /\ DOMAIN written' = 1 .. n
    BY <1>1, LenProperties, AppendProperties
  <2> QED BY <1>1, <2>1, AppendProperties
<1> HIDE DEF n
<1> DEFINE new == [msg |-> n, whole |-> whole]
<1>4. ASSUME NEW other \in Paths
      PROVE  /\ Len(lines[other]) \in Nat /\ Len(lines'[other]) \in Nat
             /\ Len(lines[other]) <= Len(lines'[other])
             /\ \A i \in 1 .. Len(lines[other]) : lines'[other][i] = lines[other][i]
             /\ \A i \in DOMAIN lines'[other] :
                  i \in DOMAIN lines[other] \/ (other = path /\ lines'[other][i].msg = n)
  <2>0. lines[other] \in Seq(Lines) /\ Len(lines[other]) \in Nat /\ DOMAIN lines[other] = 1 .. Len(lines[other])
    BY <1>1, LenProperties
  <2>1. CASE other # path
    <3>1. lines'[other] = lines[other] BY <1>1, <1>2, <2>1
    <3> QED BY <2>0, <3>1
  <2>2. CASE other = path
    <3>1. lines'[other] = Append(lines[other], new) BY <1>1, <1>2, <2>2
    <3>2. new \in Lines /\ new.msg = n BY <1>3 DEF Lines
    <3> HIDE DEF new
    <3>3. /\ Len(lines'[other]) = Len(lines[other]) + 1
          /\ DOMAIN lines'[other] = 1 .. Len(lines[other]) + 1
          /\ lines'[other][Len(lines[other]) + 1] = new
          /\ \A i \in 1 .. Len(lines[other]) : lines'[other][i] = lines[other][i]
      BY <2>0, <3>1, <3>2, AppendProperties, LenProperties
    <3>4. \A i \in DOMAIN lines'[other] : i \in DOMAIN lines[other] \/ i = Len(lines[other]) + 1
      BY <2>0, <3>3
    <3> QED BY <2>0, <2>2, <3>2, <3>3, <3>4
  <2> QED BY <2>1, <2>2
<1> QED BY <1>1, <1>3, <1>4 DEF n

LEMMA ScansAnswer ==
  ASSUME Shape, Scans, NEW path \in Paths, Answer(path) \/ AnswerComplete(path) \/ Rotate(path)
  PROVE  Scans'
<1>0. \A other \in Paths : /\ Len(lines[other]) \in Nat /\ DOMAIN lines[other] = 1 .. Len(lines[other])
  BY LenProperties DEF Shape
<1>1. CASE Answer(path)
  <2>1. /\ UNCHANGED <<file, hooks, store, phase, prompts, missed>> /\ upset \subseteq upset'
        /\ phase = "busy"
        /\ \A other \in Paths :
             /\ Len(lines'[other]) \in Nat /\ Len(lines[other]) <= Len(lines'[other])
             /\ \A i \in 1 .. Len(lines[other]) : lines'[other][i].msg = lines[other][i].msg
    BY <1>1, AnswerEffect DEF Working
  <2>2. Transcripts' BY <1>1, <2>1, TranscriptsAnswer DEF Scans, Counted
  <2> QED BY <2>1, <2>2, ScansAside
<1>2. CASE AnswerComplete(path)
  <2>1. /\ UNCHANGED <<file, hooks, store, phase, prompts, missed, upset>>
        /\ \A other \in Paths : DOMAIN lines'[other] = DOMAIN lines[other]
             /\ Len(lines'[other]) = Len(lines[other])
             /\ \A i \in DOMAIN lines[other] : lines'[other][i].msg = lines[other][i].msg
    BY <1>2, CompleteEffect DEF claude, trouble
  <2>2. Transcripts' BY <1>2, TranscriptsComplete DEF Scans
  <2>3. Main \in Paths BY DEF Paths
  <2> QED BY <1>0, <2>1, <2>2, <2>3, ScansAside
<1>3. CASE Rotate(path)
  <2>1. /\ UNCHANGED <<file, hooks, store, phase, prompts, missed>>
        /\ upset \subseteq upset' /\ "rotated" \in upset'
    BY <1>3, RotateEffect DEF claude
  <2>2. Transcripts' BY <1>3, TranscriptsRotate DEF Scans
  <2> QED BY <2>1, <2>2, ScansAside
<1> QED BY <1>1, <1>2, <1>3

LEMMA ScansHarness ==
  ASSUME Shape, Scans, Harness
  PROVE  Scans'
<1>1. CASE BeginUnseen \/ Subagent \/ Interrupt
  <2>1. /\ UNCHANGED <<lines, file, hooks, store, prompts, written, missed>>
        /\ upset \subseteq upset'
        /\ phase' = "busy" => phase = "busy"
        /\ phase' = phase \/ phase # "over"
    BY <1>1 DEF BeginUnseen, Subagent, Interrupt, Working, Mishap, claude, trouble
  <2> QED BY <2>1, ScansStill
<1>2. CASE \E p \in Procs : Begin(p) \/ Prompt(p) \/ Answered(p) \/ End(p)
  BY <1>2, ScansBegin
<1>3. CASE \E p \in Procs, t \in Tools : ToolBegins(p, t) \/ ToolEnds(p, t)
  BY <1>3, ScansTools
<1>4. CASE \E p \in Procs, path \in Paths : SubagentEnds(p, path)
  BY <1>4, ScansSubagent
<1>5. CASE \E path \in Paths : Answer(path) \/ AnswerComplete(path) \/ Rotate(path)
  BY <1>5, ScansAnswer
<1> QED BY <1>1, <1>2, <1>3, <1>4, <1>5 DEF Harness

LEMMA InitScans == Init => Scans
<1> SUFFICES ASSUME Init PROVE Scans OBVIOUS
<1>1. \A q \in Procs : ~Busy(q) BY DEF Init, Busy, Idle
<1>2. Len(<<>>) = 0 /\ DOMAIN <<>> = {} OBVIOUS
<1>3. Transcripts BY <1>1, <1>2, BoundsAssumption DEF Init, Transcripts
<1>4. Counted BY <1>1 DEF Init, Counted, Numbering
<1>5. Skipless BY <1>1 DEF Init, Skipless
<1>6. EndSeen BY <1>1 DEF Init, EndSeen
<1> QED BY <1>3, <1>4, <1>5, <1>6 DEF Scans

LEMMA NextScans == Shape /\ Scans /\ [Next]_vars => Scans'
<1> SUFFICES ASSUME Shape, Scans, [Next]_vars PROVE Scans' OBVIOUS
<1>1. CASE Harness BY <1>1, ScansHarness
<1>2. ASSUME NEW p \in Procs, Step(p) PROVE Scans' BY <1>2, ScansStep
<1>3. CASE UNCHANGED vars BY <1>3, ScansStill DEF vars, claude, trouble
<1> QED BY <1>1, <1>2, <1>3 DEF Next

-----------------------------------------------------------------------------
(* Messages and turns                                                      *)

LEMMA FairIsCalm ==
  ASSUME Fair
  PROVE  Calm /\ upset \cap {"torn", "detour", "unreadable", "interrupted", "abandoned", "replayed", "cutShort"} = {}
BY DEF Fair, Calm

LEMMA FairBefore ==
  ASSUME Fair', upset \subseteq upset'
  PROVE  Fair
BY DEF Fair

LEMMA CaughtFits ==
  ASSUME NEW s \in SessionStates, NEW l \in Seq(Lines), Caught(s, l)
  PROVE  \A by, n : Fits(s, l, by, n)
<1>1. Len(l) \in Nat /\ DOMAIN l = 1 .. Len(l) BY LenProperties
<1>2. ReadTo(s) \in Nat BY DEF ReadTo, SessionStates
<1> QED BY <1>1, <1>2 DEF Caught, Fits

LEMMA FitsSame ==
  ASSUME NEW s, NEW t, t.path = s.path, t.offset = s.offset, t.turn = s.turn,
         NEW l, NEW by, NEW n, Fits(s, l, by, n)
  PROVE  Fits(t, l, by, n)
BY DEF Fits, ReadTo

LEMMA CaughtSame ==
  ASSUME NEW s, NEW t, t.path = s.path, t.offset = s.offset, NEW l, Caught(s, l)
  PROVE  Caught(t, l)
BY DEF Caught, ReadTo

LEMMA CaughtNothing ==
  ASSUME NEW s \in SessionStates
  PROVE  Caught(s, <<>>)
<1>1. ReadTo(s) \in Nat BY DEF ReadTo, SessionStates
<1>2. Len(<<>>) = 0 OBVIOUS
<1> QED BY <1>1, <1>2 DEF Caught

\* Nothing is written before the first prompt.
LEMMA NothingWritten ==
  ASSUME Shape, Transcripts, \A m \in DOMAIN written : ~(written[m] \in 1 .. prompts)
  PROVE  lines[Main] = <<>>
<1>1. written \in Seq(Nat) /\ lines[Main] \in Seq(Lines) /\ Main \in Paths BY DEF Shape, Paths
<1>2. DOMAIN written = {} BY DEF Transcripts
<1>3. Len(written) = 0 BY <1>1, <1>2, LenProperties
<1>4. Len(lines[Main]) <= 0 BY <1>1, <1>3 DEF Transcripts
<1>5. Len(lines[Main]) = 0 BY <1>1, <1>4, LenProperties
<1> QED BY <1>1, <1>5, EmptySeq

\* A hook that has begun does not come back to its first step.
LEMMA NoReturn ==
  ASSUME NEW e \in DOMAIN Stages, NEW todo \in Stages[e], Len(todo) # 1
  PROVE  Tail(todo) # Dispatch[e]
<1>1. CASE e = "SessionStart"
  <2>1. /\ Stages[e] = {<<"session", "write", "git">>, <<"write", "git">>, <<"git">>}
        /\ Dispatch[e] = <<"session", "write", "git">>
    BY <1>1 DEF Stages, Dispatch, SessionStart
  <2>2. CASE todo = <<"session", "write", "git">> BY <2>1, <2>2
  <2>3. CASE todo = <<"write", "git">> BY <2>1, <2>3
  <2>4. CASE todo = <<"git">> BY <2>1, <2>4
  <2> QED BY <2>1, <2>2, <2>3, <2>4
<1>2. CASE e = "UserPromptSubmit"
  <2>1. /\ Stages[e] = {<<"read", "turn", "write">>, <<"turn", "write">>, <<"write">>}
        /\ Dispatch[e] = <<"read", "turn", "write">>
    BY <1>2 DEF Stages, Dispatch, UserPromptSubmit
  <2>2. CASE todo = <<"read", "turn", "write">> BY <2>1, <2>2
  <2>3. CASE todo = <<"turn", "write">> BY <2>1, <2>3
  <2>4. CASE todo = <<"write">> BY <2>1, <2>4
  <2> QED BY <2>1, <2>2, <2>3, <2>4
<1>3. CASE e = "PreToolUse"
  <2>1. /\ Stages[e] = {<<"read", "write">>, <<"write">>}
        /\ Dispatch[e] = <<"read", "write">>
    BY <1>3 DEF Stages, Dispatch, PreToolUse
  <2>2. CASE todo = <<"read", "write">> BY <2>1, <2>2
  <2>3. CASE todo = <<"write">> BY <2>1, <2>3
  <2> QED BY <2>1, <2>2, <2>3
<1>4. CASE e = "PostToolUse"
  <2>1. /\ Stages[e] = {<<"read", "tool", "scan", "write">>, <<"tool", "scan", "write">>, <<"scan", "write">>, <<"write">>}
        /\ Dispatch[e] = <<"read", "tool", "scan", "write">>
    BY <1>4 DEF Stages, Dispatch, PostToolUse
  <2>2. CASE todo = <<"read", "tool", "scan", "write">> BY <2>1, <2>2
  <2>3. CASE todo = <<"tool", "scan", "write">> BY <2>1, <2>3
  <2>4. CASE todo = <<"scan", "write">> BY <2>1, <2>4
  <2>5. CASE todo = <<"write">> BY <2>1, <2>5
  <2> QED BY <2>1, <2>2, <2>3, <2>4, <2>5
<1>5. CASE e = "Stop"
  <2>1. /\ Stages[e] = {<<"read", "scan", "close", "write">>, <<"scan", "close", "write">>, <<"close", "write">>, <<"write">>}
        /\ Dispatch[e] = <<"read", "scan", "close", "write">>
    BY <1>5 DEF Stages, Dispatch, Stop
  <2>2. CASE todo = <<"read", "scan", "close", "write">> BY <2>1, <2>2
  <2>3. CASE todo = <<"scan", "close", "write">> BY <2>1, <2>3
  <2>4. CASE todo = <<"close", "write">> BY <2>1, <2>4
  <2>5. CASE todo = <<"write">> BY <2>1, <2>5
  <2> QED BY <2>1, <2>2, <2>3, <2>4, <2>5
<1>6. CASE e = "SubagentStop"
  <2>1. /\ Stages[e] = {<<"read", "scan", "write">>, <<"scan", "write">>, <<"write">>}
        /\ Dispatch[e] = <<"read", "scan", "write">>
    BY <1>6 DEF Stages, Dispatch, SubagentStop
  <2>2. CASE todo = <<"read", "scan", "write">> BY <2>1, <2>2
  <2>3. CASE todo = <<"scan", "write">> BY <2>1, <2>3
  <2>4. CASE todo = <<"write">> BY <2>1, <2>4
  <2> QED BY <2>1, <2>2, <2>3, <2>4
<1>7. CASE e = "SessionEnd"
  <2>1. /\ Stages[e] = {<<"read", "scan", "write", "end", "delete">>, <<"scan", "write", "end", "delete">>, <<"write", "end", "delete">>, <<"end", "delete">>, <<"delete">>}
        /\ Dispatch[e] = <<"read", "scan", "write", "end", "delete">>
    BY <1>7 DEF Stages, Dispatch, SessionEnd
  <2>2. CASE todo = <<"read", "scan", "write", "end", "delete">> BY <2>1, <2>2
  <2>3. CASE todo = <<"scan", "write", "end", "delete">> BY <2>1, <2>3
  <2>4. CASE todo = <<"write", "end", "delete">> BY <2>1, <2>4
  <2>5. CASE todo = <<"end", "delete">> BY <2>1, <2>5
  <2>6. CASE todo = <<"delete">> BY <2>1, <2>6
  <2> QED BY <2>1, <2>2, <2>3, <2>4, <2>5, <2>6
<1> QED BY <1>1, <1>2, <1>3, <1>4, <1>5, <1>6, <1>7 DEF Stages

LEMMA Begun ==
  ASSUME Shape, NEW p \in Procs, Busy(p), Moved(p), Busy(p)'
  PROVE  /\ ~Before(p)' /\ hooks'[p].event = hooks[p].event /\ hooks'[p].path = hooks[p].path
         /\ hooks'[p].todo = Tail(hooks[p].todo)
<1>1. Hook(p) /\ hooks'[p] # Idle BY StaysBusy DEF Shape
<1> QED BY <1>1, NoReturn DEF Moved, Before, Hook

\* Before it reads, and not after, a handler that reads is all ahead.
LEMMA BeforeReading ==
  ASSUME Shape, NEW p \in Procs, Busy(p), hooks[p].event # "SessionStart"
  PROVE  Before(p) <=> Head(hooks[p].todo) = "read"
<1>1. Hook(p) BY DEF Shape
<1> QED BY <1>1, Handlers DEF Before, Hook

LEMMA TracksPass ==
  ASSUME Shape, Tracks, NEW p \in Procs, Passes(p), FileTracks', Busy(p)' => HookTracks(p)'
  PROVE  Tracks'
<1>1. /\ Busy(p) /\ Moved(p) /\ UNCHANGED <<lines, written, messages, prompts>> /\ upset \subseteq upset'
  BY DEF Passes
<1>2. Rightly' BY <1>1 DEF Tracks, Rightly
<1>3. ASSUME NEW q \in Procs, Busy(q)', q # p PROVE HookTracks(q)'
  <2>1. hooks'[q] = hooks[q] /\ Busy(q) BY <1>1, <1>3 DEF Moved, Busy
  <2>2. Before(q)' <=> Before(q) BY <2>1 DEF Before
  <2>3. HookTracks(q) BY <2>1 DEF Tracks
  <2> QED BY <1>1, <2>1, <2>2, <2>3 DEF HookTracks
<1>4. Prompting' => Prompting
  BY <1>1, Begun DEF Prompting, Moved, Busy
<1> QED BY <1>1, <1>2, <1>3, <1>4 DEF Tracks

LEMMA FileStays ==
  ASSUME Shape, Tracks, NEW p \in Procs, Passes(p), file' = file,
         hooks'[p] = Idle => hooks[p].event # "Stop"
  PROVE  FileTracks'
<1>1. /\ Busy(p) /\ Moved(p) /\ UNCHANGED <<lines, written, phase, prompts>>
  BY DEF Passes
<1>2. Prompting' => Prompting
  BY <1>1, Begun DEF Prompting, Moved, Busy
<1>3. Stopping => Stopping'
  <2>1. CASE hooks'[p] = Idle BY <1>1, <2>1 DEF Stopping, Moved, Busy
  <2>2. CASE hooks'[p] # Idle
    <3>1. Busy(p)' /\ hooks'[p].event = hooks[p].event BY <1>1, <2>2, StaysBusy DEF Moved
    <3> QED BY <1>1, <3>1 DEF Stopping, Moved, Busy
  <2> QED BY <2>1, <2>2
<1>4. ASSUME NEW q \in Procs, Busy(q)', hooks'[q].event \in {"Stop", "SessionEnd"}, Before(q)'
      PROVE  IF file = Null THEN lines[Main] = <<>> ELSE Fits(file, lines[Main], written, prompts)
  <2>1. q # p BY <1>1, <1>4, Begun
  <2>2. hooks'[q] = hooks[q] /\ Busy(q) BY <1>1, <1>4, <2>1 DEF Moved, Busy
  <2>3. Before(q) BY <1>4, <2>2 DEF Before
  <2> QED BY <1>4, <2>2, <2>3 DEF Tracks, FileTracks
<1> QED BY <1>1, <1>2, <1>3, <1>4 DEF Tracks, FileTracks

\* Where a read state comes from, it fits.
LEMMA TracksRead ==
  ASSUME Shape, Calmly, Transcripts, Tracks, NEW p \in Procs, ReadState(p)
  PROVE  Tracks'
<1>1. /\ Busy(p) /\ Moved(p) /\ Head(hooks[p].todo) = "read" /\ Hook(p)
      /\ Passes(p) /\ UNCHANGED <<lines, file, written, phase, prompts>> /\ upset \subseteq upset'
      /\ file \in SessionStates \cup {Null} /\ lines[Main] \in Seq(Lines)
  BY ReadPasses DEF ReadState, Doing, Passes, Shape, Paths
<1>2. hooks[p].event # "SessionStart" BY <1>1, Handlers DEF Hook
<1>3. Before(p) /\ hooks[p].todo = Dispatch[hooks[p].event]
  BY <1>1, <1>2, BeforeReading DEF Before
<1>4. hooks'[p] = Idle => hooks[p].event # "Stop"
  BY ReadCalmly, ReadMoves
<1>5. FileTracks' BY <1>1, <1>4, FileStays
<1>6. ASSUME Busy(p)' PROVE HookTracks(p)'
  <2>1. /\ ~Before(p)' /\ hooks'[p].event = hooks[p].event /\ hooks'[p].path = hooks[p].path
        /\ hooks'[p].todo = Tail(hooks[p].todo) /\ hooks'[p] # Idle
    BY <1>1, <1>6, Begun, StaysBusy
  <2>2. PICK s \in SessionStates :
          /\ IF file = Null THEN s = Fresh ELSE s = file
          /\ hooks'[p].state.path = s.path /\ hooks'[p].state.offset = s.offset
          /\ hooks'[p].state.turn = s.turn
    BY <2>1, ReadPasses
  <2>3. hooks'[p].path = Main /\ hooks'[p].entries = <<>>
    BY <1>1, <2>1 DEF Tracks, HookTracks, Passes
  <2>4. ASSUME hooks[p].event = "UserPromptSubmit" PROVE Caught(s, lines[Main])
    <3>1. Prompting BY <1>1, <2>4 DEF Prompting
    <3>2. CASE file # Null BY <2>2, <3>1, <3>2 DEF Tracks, FileTracks
    <3>3. CASE file = Null
      <4>1. hooks[p].todo = <<"read", "turn", "write">> BY <1>3, <2>4 DEF Dispatch, UserPromptSubmit
      <4>2. prompts = 1 BY <1>1, <2>4, <3>3, <4>1 DEF Calmly, Filed, Knows
      <4>3. \A m \in DOMAIN written : ~(written[m] \in 1 .. prompts)
        <5>1. \A m \in DOMAIN written : written[m] < 1 BY <3>1, <4>2 DEF Tracks
        <5> QED BY <4>2, <5>1
      <4>4. lines[Main] = <<>> BY <4>3, NothingWritten
      <4> QED BY <4>4, CaughtNothing
    <3> QED BY <3>2, <3>3
  <2>5. ASSUME hooks[p].event \in Tooling \cup {"Stop", "SessionEnd"}
        PROVE  Fits(s, lines[Main], written, prompts)
    <3>1. CASE hooks[p].event \in Tooling
      <4>1. phase = "busy" /\ file # Null BY <1>1, <3>1, ToolingAtWork
      <4> QED BY <2>2, <4>1 DEF Tracks, FileTracks
    <3>2. CASE hooks[p].event \in {"Stop", "SessionEnd"}
      <4>1. IF file = Null THEN lines[Main] = <<>> ELSE Fits(file, lines[Main], written, prompts)
        BY <1>1, <1>3, <3>2 DEF Tracks, FileTracks
      <4>2. CASE file = Null
        BY <1>1, <4>1, <4>2, CaughtNothing, CaughtFits
      <4>3. CASE file # Null BY <2>2, <4>1, <4>3
      <4> QED BY <4>2, <4>3
    <3> QED BY <2>5, <3>1, <3>2
  <2>6. hooks[p].event = "Stop" => Head(hooks'[p].todo) = "scan"
    <3>1. hooks[p].event = "Stop" => hooks[p].todo = <<"read", "scan", "close", "write">>
      BY <1>3 DEF Dispatch, Stop
    <3> QED BY <2>1, <3>1, Tuples
  <2>7. hooks[p].event = "UserPromptSubmit" => Caught(hooks'[p].state, lines[Main])
    BY <2>2, <2>4, CaughtSame
  <2>8. hooks[p].event \in Tooling \cup {"Stop", "SessionEnd"} =>
          Fits(hooks'[p].state, lines[Main], written, prompts)
    BY <2>2, <2>5, FitsSame
  <2>9. DOMAIN hooks'[p].entries = {} BY <2>3
  <2> QED BY <1>1, <2>1, <2>3, <2>6, <2>7, <2>8, <2>9 DEF HookTracks
<1> QED BY <1>1, <1>5, <1>6, TracksPass

\* A step that leaves the path, the offset and the turn.
LEMMA TracksSame ==
  ASSUME Shape, Tracks, NEW p \in Procs, Passes(p), file' = file,
         Head(hooks[p].todo) # "read", hooks[p].event # "Stop",
         hooks'[p] # Idle =>
           \/ /\ hooks'[p].state.path = hooks[p].state.path /\ hooks'[p].state.offset = hooks[p].state.offset
              /\ hooks'[p].state.turn = hooks[p].state.turn \/ hooks[p].event = "UserPromptSubmit"
           \/ hooks[p].event = "SessionStart"
  PROVE  Tracks'
<1>1. /\ Busy(p) /\ Moved(p) /\ UNCHANGED <<lines, written, phase, prompts>> /\ upset \subseteq upset'
  BY DEF Passes
<1>2. FileTracks' BY FileStays
<1>3. ASSUME Busy(p)' PROVE HookTracks(p)'
  <2>1. /\ ~Before(p)' /\ hooks'[p].event = hooks[p].event /\ hooks'[p].path = hooks[p].path
        /\ hooks'[p] # Idle /\ hooks'[p].entries = <<>>
    BY <1>1, <1>3, Begun, StaysBusy DEF Passes
  <2>2. HookTracks(p) BY <1>1 DEF Tracks
  <2>3. DOMAIN hooks'[p].entries = {} BY <2>1
  <2>4. CASE hooks[p].event = "SessionStart"
    BY <2>1, <2>2, <2>3, <2>4 DEF HookTracks, Tooling
  <2>5. CASE hooks[p].event # "SessionStart"
    <3>1. ~Before(p) BY <1>1, <2>5, BeforeReading
    <3>2. hooks[p].event = "UserPromptSubmit" => Caught(hooks'[p].state, lines[Main])
      BY <2>1, <2>2, <2>5, <3>1, CaughtSame DEF HookTracks
    <3>3. hooks[p].event \in Tooling \cup {"Stop", "SessionEnd"} =>
            Fits(hooks'[p].state, lines[Main], written, prompts)
      <4>1. hooks[p].event \in Tooling \cup {"Stop", "SessionEnd"} => hooks[p].event # "UserPromptSubmit"
        BY DEF Tooling
      <4> QED BY <2>1, <2>2, <2>5, <3>1, <4>1, FitsSame DEF HookTracks
    <3> QED BY <1>1, <2>1, <2>2, <2>3, <3>2, <3>3 DEF HookTracks
  <2> QED BY <2>4, <2>5
<1> QED BY <1>2, <1>3, TracksPass

LEMMA TracksRows ==
  ASSUME Shape, Tracks, NEW p \in Procs,
         RecordSession(p) \/ CaptureGit(p) \/ EndSession(p) \/ RecordTurn(p) \/ RecordToolCall(p)
  PROVE  Tracks'
<1>1. CASE RecordSession(p) \/ CaptureGit(p) \/ EndSession(p)
  <2>1. /\ Passes(p) /\ file' = file /\ Head(hooks[p].todo) \in {"session", "git", "end"}
        /\ hooks'[p] # Idle => hooks'[p].state = hooks[p].state \/ hooks[p].event = "SessionStart"
    BY <1>1, RowPasses
  <2>2. Hook(p) BY <2>1 DEF Passes, Shape
  <2>3. hooks[p].event # "Stop" BY <2>1, <2>2, Handlers DEF Hook
  <2> QED BY <2>1, <2>3, TracksSame
<1>2. CASE RecordTurn(p)
  <2> DEFINE s == hooks[p].state
  <2>1. /\ Passes(p) /\ file' = file /\ hooks'[p] # Idle
        /\ hooks[p].event = "UserPromptSubmit" /\ hooks[p].todo = <<"turn", "write">>
        /\ hooks'[p].state = [s EXCEPT !.turnIndex = s.turnIndex + 1, !.turn = s.turnIndex + 1]
    BY <1>2, TurnPasses
  <2>2. s \in SessionStates BY <2>1 DEF Passes, Shape, Hook
  <2>3. hooks'[p].state.path = s.path /\ hooks'[p].state.offset = s.offset
    BY <2>1, <2>2 DEF SessionStates
  <2> QED BY <2>1, <2>3, Tuples, TracksSame
<1>3. CASE RecordToolCall(p)
  <2> DEFINE s == hooks[p].state
  <2>1. /\ Passes(p) /\ file' = file /\ hooks'[p] # Idle
        /\ hooks[p].event = "PostToolUse" /\ hooks[p].todo = <<"tool", "scan", "write">>
        /\ hooks'[p].state = [s EXCEPT !.active = s.active \ {hooks[p].tool}]
    BY <1>3, ToolPasses
  <2>2. s \in SessionStates BY <2>1 DEF Passes, Shape, Hook
  <2>3. hooks'[p].state.path = s.path /\ hooks'[p].state.offset = s.offset /\ hooks'[p].state.turn = s.turn
    BY <2>1, <2>2 DEF SessionStates
  <2>4. Head(<<"tool", "scan", "write">>) = "tool" OBVIOUS
  <2> QED BY <2>1, <2>3, <2>4, TracksSame
<1> QED BY <1>1, <1>2, <1>3

LEMMA TracksClose ==
  ASSUME Shape, Tracks, NEW p \in Procs, CloseTurn(p)
  PROVE  Tracks'
<1> DEFINE s == hooks[p].state
<1>1. /\ Passes(p) /\ file' = file /\ hooks'[p] # Idle
      /\ hooks[p].event = "Stop" /\ hooks[p].todo = <<"close", "write">>
      /\ hooks'[p].state = [s EXCEPT !.turn = Null, !.active = {}]
  BY ClosePasses
<1>2. /\ Busy(p) /\ Moved(p) /\ UNCHANGED <<lines, written, phase, prompts>> /\ s \in SessionStates
      /\ lines[Main] \in Seq(Lines) /\ hooks'[p].state \in SessionStates
  BY <1>1 DEF Passes, Shape, Hook, Paths, Moved
<1>3. FileTracks' BY <1>1, FileStays
<1>4. Caught(s, lines[Main]) /\ hooks[p].path = Main
  BY <1>1, <1>2, Tuples DEF Tracks, HookTracks
<1>5. hooks'[p].state.path = s.path /\ hooks'[p].state.offset = s.offset
  BY <1>1, <1>2 DEF SessionStates
<1>6. Caught(hooks'[p].state, lines[Main])
  BY <1>4, <1>5, CaughtSame
<1>7. Fits(hooks'[p].state, lines[Main], written, prompts)
  BY <1>2, <1>6, CaughtFits
<1>8. ASSUME Busy(p)' PROVE HookTracks(p)'
  <2>1. hooks'[p].event = "Stop" /\ hooks'[p].path = Main /\ hooks'[p].entries = <<>>
    BY <1>1, <1>2, <1>4, <1>8, Begun DEF Passes
  <2>2. DOMAIN hooks'[p].entries = {} BY <2>1
  <2> QED BY <1>2, <1>6, <1>7, <2>1, <2>2 DEF HookTracks
<1> QED BY <1>1, <1>3, <1>8, TracksPass

\* A hook that has read writes what it has read up to.
LEMMA TracksWrite ==
  ASSUME Shape, Calmly, Transcripts, Tracks, NEW p \in Procs, WriteState(p)
  PROVE  Tracks'
<1> DEFINE s == hooks[p].state
           e == hooks[p].event
<1>1. /\ Passes(p) /\ file' = s /\ file' # Null /\ Hook(p) /\ Head(hooks[p].todo) = "write"
      /\ e = "SessionStart" => hooks[p].todo = <<"write", "git">>
      /\ e \notin {"SessionStart", "SessionEnd"} => hooks[p].todo = <<"write">> /\ hooks'[p] = Idle
      /\ hooks'[p] # Idle => hooks'[p].state = s
  BY WritePasses, WriteEffect
<1>2. /\ Busy(p) /\ Moved(p) /\ UNCHANGED <<lines, written, phase, prompts>> /\ upset \subseteq upset'
      /\ s \in SessionStates /\ lines[Main] \in Seq(Lines)
  BY <1>1 DEF Passes, Hook, Shape, Paths
<1>3. HookTracks(p) BY <1>2 DEF Tracks
<1>4. e # "SessionStart" => ~Before(p) BY <1>1, <1>2, BeforeReading
<1>5. ASSUME Busy(p)' PROVE HookTracks(p)' /\ e \in {"SessionStart", "SessionEnd"}
  <2>1. /\ ~Before(p)' /\ hooks'[p].event = e /\ hooks'[p].path = hooks[p].path /\ hooks'[p] # Idle
        /\ hooks'[p].entries = <<>>
    BY <1>1, <1>2, <1>5, Begun, StaysBusy DEF Passes
  <2>2. DOMAIN hooks'[p].entries = {} BY <2>1
  <2>3. e \in {"SessionStart", "SessionEnd"} BY <1>1, <2>1
  <2>4. e = "SessionEnd" => Fits(hooks'[p].state, lines[Main], written, prompts)
    BY <1>1, <1>3, <1>4, <2>1 DEF HookTracks
  <2>5. hooks[p].path = Main BY <1>3 DEF HookTracks
  <2> QED BY <1>2, <2>1, <2>2, <2>3, <2>4, <2>5 DEF HookTracks, Tooling
<1>6. \A q \in Procs : q # p => (Busy(q)' <=> Busy(q)) /\ hooks'[q] = hooks[q]
  BY <1>2 DEF Moved, Busy
<1>7. FileTracks'
  <2>1. CASE e = "SessionStart"
    <3>1. Alone(p) /\ phase = "idle" /\ prompts = 0 BY <1>2, <2>1 DEF Calmly, Who
    <3>2. \A m \in DOMAIN written : ~(written[m] \in 1 .. prompts)
      <4>1. 1 .. 0 = {} OBVIOUS
      <4> QED BY <3>1, <4>1
    <3>3. lines[Main] = <<>> BY <3>2, NothingWritten
    <3>4. Caught(s, lines[Main]) BY <1>2, <3>3, CaughtNothing
    <3>5. Fits(s, lines[Main], written, prompts) BY <1>2, <3>4, CaughtFits
    <3> QED BY <1>1, <1>2, <3>4, <3>5 DEF FileTracks
  <2>2. CASE e = "UserPromptSubmit"
    <3>1. Caught(s, lines[Main]) BY <1>3, <1>4, <2>2 DEF HookTracks
    <3>2. Fits(s, lines[Main], written, prompts) BY <1>2, <3>1, CaughtFits
    <3> QED BY <1>1, <1>2, <3>1, <3>2 DEF FileTracks
  <2>3. CASE e \in Tooling
    <3>1. Fits(s, lines[Main], written, prompts) BY <1>3, <1>4, <2>3 DEF HookTracks, Tooling
    <3>2. phase = "busy" /\ ~Prompting BY <1>2, <2>3, ToolingAtWork
    <3>3. ~Prompting'
      BY <1>2, <1>6, <2>3, <3>2, Begun DEF Prompting, Tooling
    <3> QED BY <1>1, <1>2, <3>1, <3>2, <3>3 DEF FileTracks
  <2>4. CASE e = "Stop"
    <3>1. Caught(s, lines[Main]) BY <1>1, <1>3, <2>4 DEF HookTracks
    <3>2. Fits(s, lines[Main], written, prompts) BY <1>2, <3>1, CaughtFits
    <3> QED BY <1>1, <1>2, <3>1, <3>2 DEF FileTracks
  <2>5. CASE e = "SessionEnd"
    <3>1. Fits(s, lines[Main], written, prompts) BY <1>3, <1>4, <2>5 DEF HookTracks
    <3>2. Alone(p) /\ phase = "over" BY <1>2, <2>5 DEF Calmly, Who
    <3>3. ~Prompting' BY <1>2, <1>6, <2>5, <3>2, Begun DEF Prompting, Alone
    <3> QED BY <1>1, <1>2, <3>1, <3>2, <3>3 DEF FileTracks
  <2> QED BY <1>1, <2>1, <2>2, <2>3, <2>4, <2>5, Begins DEF Hook, Tooling
<1> QED BY <1>1, <1>5, <1>7, TracksPass

LEMMA TracksDelete ==
  ASSUME Shape, Calmly, Tracks, NEW p \in Procs, DeleteState(p)
  PROVE  Tracks'
<1>1. /\ Passes(p) /\ file' = Null /\ hooks[p].event = "SessionEnd" /\ hooks'[p] = Idle
  BY DeletePasses
<1>2. Busy(p) /\ Moved(p) /\ ~Busy(p)' BY <1>1, Stopped, StaysBusy DEF Passes
<1>3. Alone(p) BY <1>1, <1>2 DEF Calmly, Who
<1>4. \A q \in Procs : ~Busy(q)'
  BY <1>2, <1>3 DEF Alone, Moved, Busy
<1>5. FileTracks' BY <1>1, <1>4 DEF FileTracks
<1> QED BY <1>1, <1>2, <1>5, TracksPass

\* What a scan takes up is of the turn it is recorded in.
LEMMA TracksScan ==
  ASSUME Shape, Scans, Tracks, NEW p \in Procs, Scan(p)
  PROVE  Tracks'
<1> DEFINE s == hooks[p].state
           l == lines[Main]
           k == IF Offset(p) > Len(l) THEN 0 ELSE Offset(p)
<1>1. /\ Busy(p) /\ Hook(p) /\ Moved(p) /\ hooks'[p] # Idle /\ Busy(p)'
      /\ Head(hooks[p].todo) = "scan"
      /\ UNCHANGED <<lines, file, store, claude, trouble>>
  BY ScanEffect
<1>2. /\ UNCHANGED <<lines, file, messages, phase, prompts, written, upset>>
      /\ s \in SessionStates /\ l \in Seq(Lines) /\ Len(l) \in Nat /\ DOMAIN l = 1 .. Len(l)
      /\ prompts \in Nat
  BY <1>1, LenProperties DEF store, claude, trouble, Hook, Shape, Paths
<1>3. /\ ~Before(p)' /\ hooks'[p].event = hooks[p].event /\ hooks'[p].path = hooks[p].path
  BY <1>1, Begun
<1>4. HookTracks(p) /\ hooks[p].path = Main BY <1>1 DEF Tracks, HookTracks
<1>5. /\ hooks'[p].state = [s EXCEPT !.path = Main, !.offset = Len(l)]
      /\ hooks'[p].within = IF Offset(p) > Len(l) THEN Null ELSE s.turn
      /\ \A j \in DOMAIN hooks'[p].entries :
           \E i \in DOMAIN l : i > k /\ l[i].msg = hooks'[p].entries[j]
  <2> DEFINE path == hooks[p].path
             there == IF Offset(p) > Len(lines[path]) THEN 0 ELSE Offset(p)
  <2>1. hooks'[p].state = [hooks[p].state EXCEPT !.path = path, !.offset = Len(lines[path])]
    BY ScanEffect, Zenon
  <2>2. hooks'[p].within = IF Offset(p) > Len(lines[path]) THEN Null ELSE hooks[p].state.turn
    BY ScanEffect, Zenon
  <2>3. \A j \in DOMAIN hooks'[p].entries :
          \E i \in DOMAIN lines[path] : i > there /\ lines[path][i].msg = hooks'[p].entries[j]
    BY ScanEffect, Zenon
  <2>4. path = Main /\ there = k /\ lines[path] = l BY <1>4
  <2> HIDE DEF path, there, k
  <2>5. hooks'[p].state = [s EXCEPT !.path = Main, !.offset = Len(l)] BY <2>1, <2>4
  <2>6. hooks'[p].within = IF Offset(p) > Len(l) THEN Null ELSE s.turn BY <2>2, <2>4
  <2>7. \A j \in DOMAIN hooks'[p].entries :
          \E i \in DOMAIN l : i > k /\ l[i].msg = hooks'[p].entries[j]
    BY <2>3, <2>4
  <2> QED BY <2>5, <2>6, <2>7
<1>6. Caught(hooks'[p].state, l) /\ hooks'[p].state \in SessionStates
  <2>1. hooks'[p].state.path = Main /\ hooks'[p].state.offset = Len(l)
    BY <1>2, <1>5 DEF SessionStates
  <2> QED BY <1>1, <1>2, <2>1 DEF Caught, ReadTo, Moved
<1>7. Fits(hooks'[p].state, l, written, prompts) BY <1>2, <1>6, CaughtFits
<1>8. /\ hooks[p].event \in {"PostToolUse", "Stop", "SubagentStop", "SessionEnd"}
      /\ hooks[p].event # "SessionStart"
  BY <1>1, Handlers DEF Hook
<1>9. Fits(s, l, written, prompts)
  <2>1. ~Before(p) BY <1>1, <1>8, BeforeReading
  <2> QED BY <1>4, <1>8, <2>1 DEF HookTracks, Tooling
<1>10. Offset(p) = ReadTo(s) /\ Offset(p) \in Nat BY <1>2, <1>4 DEF Offset, ReadTo, SessionStates
<1>11. ASSUME NEW j \in DOMAIN hooks'[p].entries
       PROVE  IF hooks'[p].within = Null THEN "rotated" \in upset
              ELSE written[hooks'[p].entries[j]] = hooks'[p].within
  <2>1. PICK i \in DOMAIN l : i > k /\ l[i].msg = hooks'[p].entries[j]
    BY <1>5
  <2>2. CASE Offset(p) > Len(l)
    <3>1. "rotated" \in upset BY <1>2, <1>4, <1>10, <2>2, ScanKnows DEF Scans
    <3> QED BY <1>5, <2>2, <3>1
  <2>3. CASE ~(Offset(p) > Len(l))
    <3>1. i > ReadTo(s) BY <1>10, <2>1, <2>3
    <3>2. s.turn = prompts /\ written[l[i].msg] = prompts BY <1>9, <3>1 DEF Fits
    <3>3. prompts # Null BY <1>2, PathsAssumption
    <3> QED BY <1>5, <2>1, <2>3, <3>2, <3>3
  <2> QED BY <2>2, <2>3
<1> HIDE DEF k, l, s
<1>12. HookTracks(p)'
  <2>1. hooks'[p].path = Main BY <1>3, <1>4
  <2> QED BY <1>2, <1>3, <1>6, <1>7, <1>8, <1>11, <2>1 DEF HookTracks, Tooling, l
<1>13. ASSUME NEW q \in Procs, Busy(q)', q # p PROVE HookTracks(q)'
  <2>1. hooks'[q] = hooks[q] /\ Busy(q) BY <1>1, <1>13 DEF Moved, Busy
  <2>2. Before(q)' <=> Before(q) BY <2>1 DEF Before
  <2>3. HookTracks(q) BY <2>1 DEF Tracks
  <2> QED BY <1>2, <2>1, <2>2, <2>3 DEF HookTracks
<1>14. (Prompting' <=> Prompting) /\ (Stopping' <=> Stopping)
  BY <1>1, <1>3 DEF Prompting, Stopping, Moved, Busy
<1>15. ASSUME NEW q \in Procs, Busy(q)', hooks'[q].event \in {"Stop", "SessionEnd"}, Before(q)'
       PROVE  IF file = Null THEN lines[Main] = <<>> ELSE Fits(file, lines[Main], written, prompts)
  <2>1. q # p BY <1>3, <1>15
  <2>2. hooks'[q] = hooks[q] /\ Busy(q) BY <1>1, <1>15, <2>1 DEF Moved, Busy
  <2>3. Before(q) BY <1>15, <2>2 DEF Before
  <2> QED BY <1>15, <2>2, <2>3 DEF Tracks, FileTracks
<1>16. FileTracks' BY <1>2, <1>14, <1>15 DEF Tracks, FileTracks
<1>17. Rightly' BY <1>2 DEF Tracks, Rightly
<1> QED BY <1>2, <1>12, <1>13, <1>14, <1>16, <1>17 DEF Tracks

LEMMA TracksMessage ==
  ASSUME Shape, Transcripts, Tracks, NEW p \in Procs, RecordLlmMessage(p)
  PROVE  Tracks'
<1> DEFINE e == hooks[p].entries
           m == Head(e)
<1>1. /\ Busy(p) /\ Busy(p)'
      /\ \A q \in Procs : q # p => hooks'[q] = hooks[q]
      /\ hooks'[p].event = hooks[p].event /\ hooks'[p].todo = hooks[p].todo
      /\ hooks'[p].state = hooks[p].state /\ hooks'[p].within = hooks[p].within
      /\ hooks'[p].path = hooks[p].path
      /\ e \in Seq(DOMAIN written) /\ e # <<>> /\ hooks'[p].entries = Tail(e)
      /\ DOMAIN messages' = DOMAIN messages \cup {m}
      /\ messages'[m] = IF hooks[p].within = Null /\ m \in DOMAIN messages THEN messages[m] ELSE hooks[p].within
      /\ \A n \in DOMAIN messages : n # m => messages'[n] = messages[n]
      /\ UNCHANGED <<lines, file, phase, prompts, written, upset>>
  BY MessageEffect DEF claude, trouble
<1>2. HookTracks(p) BY <1>1 DEF Tracks
<1>3. /\ m = e[1] /\ 1 \in DOMAIN e /\ DOMAIN Tail(e) = 1 .. Len(e) - 1
      /\ DOMAIN e = 1 .. Len(e) /\ Len(e) \in Nat
      /\ \A j \in 1 .. Len(e) - 1 : Tail(e)[j] = e[j + 1]
  BY <1>1, LenProperties, HeadTailProperties, EmptySeq
<1>4. IF hooks[p].within = Null THEN "rotated" \in upset ELSE written[m] = hooks[p].within
  BY <1>2, <1>3 DEF HookTracks
<1>5. ASSUME NEW j \in DOMAIN Tail(e)
      PROVE  IF hooks[p].within = Null THEN "rotated" \in upset ELSE written[Tail(e)[j]] = hooks[p].within
  <2>1. j + 1 \in DOMAIN e /\ Tail(e)[j] = e[j + 1] BY <1>3
  <2> QED BY <1>2, <2>1 DEF HookTracks
<1>6. Rightly'
  <2>1. Rightly BY DEF Tracks
  <2> HIDE DEF m
  <2>2. messages'[m] = written[m] \/ ("rotated" \in upset /\ messages'[m] = Null)
    <3>1. CASE hooks[p].within = Null /\ m \in DOMAIN messages BY <1>1, <2>1, <3>1 DEF Rightly
    <3>2. CASE hooks[p].within = Null /\ m \notin DOMAIN messages BY <1>1, <1>4, <3>2
    <3>3. CASE hooks[p].within # Null BY <1>1, <1>4, <3>3
    <3> QED BY <3>1, <3>2, <3>3
  <2>3. \A n \in DOMAIN messages' :
          messages'[n] = written[n] \/ ("rotated" \in upset /\ messages'[n] = Null)
    BY <1>1, <2>1, <2>2 DEF Rightly
  <2> QED BY <1>1, <2>3 DEF Rightly
<1> HIDE DEF e, m
<1>7. \A q \in Procs : (Busy(q)' <=> Busy(q)) /\ (Before(q)' <=> Before(q))
                       /\ hooks'[q].event = hooks[q].event
  <2> SUFFICES ASSUME NEW q \in Procs
               PROVE  /\ Busy(q)' <=> Busy(q)
                      /\ Before(q)' <=> Before(q)
                      /\ hooks'[q].event = hooks[q].event
    OBVIOUS
  <2>1. CASE q = p BY <1>1, <2>1 DEF Busy, Before
  <2>2. CASE q # p BY <1>1, <2>2 DEF Busy, Before
  <2> QED BY <2>1, <2>2
<1>8. (Prompting' <=> Prompting) /\ (Stopping' <=> Stopping) BY <1>7 DEF Prompting, Stopping
<1>9. FileTracks' BY <1>1, <1>7, <1>8 DEF Tracks, FileTracks
<1>10. HookTracks(p)' BY <1>1, <1>2, <1>5, <1>7 DEF HookTracks
<1>11. ASSUME NEW q \in Procs, Busy(q)', q # p PROVE HookTracks(q)'
  <2>1. hooks'[q] = hooks[q] /\ HookTracks(q) BY <1>1, <1>7, <1>11 DEF Tracks
  <2> QED BY <1>1, <1>7, <2>1 DEF HookTracks
<1> QED BY <1>1, <1>6, <1>8, <1>9, <1>10, <1>11 DEF Tracks

LEMMA TracksStep ==
  ASSUME Shape, Calm => Calmly, Scans, Fair => Tracks, NEW p \in Procs, Step(p), Fair'
  PROVE  Tracks'
<1>1. CASE ScanFails(p) \/ Abandon(p)
  <2>1. "unreadable" \in upset' \/ "abandoned" \in upset' BY <1>1, ScanFailsEffect, AbandonPasses
  <2> QED BY <2>1 DEF Fair
<1>2. CASE ~(ScanFails(p) \/ Abandon(p))
  <2>1. upset \subseteq upset'
    BY <1>2 DEF Step, ReadState, RecordSession, RecordTurn, RecordToolCall, Scan, RecordLlmMessage,
                CloseTurn, WriteState, CaptureGit, EndSession, DeleteState, trouble
  <2>2. Calmly /\ Tracks /\ Transcripts BY <2>1, FairBefore, FairIsCalm DEF Scans
  <2> QED BY <1>2, <2>2, TracksRead, TracksRows, TracksScan, TracksMessage, TracksClose, TracksWrite,
             TracksDelete DEF Step
<1> QED BY <1>1, <1>2

-----------------------------------------------------------------------------
(* Messages, turns and Claude Code                                         *)

\* A transcript that does not grow.
LEMMA TracksLines ==
  ASSUME Shape, Shape', Tracks, UNCHANGED <<file, hooks, messages, written, phase, prompts>>,
         upset \subseteq upset', Len(lines'[Main]) <= Len(lines[Main]),
         DOMAIN lines'[Main] \subseteq DOMAIN lines[Main],
         \A i \in DOMAIN lines'[Main] : lines'[Main][i].msg = lines[Main][i].msg
  PROVE  Tracks'
<1>1. /\ lines[Main] \in Seq(Lines) /\ lines'[Main] \in Seq(Lines)
      /\ file \in SessionStates \cup {Null} /\ Main \in Paths
  BY DEF Shape, Paths
<1>2. Len(lines[Main]) \in Nat /\ Len(lines'[Main]) \in Nat BY <1>1, LenProperties
<1>3. lines[Main] = <<>> => lines'[Main] = <<>>
  <2>1. lines[Main] = <<>> => Len(lines'[Main]) = 0 BY <1>2
  <2> QED BY <1>1, <2>1, EmptySeq
<1>4. ASSUME NEW s \in SessionStates, Caught(s, lines[Main]) PROVE Caught(s, lines'[Main])
  <2>1. ReadTo(s) \in Nat BY DEF ReadTo, SessionStates
  <2> QED BY <1>2, <1>4, <2>1 DEF Caught
<1>5. ASSUME NEW s, Fits(s, lines[Main], written, prompts) PROVE Fits(s, lines'[Main], written, prompts)
  BY <1>5 DEF Fits
<1>6. FileTracks'
  <2>1. (Prompting' <=> Prompting) /\ (Stopping' <=> Stopping) BY DEF Prompting, Stopping, Busy
  <2>2. \A q \in Procs : Busy(q)' /\ hooks'[q].event \in {"Stop", "SessionEnd"} /\ Before(q)' =>
          IF file = Null THEN lines[Main] = <<>> ELSE Fits(file, lines[Main], written, prompts)
    BY DEF Tracks, FileTracks, Busy, Before
  <2>3. file # Null => file \in SessionStates BY <1>1
  <2> QED BY <1>3, <1>4, <1>5, <2>1, <2>2, <2>3 DEF Tracks, FileTracks
<1>7. ASSUME NEW q \in Procs, Busy(q)' PROVE HookTracks(q)'
  <2>1. Busy(q) /\ HookTracks(q) /\ (Before(q)' <=> Before(q)) BY <1>7 DEF Busy, Before, Tracks
  <2>2. hooks[q].state \in SessionStates BY <2>1 DEF Shape, Hook
  <2> QED BY <1>4, <1>5, <2>1, <2>2 DEF HookTracks
<1>8. Rightly' BY DEF Tracks, Rightly
<1>9. Prompting' <=> Prompting BY DEF Prompting, Busy
<1> QED BY <1>6, <1>7, <1>8, <1>9 DEF Tracks

\* A hook that begins has everything to read.
LEMMA TracksRun ==
  ASSUME Shape, Tracks, NEW p \in Procs, NEW e \in DOMAIN Stages, NEW tool, Run(p, e, Main, tool),
         UNCHANGED <<lines, file, messages, written>>, upset \subseteq upset',
         prompts' = prompts \/ Quiet, FileTracks',
         Prompting' => \A m \in DOMAIN written : written[m] < prompts'
  PROVE  Tracks'
<1>1. /\ Main \in Paths
      /\ hooks'[p].event = e /\ hooks'[p].todo = Dispatch[e] /\ hooks'[p].path = Main
      /\ hooks'[p].entries = <<>>
      /\ \A q \in Procs : q # p => hooks'[q] = hooks[q]
  BY Runs DEF Paths
<1>2. HookTracks(p)'
  <2>1. Before(p)' BY <1>1 DEF Before
  <2>2. e = "Stop" => Head(hooks'[p].todo) = "read"
    <3>1. Head(<<"read", "scan", "close", "write">>) = "read" OBVIOUS
    <3> QED BY <1>1, <3>1, Begins
  <2>3. DOMAIN hooks'[p].entries = {} BY <1>1
  <2> QED BY <1>1, <2>1, <2>2, <2>3 DEF HookTracks
<1>3. ASSUME NEW q \in Procs, Busy(q)', q # p PROVE HookTracks(q)'
  <2>1. hooks'[q] = hooks[q] /\ Busy(q) BY <1>1, <1>3 DEF Busy
  <2>2. (Before(q)' <=> Before(q)) /\ HookTracks(q) /\ prompts' = prompts
    BY <2>1 DEF Before, Tracks, Quiet
  <2> QED BY <2>1, <2>2 DEF HookTracks
<1>4. Rightly' BY DEF Tracks, Rightly
<1> QED BY <1>2, <1>3, <1>4 DEF Tracks

LEMMA TracksBegin ==
  ASSUME Shape, Calmly, Tracks, NEW p \in Procs, Begin(p), Fair'
  PROVE  Tracks'
<1>1. starts = 0 /\ upset' = upset
  BY DEF Begin, Mishap, Fair, trouble
<1>2. file = Null BY <1>1 DEF Begin, Calmly, Who
<1>3. /\ Run(p, "SessionStart", Main, Null) /\ UNCHANGED <<lines, file, messages, written, prompts>>
      /\ "SessionStart" \in DOMAIN Stages
  BY Begins DEF Begin, store
<1>4. \A q \in Procs : Busy(q)' => hooks'[q].event = "SessionStart"
  BY <1>3, Runs DEF Begin, Quiet, Busy, Paths
<1>5. FileTracks' BY <1>2, <1>3, <1>4 DEF FileTracks
<1>6. ~Prompting' BY <1>4 DEF Prompting
<1> QED BY <1>1, <1>3, <1>5, <1>6, TracksRun

LEMMA TracksPrompt ==
  ASSUME Shape, Transcripts, Tracks, NEW p \in Procs, Prompt(p)
  PROVE  Tracks'
<1>1. /\ Run(p, "UserPromptSubmit", Main, Null) /\ UNCHANGED <<lines, file, messages, written, upset>>
      /\ "UserPromptSubmit" \in DOMAIN Stages
      /\ Quiet /\ phase = "idle" /\ prompts' = prompts + 1 /\ prompts \in Nat
      /\ file \in SessionStates \cup {Null} /\ lines[Main] \in Seq(Lines)
  BY Begins DEF Prompt, store, trouble, Shape, Paths
<1>2. \A q \in Procs : Busy(q)' => hooks'[q].event = "UserPromptSubmit"
  BY <1>1, Runs DEF Quiet, Busy, Paths
<1>3. ASSUME file # Null
      PROVE  Caught(file, lines[Main]) /\ Fits(file, lines[Main], written, prompts')
  <2>1. ~Stopping BY <1>1 DEF Stopping, Quiet
  <2>2. Caught(file, lines[Main]) BY <1>1, <1>3, <2>1 DEF Tracks, FileTracks
  <2> QED BY <1>1, <1>3, <2>2, CaughtFits
<1>4. FileTracks' BY <1>1, <1>2, <1>3 DEF FileTracks
<1>5. \A m \in DOMAIN written : written[m] < prompts' BY <1>1 DEF Transcripts
<1> QED BY <1>1, <1>4, <1>5, TracksRun

LEMMA TracksAnswered ==
  ASSUME Shape, Calmly, Tracks, NEW p \in Procs, Answered(p)
  PROVE  Tracks'
<1>1. /\ Run(p, "Stop", Main, Null) /\ UNCHANGED <<lines, file, messages, written, prompts, upset>>
      /\ "Stop" \in DOMAIN Stages /\ Working /\ Quiet /\ phase = "busy" /\ phase' = "idle"
  BY Begins DEF Answered, Working, store, trouble
<1>2. /\ hooks'[p].event = "Stop" /\ Busy(p)'
      /\ \A q \in Procs : Busy(q)' => q = p
  BY <1>1, Runs DEF Quiet, Busy, Paths
<1>3. file # Null /\ Fits(file, lines[Main], written, prompts)
  BY <1>1, NoPrompting DEF Tracks, FileTracks
<1>4. ~Prompting' /\ Stopping' BY <1>2 DEF Prompting, Stopping
<1>5. FileTracks' BY <1>1, <1>2, <1>3, <1>4 DEF FileTracks
<1> QED BY <1>1, <1>4, <1>5, TracksRun

LEMMA TracksEnd ==
  ASSUME Shape, Calmly, Transcripts, Tracks, NEW p \in Procs, End(p), Fair'
  PROVE  Tracks'
<1>1. /\ Run(p, "SessionEnd", Main, Null) /\ UNCHANGED <<lines, file, messages, written, prompts>>
      /\ "SessionEnd" \in DOMAIN Stages /\ phase \in {"idle", "busy"} /\ phase' = "over"
      /\ file \in SessionStates \cup {Null} /\ lines[Main] \in Seq(Lines)
  BY Begins DEF End, store, Shape, Paths
<1>2. Quiet /\ upset' = upset BY DEF End, Mishap, Fair, trouble
<1>3. /\ hooks'[p].event = "SessionEnd"
      /\ \A q \in Procs : Busy(q)' => q = p
  BY <1>1, <1>2, Runs DEF Quiet, Busy, Paths
<1>4. ~Prompting /\ ~Stopping BY <1>2 DEF Prompting, Stopping, Quiet
<1>5. IF file = Null THEN lines[Main] = <<>> ELSE Fits(file, lines[Main], written, prompts)
  <2>1. CASE file = Null
    <3>1. prompts = 0 BY <1>1, <1>4, <2>1 DEF Calmly, Filed
    <3>2. \A m \in DOMAIN written : ~(written[m] \in 1 .. prompts)
      <4>1. 1 .. 0 = {} OBVIOUS
      <4> QED BY <3>1, <4>1
    <3> QED BY <2>1, <3>2, NothingWritten
  <2>2. CASE file # Null /\ phase = "idle"
    <3>1. Caught(file, lines[Main]) BY <1>4, <2>2 DEF Tracks, FileTracks
    <3> QED BY <1>1, <2>2, <3>1, CaughtFits
  <2>3. CASE file # Null /\ phase = "busy" BY <2>3 DEF Tracks, FileTracks
  <2> QED BY <1>1, <2>1, <2>2, <2>3
<1>6. ~Prompting' BY <1>3 DEF Prompting
<1>7. FileTracks' BY <1>1, <1>3, <1>5, <1>6 DEF FileTracks
<1> QED BY <1>1, <1>2, <1>6, <1>7, TracksRun

\* While Claude Code works, hooks of tools and subagents come and go.
LEMMA TracksTool ==
  ASSUME Shape, Calmly, Tracks, Working, NEW p \in Procs, NEW e \in Tooling, NEW tool,
         Run(p, e, Main, tool), UNCHANGED <<lines, file, messages, written, phase, prompts>>,
         upset \subseteq upset'
  PROVE  Tracks'
<1>1. e \in DOMAIN Stages BY Begins DEF Tooling
<1>2. \A q \in Procs : Busy(q)' => hooks'[q].event \in Tooling
  <2>1. hooks'[p].event = e /\ \A q \in Procs : q # p => hooks'[q] = hooks[q]
    BY <1>1, Runs DEF Paths
  <2> QED BY <2>1, OnlyTooling DEF Busy
<1>3. ~Prompting' BY <1>2 DEF Prompting, Tooling
<1>4. phase = "busy" BY DEF Working
<1>5. FileTracks' BY <1>2, <1>3, <1>4 DEF Tracks, FileTracks, Tooling
<1> QED BY <1>1, <1>3, <1>5, TracksRun

\* An answer is of the prompt in work, and so is the state's turn.
LEMMA FitsAnswer ==
  ASSUME Shape, Transcripts, NEW path \in Paths, Answer(path), NEW s,
         Fits(s, lines[Main], written, prompts), s.turn = prompts
  PROVE  Fits(s, lines'[Main], written', prompts)
<1> DEFINE n == Len(written) + 1
<1>1. /\ written'[n] = prompts /\ \A m \in DOMAIN written : written'[m] = written[m]
  BY AnswerEffect, Zenon
<1>2. \A i \in DOMAIN lines'[Main] : i \in DOMAIN lines[Main] \/ lines'[Main][i].msg = n
  BY AnswerEffect DEF Paths
<1>3. \A i \in DOMAIN lines[Main] : lines'[Main][i] = lines[Main][i] /\ lines[Main][i].msg \in DOMAIN written
  <2>1. \A i \in 1 .. Len(lines[Main]) : lines'[Main][i] = lines[Main][i]
    BY AnswerEffect DEF Paths
  <2>2. DOMAIN lines[Main] = 1 .. Len(lines[Main]) BY LenProperties DEF Shape, Paths
  <2> QED BY <2>1, <2>2 DEF Transcripts, Paths
<1> HIDE DEF n
<1> QED BY <1>1, <1>2, <1>3 DEF Fits

LEMMA TracksAnswer ==
  ASSUME Shape, Calmly, Transcripts, Tracks, NEW path \in Paths, Answer(path)
  PROVE  Tracks'
<1>1. Working /\ upset \subseteq upset' /\ UNCHANGED <<file, hooks, messages, phase, prompts>>
  BY AnswerEffect DEF store
<1>2. \A m \in DOMAIN written : written'[m] = written[m]
  BY AnswerEffect, Zenon
<1>3. phase = "busy" /\ ~Prompting /\ file # Null /\ Current(file) BY <1>1, NoPrompting
<1>4. ~Prompting' BY <1>1, <1>3 DEF Prompting, Busy
<1>5. \A q \in Procs : Busy(q)' => Busy(q) /\ hooks[q].event \in Tooling
  BY <1>1, OnlyTooling DEF Busy
<1>6. FileTracks'
  <2>1. Fits(file, lines[Main], written, prompts) BY <1>3 DEF Tracks, FileTracks
  <2>2. Fits(file, lines'[Main], written', prompts) BY <1>3, <2>1, FitsAnswer DEF Current
  <2> QED BY <1>1, <1>3, <1>4, <1>5, <2>2 DEF FileTracks, Tooling
<1>7. ASSUME NEW q \in Procs, Busy(q)' PROVE HookTracks(q)'
  <2>1. /\ Busy(q) /\ HookTracks(q) /\ hooks[q].event \in Tooling /\ Knows(q)
        /\ Before(q)' <=> Before(q)
    BY <1>1, <1>5, <1>7 DEF Tracks, Before, Calmly, Filed
  <2>2. ASSUME ~Before(q) PROVE Fits(hooks[q].state, lines'[Main], written', prompts)
    <3>1. Fits(hooks[q].state, lines[Main], written, prompts) BY <2>1, <2>2 DEF HookTracks
    <3>2. Head(hooks[q].todo) # "read" BY <2>1, <2>2, BeforeReading DEF Tooling
    <3>3. hooks[q].state.turn = prompts BY <2>1, <3>2 DEF Knows, Current
    <3> QED BY <3>1, <3>3, FitsAnswer
  <2>3. \A j \in DOMAIN hooks[q].entries : hooks[q].entries[j] \in DOMAIN written
    BY <2>1 DEF Transcripts
  <2> QED BY <1>1, <1>2, <2>1, <2>2, <2>3 DEF HookTracks, Tooling
<1>8. Rightly' BY <1>1, <1>2 DEF Tracks, Rightly, Transcripts
<1> QED BY <1>4, <1>6, <1>7, <1>8 DEF Tracks

LEMMA TracksHarness ==
  ASSUME Shape, Shape', Calm => Calmly, Scans, Fair => Tracks, Harness, Fair'
  PROVE  Tracks'
<1>1. upset \subseteq upset'
  BY DEF Harness, BeginUnseen, Subagent, Interrupt, Begin, Prompt, Answered, End, ToolBegins, ToolEnds,
         SubagentEnds, Answer, AnswerComplete, Rotate, Overlap, Mishap, trouble
<1>2. Calmly /\ Tracks /\ Transcripts BY <1>1, FairBefore, FairIsCalm DEF Scans
<1>3. CASE BeginUnseen
  <2>1. file = Null /\ Quiet BY <1>2, <1>3 DEF BeginUnseen, Calmly, Who
  <2>2. UNCHANGED <<lines, file, hooks, messages, written, prompts, upset>>
    BY <1>3 DEF BeginUnseen, store, trouble
  <2>3. \A q \in Procs : ~Busy(q)' BY <2>1, <2>2 DEF Quiet, Busy
  <2>4. FileTracks' /\ ~Prompting' BY <2>1, <2>2, <2>3 DEF FileTracks, Prompting
  <2>5. Rightly' BY <1>2, <2>2 DEF Tracks, Rightly
  <2> QED BY <2>3, <2>4, <2>5 DEF Tracks
<1>4. CASE Subagent \/ Interrupt
  <2>1. "detour" \in upset' \/ "interrupted" \in upset'
    BY <1>4 DEF Subagent, Interrupt, Mishap
  <2> QED BY <2>1 DEF Fair
<1>5. CASE \E p \in Procs : Begin(p) \/ Prompt(p) \/ Answered(p) \/ End(p)
  BY <1>2, <1>5, TracksBegin, TracksPrompt, TracksAnswered, TracksEnd
<1>6. CASE \E p \in Procs, t \in Tools : ToolBegins(p, t) \/ ToolEnds(p, t)
  <2>1. PICK p \in Procs, t \in Tools : ToolBegins(p, t) \/ ToolEnds(p, t) BY <1>6
  <2>2. PICK e \in Tooling : Run(p, e, Main, t) BY <2>1 DEF ToolBegins, ToolEnds, Tooling
  <2>3. Working /\ UNCHANGED <<lines, file, messages, written, phase, prompts>>
    BY <2>1 DEF ToolBegins, ToolEnds, store, claude
  <2> QED BY <1>1, <1>2, <2>2, <2>3, TracksTool
<1>7. CASE \E p \in Procs, path \in Paths : SubagentEnds(p, path)
  <2>1. PICK p \in Procs, path \in Paths : SubagentEnds(p, path) BY <1>7
  <2>2. path = Main BY <1>1, <2>1 DEF SubagentEnds, Available, Fair
  <2>3. /\ Working /\ UNCHANGED <<lines, file, messages, written, phase, prompts>>
        /\ Run(p, "SubagentStop", Main, Null) /\ "SubagentStop" \in Tooling
    BY <2>1, <2>2 DEF SubagentEnds, store, claude, Tooling
  <2> QED BY <1>1, <1>2, <2>3, TracksTool
<1>8. CASE \E path \in Paths : Answer(path)
  BY <1>2, <1>8, TracksAnswer
<1>9. CASE \E path \in Paths : AnswerComplete(path) \/ Rotate(path)
  <2>1. PICK path \in Paths : AnswerComplete(path) \/ Rotate(path) BY <1>9
  <2>2. UNCHANGED <<file, hooks, messages, written, phase, prompts>>
    BY <2>1, CompleteEffect, RotateEffect DEF store, claude
  <2>3. lines[Main] \in Seq(Lines) /\ Len(lines[Main]) \in Nat BY LenProperties DEF Shape, Paths
  <2>4. /\ Len(lines'[Main]) <= Len(lines[Main]) /\ DOMAIN lines'[Main] \subseteq DOMAIN lines[Main]
        /\ \A i \in DOMAIN lines'[Main] : lines'[Main][i].msg = lines[Main][i].msg
    <3>1. CASE AnswerComplete(path) BY <2>3, <3>1, CompleteEffect DEF Paths
    <3>2. CASE Rotate(path) BY <3>2, RotateEffect DEF Paths
    <3> QED BY <2>1, <3>1, <3>2
  <2> QED BY <1>1, <1>2, <2>2, <2>4, TracksLines
<1> QED BY <1>3, <1>4, <1>5, <1>6, <1>7, <1>8, <1>9 DEF Harness

LEMMA InitScanInv == Init => ScanInv
<1> SUFFICES ASSUME Init PROVE ScanInv OBVIOUS
<1>1. \A q \in Procs : ~Busy(q) BY DEF Init, Busy, Idle
<1>2. Tracks BY <1>1 DEF Init, Tracks, FileTracks, Rightly, Prompting
<1> QED BY <1>2, InitScans DEF ScanInv, Scans

LEMMA NextScanInv == IInv /\ ScanInv /\ [Next]_vars => ScanInv'
<1> SUFFICES ASSUME IInv, ScanInv, [Next]_vars PROVE ScanInv' OBVIOUS
<1>1. Shape /\ Shape' /\ (Calm => Calmly) BY NextIInv DEF IInv, Calmly
<1>2. Scans /\ (Fair => Tracks) BY DEF ScanInv, Scans
<1>3. Scans' BY <1>1, <1>2, NextScans
<1>4. ASSUME Fair' PROVE Tracks'
  <2>1. CASE Harness BY <1>1, <1>2, <1>4, <2>1, TracksHarness
  <2>2. ASSUME NEW p \in Procs, Step(p) PROVE Tracks' BY <1>1, <1>2, <1>4, <2>2, TracksStep
  <2>3. CASE UNCHANGED vars
    <3>1. UNCHANGED <<lines, file, hooks, messages, written, phase, prompts, upset>>
      BY <2>3 DEF vars, store, claude, trouble
    <3>2. Tracks BY <1>2, <1>4, <3>1, FairBefore
    <3>3. Len(lines[Main]) \in Nat BY <1>1, LenProperties DEF Shape, Paths
    <3> QED BY <1>1, <3>1, <3>2, <3>3, TracksLines
  <2> QED BY <2>1, <2>2, <2>3 DEF Next
<1> QED BY <1>3, <1>4 DEF ScanInv, Scans

-----------------------------------------------------------------------------
(* The theorems about scans                                                *)

\* What is written in a transcript is recorded, in the hands of a hook, or
\* still ahead of every offset, and the turn a hook gives it is the one it was
\* written in (drainTranscript of drain.ts and readTranscriptFrom).
THEOREM ScansInvariant == Spec => [](IInv /\ ScanInv)
<1>1. Init => IInv /\ ScanInv BY InitIInv, InitScanInv
<1>2. IInv /\ ScanInv /\ [Next]_vars => (IInv /\ ScanInv)' BY NextIInv, NextScanInv
<1> QED BY <1>1, <1>2, PTL DEF Spec

\* The state file never holds more turns than there were prompts, and no row
\* is made of anything but a prompt, a tool or a response of the session.
THEOREM HooksTypeOK == Spec => []TypeOK
<1>1. ASSUME IInv, ScanInv PROVE TypeOK
  <2>1. Shape /\ Transcripts /\ Counted BY <1>1 DEF IInv, ScanInv
  <2>2. Numbers <= MaxPrompts /\ Numbers \in Nat
    <3>1. Numbers \in Nat /\ Numbers <= prompts BY <2>1, NumbersNat
    <3>2. prompts \in Nat /\ prompts <= MaxPrompts /\ MaxPrompts \in Nat
      BY <2>1, BoundsAssumption DEF Transcripts, Shape
    <3> QED BY <3>1, <3>2
  <2>3. ASSUME NEW s \in SessionStates, Bounded(s, Numbers) PROVE s \in States
    <3>1. s.turnIndex \in 0 .. MaxPrompts /\ s.turn \in TurnIds \cup {Null} /\ s.offset \in 0 .. MaxMessages
      BY <2>2, <2>3, BoundsAssumption DEF Bounded, TurnIds, SessionStates
    <3> QED BY <2>3, <3>1 DEF SessionStates, States, Paths
  <2>4. file \in States \cup {Null} BY <2>1, <2>3 DEF Shape, Counted
  <2>5. DOMAIN turns \subseteq TurnIds
    <3>1. prompts \in Nat /\ prompts <= MaxPrompts BY <2>1 DEF Shape, Transcripts
    <3>2. 1 .. prompts \subseteq 1 .. MaxPrompts BY <3>1, BoundsAssumption
    <3> QED BY <2>1, <3>2 DEF Counted, TurnIds
  <2>6. ASSUME NEW p \in Procs, Busy(p)
        PROVE  hooks[p].event \in DOMAIN Dispatch /\ hooks[p].state \in States /\ hooks[p].todo # <<>>
    <3>1. DOMAIN Dispatch = DOMAIN Stages BY DEF Dispatch, Stages
    <3>2. Hook(p) /\ Bounded(hooks[p].state, Numbers) BY <2>1, <2>6 DEF Shape, Counted
    <3> QED BY <2>3, <2>6, <3>1, <3>2 DEF Hook, Busy
  <2> QED BY <2>1, <2>4, <2>5, <2>6 DEF TypeOK, Counted, Transcripts
<1> QED BY <1>1, ScansInvariant, PTL

\* Nothing below the offset of the state file is lost, whichever hooks overlap
\* or are abandoned: an offset reaches the file only once what lies below it has
\* been recorded (the order of drainTranscript's calls and of writeJsonState).
THEOREM ScansSkipNothing == Spec => []NothingSkipped
<1>1. ASSUME IInv, ScanInv PROVE NothingSkipped
  <2>1. Shape /\ Skipless BY <1>1 DEF IInv, ScanInv
  <2> SUFFICES ASSUME "rotated" \notin upset, file # Null, file.path # Null
               PROVE  Recorded(file.path, file.offset)
    BY DEF NothingSkipped
  <2>2. \A i \in 1 .. file.offset : lines[file.path][i].msg \in Known
    BY <2>1 DEF Skipless, Held
  <2> QED BY <2>2 DEF Recorded, Known
<1> QED BY <1>1, ScansInvariant, PTL

\* A session that is closed has all of its transcript, whatever the hooks
\* before did or failed to (session-end.ts scans before it closes).
THEOREM EndsComplete == Spec => []EndComplete
<1>1. ASSUME IInv, ScanInv PROVE EndComplete
  <2> SUFFICES ASSUME NEW p \in Procs, Doing(p, "delete"), upset \cap {"rotated", "unreadable"} = {},
                      NEW i \in DOMAIN lines[Main]
               PROVE  lines[Main][i].msg \in DOMAIN messages \cup missed
    BY DEF EndComplete
  <2>1. /\ Shape /\ EndSeen /\ Busy(p) /\ Head(hooks[p].todo) = "delete" /\ hooks[p].entries = <<>>
    BY <1>1 DEF IInv, ScanInv, Doing
  <2>2. Hook(p) BY <2>1 DEF Shape
  <2>3. hooks[p].event = "SessionEnd" BY <2>1, <2>2, Handlers DEF Hook
  <2>4. lines[Main][i].msg \in Known \cup Pending(p) BY <2>1, <2>3 DEF EndSeen, AfterScan
  <2> QED BY <2>1, <2>4, NonePending DEF Known
<1> QED BY <1>1, ScansInvariant, PTL

\* A message's row has the turn the message was written in, or none after a
\* rotation, and a tool's the turn it was called in, however hooks overlap.
THEOREM MessagesKeepTurn == Spec => []Attributed
<1>1. ASSUME IInv, ScanInv PROVE Attributed
  <2>1. upset \subseteq {"overlapped", "rotated"} =>
          \A m \in DOMAIN messages :
            messages[m] = written[m] \/ ("rotated" \in upset /\ messages[m] = Null)
    BY <1>1 DEF ScanInv, Fair, Tracks, Rightly
  <2>2. upset \subseteq {"overlapped", "rotated", "unreadable", "detour"} => Calm BY DEF Calm
  <2>3. Calm => \A t \in DOMAIN calls : calls[t].turn = issued[t] BY <1>1 DEF IInv, Issued
  <2> QED BY <2>1, <2>2, <2>3 DEF Attributed
<1> QED BY <1>1, ScansInvariant, PTL

=============================================================================
