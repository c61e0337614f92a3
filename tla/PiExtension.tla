----------------------------- MODULE PiExtension -----------------------------
(***************************************************************************)
(* The Pi writer: an extension inside Pi's own process.  Its handlers keep *)
(* their state in maps and put records on a queue that appends them, one   *)
(* at a time, to the spool file of this load of the extension; a shutdown  *)
(* of the session closes the writer, and the file is renamed for the       *)
(* daemon once the queue is empty.                                         *)
(*                                                                         *)
(* The process has one thread.  A record call resolves at once, so a       *)
(* handler is one step, except where it waits for something outside: the   *)
(* message handler for the pricing module, the session handler (without    *)
(* being waited for) for git.  Pi loads the extension anew for a session;  *)
(* the maps belong to the module and outlive a load.                       *)
(*                                                                         *)
(* Costs, tokens, versions and the harness record are left out.            *)
(***************************************************************************)
EXTENDS Integers, Sequences, Functions

CONSTANTS
  Files,      \* the session files Pi may open
  Ephemeral,  \* the key of a session without a file (EPHEMERAL_KEY)
  Tools,      \* tool calls
  Models,     \* models
  None,
  Plans,      \* the sessions Pi may open, one load after the other, by key
  MaxLoads, MaxEvents, MaxFaults  \* bounds

ASSUME KeysAssumption == Ephemeral \notin Files
ASSUME BoundsAssumption == {MaxLoads, MaxEvents, MaxFaults} \subseteq Nat

Keys == Files \cup {Ephemeral}

ASSUME PlansAssumption == \A plan \in Plans : plan \in Seq(Keys) /\ Len(plan) <= MaxLoads

\* `ephemeral:${cwd}:${now}` names a session that has no file, one for each load.
Sessions == (Files \X {0}) \cup ({Ephemeral} \X (1 .. MaxLoads))

\* The values of the maps.
Registered == [id : Sessions, git : BOOLEAN]
InFlight == [id : Sessions \X Nat, turnIndex : Nat, messageCounter : Nat]

ASSUME NoneAssumption == None \notin Nat \cup Registered \cup InFlight

VARIABLES
  registry,      \* key -> the session registered for it, or None
  activeTurns,   \* session -> the turn in flight, or None
  activeModels,  \* session -> the model last chosen or used, or None
  activeTools,   \* tool calls that have started
  pricing,       \* whether the pricing module has loaded (or failed to)
  waiting,       \* for each load, what its handlers that wait for it will record
  captures,      \* the git captures that run
  writers,       \* one writer for each load
  pi,            \* what Pi is doing
  ended,         \* the messages that ended in a registered session (history)
  closing,       \* the session ends recorded, with what waited then (history)
  faults         \* appends and renames that failed

maps == <<registry, activeTurns, activeModels, activeTools>>
history == <<ended, closing>>
vars == <<maps, pricing, waiting, captures, writers, pi, history, faults>>

-----------------------------------------------------------------------------
(* The writer                                                              *)

Writer == [closed |-> FALSE, queue |-> <<>>, file |-> <<>>, state |-> "active",
           lost |-> FALSE]
Loaded == Len(writers)

\* Mutant: A writer that closes before the session's end is recorded.
EnqueueBeforeEnd(w, r) ==
  IF w.closed \/ (r.type = "session" /\ r.end) THEN w ELSE [w EXCEPT !.queue = Append(@, r)]

\* Mutant: An append that does not wait for those before it.
EnqueueUnchained(w, r) ==
  IF w.closed THEN w ELSE [w EXCEPT !.queue = <<r>> \o @]

\* enqueue: a record that comes after close is dropped.
Enqueue(w, r) ==
  IF w.closed THEN w ELSE [w EXCEPT !.queue = Append(@, r)]

Record(n, r) == writers' = [writers EXCEPT ![n] = Enqueue(@, r)]

Close(w) == [w EXCEPT !.closed = TRUE]

SessionRecord(s, end) == [type |-> "session", session |-> s, end |-> end]
TurnRecord(s, t, m, end) ==
  [type |-> "turn", session |-> s, turn |-> t, model |-> m, end |-> end]
MessageRecord(s, t, id, n) ==
  [type |-> "message", session |-> s, turn |-> t, id |-> id, message |-> n]
ToolRecord(s, t, c) == [type |-> "tool", session |-> s, turn |-> t, id |-> c]

\* The promise chain of the queue: the next record, once the last is written.
AppendNext(n) ==
  /\ pi.alive /\ writers[n].queue # <<>>
  /\ writers' = [writers EXCEPT ![n].queue = Tail(@),
                                ![n].file = Append(@, Head(writers[n].queue))]
  /\ UNCHANGED <<maps, pricing, waiting, captures, pi, history, faults>>

\* A failed write is logged once, and the next record is tried.
AppendFails(n) ==
  /\ pi.alive /\ writers[n].queue # <<>> /\ faults < MaxFaults
  /\ faults' = faults + 1
  /\ writers' = [writers EXCEPT ![n].queue = Tail(@), ![n].lost = TRUE]
  /\ UNCHANGED <<maps, pricing, waiting, captures, pi, history>>

\* rotate, once close has waited for the queue; without a file it does nothing.
Rotate(n) ==
  /\ pi.alive /\ writers[n].closed /\ writers[n].queue = <<>>
  /\ writers[n].state = "active"
  /\ writers' = [writers EXCEPT ![n].state = IF writers[n].file = <<>> THEN "none" ELSE "closed"]
  /\ UNCHANGED <<maps, pricing, waiting, captures, pi, history, faults>>

\* An error of rotate is logged, and the file keeps its name.
RotateFails(n) ==
  /\ pi.alive /\ writers[n].closed /\ writers[n].queue = <<>>
  /\ writers[n].state = "active" /\ writers[n].file # <<>> /\ faults < MaxFaults
  /\ faults' = faults + 1
  /\ writers' = [writers EXCEPT ![n].state = "left"]
  /\ UNCHANGED <<maps, pricing, waiting, captures, pi, history>>

-----------------------------------------------------------------------------
(* Sessions                                                                *)

HarnessSessionId(key) == IF key = Ephemeral THEN <<key, Loaded>> ELSE <<key, 0>>

Session(key) == registry[key]
\* Mutant: A snapshot that registers the session again after its shutdown.
PatchedAlways(key) == IF registry[key] = None THEN [git |-> TRUE] ELSE [registry[key] EXCEPT !.git = TRUE]
Patched(key) == IF registry[key] = None THEN None ELSE [registry[key] EXCEPT !.git = TRUE]

SessionStart(repository) ==
  /\ pi.alive /\ pi.loaded /\ ~pi.started
  /\ LET s == HarnessSessionId(pi.key) IN
     /\ registry' = [registry EXCEPT ![pi.key] = [id |-> s, git |-> FALSE]]
     /\ captures' = IF repository
          THEN captures \cup {[key |-> pi.key, session |-> s, writer |-> Loaded]}
          ELSE captures
     /\ Record(Loaded, SessionRecord(s, FALSE))
  /\ pi' = [pi EXCEPT !.started = TRUE]
  /\ UNCHANGED <<activeTurns, activeModels, activeTools, pricing, waiting, history, faults>>

\* captureRepoSnapshot has found a repository.
GitCaptured(c) ==
  /\ pi.alive
  /\ captures' = captures \ {c}
  /\ registry' = [registry EXCEPT ![c.key] = Patched(c.key)]
  /\ Record(c.writer, SessionRecord(c.session, FALSE))
  /\ UNCHANGED <<activeTurns, activeModels, activeTools, pricing, waiting, pi, history, faults>>

\* The entrypoint's own handler comes after those of the hooks.
SessionShutdown ==
  /\ pi.alive /\ pi.started
  /\ LET s == Session(pi.key) IN
     IF s = None
       THEN /\ writers' = [writers EXCEPT ![Loaded] = Close(@)]
            /\ UNCHANGED <<maps, history>>
       ELSE /\ writers' = [writers EXCEPT ![Loaded] = Close(Enqueue(@, SessionRecord(s.id, TRUE)))]
            /\ activeTurns' = [activeTurns EXCEPT ![s.id] = None]
            /\ activeModels' = [activeModels EXCEPT ![s.id] = None]
            /\ registry' = [registry EXCEPT ![pi.key] = None]
            /\ closing' = Append(closing, [session |-> s.id, writer |-> Loaded,
                                           late |-> {r.message : r \in Range(waiting[Loaded])}])
            /\ UNCHANGED <<activeTools, ended>>
  /\ pi' = [pi EXCEPT !.loaded = FALSE, !.started = FALSE, !.turn = None]
  /\ UNCHANGED <<pricing, waiting, captures, faults>>

ModelSelect(m) ==
  /\ pi.alive /\ pi.started /\ pi.events < MaxEvents
  /\ Session(pi.key) # None /\ activeModels[Session(pi.key).id] # m
  /\ activeModels' = [activeModels EXCEPT ![Session(pi.key).id] = m]
  /\ pi' = [pi EXCEPT !.events = @ + 1]
  /\ UNCHANGED <<registry, activeTurns, activeTools, pricing, waiting, captures, writers,
                 history, faults>>

-----------------------------------------------------------------------------
(* Turns, messages and tools                                               *)

HarnessTurnId(s, i) == <<s, i>>
SynthesizedId(s, i, n) == <<s, i, n>>
TurnOf(s) == IF activeTurns[s] = None THEN None ELSE activeTurns[s].id

TurnStart ==
  /\ pi.alive /\ pi.started /\ pi.turn = None /\ pi.events < MaxEvents
  /\ pi' = [pi EXCEPT !.turn = pi.turns[pi.key], !.turns[pi.key] = @ + 1, !.events = @ + 1]
  /\ LET s == Session(pi.key).id
         t == HarnessTurnId(s, pi'.turn) IN
     /\ activeTurns' = [activeTurns EXCEPT ![s] =
          [id |-> t, turnIndex |-> pi'.turn, messageCounter |-> 0]]
     /\ Record(Loaded, TurnRecord(s, t, activeModels[s], FALSE))
  /\ UNCHANGED <<registry, activeModels, activeTools, pricing, waiting, captures, history, faults>>

TurnEnd ==
  /\ pi.alive /\ pi.started /\ pi.turn # None
  /\ pi' = [pi EXCEPT !.turn = None]
  /\ LET s == Session(pi.key).id IN
     /\ activeTurns[s] # None
     /\ Record(Loaded, TurnRecord(s, TurnOf(s), activeModels[s], TRUE))
     /\ activeTurns' = [activeTurns EXCEPT ![s] = None]
  /\ UNCHANGED <<registry, activeModels, activeTools, pricing, waiting, captures, history, faults>>

\* The handler before its wait: the id, the turn and the model are fixed here.
HarnessMessageId(s, n, responded) ==
  IF responded THEN <<"response", n>>
  ELSE IF activeTurns[s] = None THEN SynthesizedId(s, 0, 0)
  ELSE SynthesizedId(s, activeTurns[s].turnIndex, activeTurns[s].messageCounter)

\* Mutant: A turn that does not count its messages.
Uncounted(t) == t
Counted(t) == [t EXCEPT !.messageCounter = @ + 1]

\* Pi has priced the message, or it has not and the handler needs the module.
MessageEnd(responded, priced, m) ==
  /\ pi.alive /\ pi.started /\ pi.turn # None /\ pi.events < MaxEvents
  /\ pi' = [pi EXCEPT !.events = @ + 1]
  /\ LET s == Session(pi.key).id
         n == Len(ended) + 1
         r == MessageRecord(s, TurnOf(s), HarnessMessageId(s, n, responded), n) IN
     /\ activeModels' = [activeModels EXCEPT ![s] = m]
     /\ activeTurns' = [activeTurns EXCEPT ![s] = IF @ = None THEN None ELSE Counted(@)]
     /\ ended' = Append(ended, [session |-> s, turn |-> HarnessTurnId(s, pi.turn), model |-> m,
                                writer |-> Loaded])
     /\ IF priced \/ pricing
          THEN Record(Loaded, r) /\ UNCHANGED waiting
          ELSE /\ waiting' = [waiting EXCEPT ![Loaded] = Append(@, r)]
               /\ UNCHANGED writers
  /\ UNCHANGED <<registry, activeTools, pricing, captures, closing, faults>>

\* Mutant: A handler that looks up the turn after its wait.
ResumedAnew(r) == [r EXCEPT !.turn = TurnOf(r.session)]

\* What a handler that was to record r records once it resumes.
Resumed(r) == r

Resumptions(n) == [i \in DOMAIN waiting[n] |-> Resumed(waiting[n][i])]

\* _pricingLoadPromise settles: every handler that waits resumes, in order.
PricingLoads ==
  /\ pi.alive /\ ~pricing
  /\ pricing' = TRUE
  /\ writers' = [n \in DOMAIN writers |->
       IF writers[n].closed THEN writers[n]
       ELSE [writers[n] EXCEPT !.queue = @ \o Resumptions(n)]]
  /\ waiting' = [n \in DOMAIN waiting |-> <<>>]
  /\ UNCHANGED <<maps, captures, pi, history, faults>>

ToolExecutionStart(c) ==
  /\ pi.alive /\ pi.started /\ pi.turn # None /\ c \in pi.tools
  /\ pi.events < MaxEvents
  /\ pi' = [pi EXCEPT !.tools = @ \ {c}, !.events = @ + 1]
  /\ activeTools' = activeTools \cup {c}
  /\ UNCHANGED <<registry, activeTurns, activeModels, pricing, waiting, captures, writers,
                 history, faults>>

ToolExecutionEnd(c) ==
  /\ pi.alive /\ pi.started /\ pi.turn # None
  /\ c \in activeTools
  /\ activeTools' = activeTools \ {c}
  /\ LET s == Session(pi.key).id IN Record(Loaded, ToolRecord(s, TurnOf(s), c))
  /\ UNCHANGED <<registry, activeTurns, activeModels, pricing, waiting, captures, pi,
                 history, faults>>

-----------------------------------------------------------------------------
(* Pi                                                                      *)

Forgotten ==
  /\ registry' = [k \in Keys |-> None]
  /\ activeTurns' = [s \in Sessions |-> None]
  /\ activeModels' = [s \in Sessions |-> None]
  /\ activeTools' = {}

\* The default export: a new writer, with a file of its own.  Pi waits for
\* the handlers of a shutdown, and so for the rename, before the next load.
Load(key) ==
  /\ pi.alive /\ ~pi.loaded /\ Loaded < Len(pi.plan) /\ key = pi.plan[Loaded + 1]
  /\ \A w \in Range(writers) : w.state # "active"
  /\ writers' = Append(writers, Writer)
  /\ waiting' = Append(waiting, <<>>)
  /\ pi' = [pi EXCEPT !.loaded = TRUE, !.key = key]
  /\ UNCHANGED <<maps, pricing, captures, history, faults>>

\* What was in memory is gone: the maps, the waits and the queues.
Killed ==
  /\ pi.alive /\ faults < MaxFaults
  /\ faults' = faults + 1
  /\ pi' = [pi EXCEPT !.alive = FALSE]
  /\ Forgotten
  /\ waiting' = [n \in DOMAIN waiting |-> <<>>]
  /\ captures' = {}
  /\ writers' = [n \in DOMAIN writers |-> [writers[n] EXCEPT !.queue = <<>>]]
  /\ UNCHANGED <<pricing, history>>

Init ==
  /\ registry = [k \in Keys |-> None]
  /\ activeTurns = [s \in Sessions |-> None]
  /\ activeModels = [s \in Sessions |-> None]
  /\ activeTools = {}
  /\ pricing = FALSE
  /\ waiting = <<>>
  /\ captures = {}
  /\ writers = <<>>
  /\ \E plan \in Plans : pi = [plan |-> plan, alive |-> TRUE, loaded |-> FALSE, started |-> FALSE, key |-> Ephemeral,
       turn |-> None, turns |-> [k \in Keys |-> 0], tools |-> Tools, events |-> 0]
  /\ ended = <<>>
  /\ closing = <<>>
  /\ faults = 0

Next ==
  \/ \E n \in DOMAIN writers :
       AppendNext(n) \/ AppendFails(n) \/ Rotate(n) \/ RotateFails(n)
  \/ \E repository \in BOOLEAN : SessionStart(repository)
  \/ \E c \in captures : GitCaptured(c)
  \/ SessionShutdown
  \/ \E m \in Models : ModelSelect(m)
  \/ TurnStart \/ TurnEnd
  \/ \E responded, priced \in BOOLEAN, m \in Models : MessageEnd(responded, priced, m)
  \/ PricingLoads
  \/ \E c \in Tools : ToolExecutionStart(c) \/ ToolExecutionEnd(c)
  \/ \E k \in Keys : Load(k)
  \/ Killed

Spec == Init /\ [][Next]_vars

-----------------------------------------------------------------------------
(* Properties                                                              *)

\* Every variable keeps its shape; what a late snapshot finds is registered.
TypeOK ==
  /\ registry \in [Keys -> Registered \cup {None}]
  /\ activeTurns \in [Sessions -> InFlight \cup {None}]
  /\ \A s \in Sessions : activeTurns[s] # None =>
       activeTurns[s].turnIndex <= MaxEvents /\ activeTurns[s].messageCounter <= MaxEvents
  /\ activeModels \in [Sessions -> Models \cup {None}]
  /\ activeTools \subseteq Tools
  /\ pricing \in BOOLEAN
  /\ captures \subseteq [key : Keys, session : Sessions, writer : DOMAIN writers]
  /\ \A w \in Range(writers) :
       w.closed \in BOOLEAN /\ w.lost \in BOOLEAN /\ w.state \in {"active", "none", "closed", "left"}
  /\ faults \in 0 .. MaxFaults

\* The session of a record, and its turn if it names one, are among those above.
HasParents(r, above) ==
  r.type # "session" =>
    /\ \E q \in above : q.type = "session" /\ q.session = r.session
    /\ (r.type # "turn" /\ r.turn # None) =>
         \E q \in above : q.type = "turn" /\ q.turn = r.turn

\* The daemon resolves ids by the records above them in the same file
\* (cli-writer.ts, "Parent records always appear before children"): unless a
\* write failed, a record's session and turn come before it, though a message
\* is recorded after a wait and the session anew when git answers.
ParentsFirst ==
  \A w \in Range(writers) : ~w.lost =>
    \A i \in DOMAIN w.file : HasParents(w.file[i], {w.file[j] : j \in 1 .. i - 1})

\* What a rotated file holds is all the daemon will ever see of the session:
\* its end, and every message that ended in it and did not still wait for the
\* pricing module when it closed.
NothingLeftOut ==
  \A c \in Range(closing) :
    (writers[c.writer].state = "closed" /\ ~writers[c.writer].lost) =>
      LET file == Range(writers[c.writer].file) IN
      /\ SessionRecord(c.session, TRUE) \in file
      /\ \A n \in DOMAIN ended : (ended[n].writer = c.writer /\ n \notin c.late) =>
           \E r \in file : r.type = "message" /\ r.message = n

\* Whichever way a message got its id, in whatever load of a session: it is
\* no other message's id, or the drain would merge their rows.
MessagesApart ==
  LET Messages(w) == {r \in Range(w.queue) \cup Range(w.file) : r.type = "message"}
      all == UNION {Messages(w) : w \in Range(writers)} IN
  \A r, q \in all : r.id = q.id => r.message = q.message

\* A message is recorded for the turn it ended in, even when that turn has
\* ended, or another has begun, before the pricing module has loaded.
Attributed ==
  \A w \in Range(writers) : \A r \in Range(w.queue) \cup Range(w.file) :
    r.type = "message" =>
      /\ r.turn = ended[r.message].turn
      /\ r.session = ended[r.message].session

=============================================================================
