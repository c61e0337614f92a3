--------------------------- MODULE AnalyticsWriter ---------------------------
(***************************************************************************)
(* The record calls of a harness, from the payloads and ids its hooks pass *)
(* on to the rows they end up as.  A call writes to the database, or, when *)
(* that is busy, to the spool, and returns an id the harness keeps and     *)
(* hands to later calls, perhaps in another process.  Closed spool files   *)
(* are drained in any order, record by record in one transaction each.     *)
(*                                                                         *)
(* SpoolPipeline has the files and processes; here a spool file is its     *)
(* sequence of records.                                                    *)
(***************************************************************************)
EXTENDS DrainEngine, Sequences, FiniteSets

CONSTANTS
  Reports,    \* what a harness may report: the sets of record calls it means
              \* to make, in its own words
  MaxAgain    \* bound on the files that wait to be drained again

ASSUME MaxAgainAssumption == MaxAgain \in Nat

Calls == UNION Reports

\* What a call is about: the ids that name it when nothing is spooled.
Meant(c) == SessionRef(FALSE, c.harness, c.session)
MeantTurn(c) == TurnRef(FALSE, Meant(c), c.turn)
MeantPlan(c) == PlanRef(FALSE, c.harness, c.plan)

\* What it says, apart from its place in the report.
Said(c) ==
  CASE c.type = "harness" -> <<c.version>>
    [] c.type = "session" -> <<c.session, c.cwd, c.started, c.ended>>
    [] c.type = "turn"    -> <<c.session, c.turn, c.started, c.ended>>
    [] c.type = "plan"    -> <<c.plan, c.used>>
    [] c.type = "message" -> <<c.session, c.turn, c.plan, c.message, c.tokens>>
    [] c.type = "tool"    -> <<c.session, c.turn, c.tool, c.ended>>
    [] c.type = "raw"     -> <<c.about>>

\* What is reported of one thing agrees, or the order of the reports would
\* decide: a start or an end that is reported again is the same, a message or a
\* tool call has one session and at most one turn.  And nothing is said twice,
\* for a spool file is told from others by its records.
Agree(x, y, unknown) == x = unknown \/ y = unknown \/ x = y

Compatible(c, d) ==
  /\ c.harness = d.harness
  /\ c.type = d.type /\ Said(c) = Said(d) => c = d
  /\ c.type = "session" /\ d.type = "session" /\ c.session = d.session =>
       Agree(c.started, d.started, 0) /\ Agree(c.ended, d.ended, Null)
  /\ c.type = "turn" /\ d.type = "turn" /\ c.session = d.session /\ c.turn = d.turn =>
       Agree(c.started, d.started, 0) /\ Agree(c.ended, d.ended, Null)
  /\ c.type = "message" /\ d.type = "message" /\ c.message = d.message =>
       c.about = d.about /\ c.session = d.session /\ Agree(c.turn, d.turn, Null)
  /\ c.type = "tool" /\ d.type = "tool" /\ c.tool = d.tool =>
       /\ c.about = d.about /\ c.session = d.session
       /\ Agree(c.turn, d.turn, Null) /\ Agree(c.ended, d.ended, Null)

ASSUME ReportsAssumption ==
  /\ \A c \in Calls : c.type \in Types
  /\ \A report \in Reports : \A c, d \in report : Compatible(c, d)

\* Null is no reference.
ASSUME NullAssumption ==
  \A c \in Calls, b, spool \in BOOLEAN :
    /\ c.type \in Children =>
         TurnRef(spool, SessionRef(b, c.harness, c.session), c.turn) # Null
    /\ c.type \in {"message", "plan"} => PlanRef(spool, c.harness, c.plan) # Null

VARIABLES
  db,      \* the committed tables
  ids,     \* the ids the harness has been returned, by what they identify
  made,    \* the calls made
  lost,    \* those that threw
  active,  \* the records of the active spool file
  queue,   \* the closed spool files
  failed,  \* the quarantined ones
  tx,      \* the file being drained and its open transaction
  again    \* the closed files that were committed already

harnessVars == <<ids, made, lost>>
spoolVars == <<active, queue, failed>>
vars == <<db, harnessVars, spoolVars, tx, again>>

NoTx == [file |-> <<>>, left |-> <<>>]

Init ==
  /\ db = EmptyDb
  /\ ids = NoRows
  /\ made = {} /\ lost = {}
  /\ active = <<>> /\ queue = {} /\ failed = {}
  /\ tx = NoTx
  /\ again = {}

-----------------------------------------------------------------------------
(* The harness names a session, a turn or a plan; a call needs the ids of  *)
(* what it belongs to, and passes them on as it got them.                  *)

SessionName(c) == <<"session", c.session>>
TurnName(c) == <<"turn", c.session, c.turn>>
PlanName(c) == <<"plan", c.plan>>

\* What the call's answer identifies, when a later call refers to it.
Named(c) ==
  CASE c.type = "session" -> {SessionName(c)}
    [] c.type = "turn"    -> {TurnName(c)}
    [] c.type = "plan"    -> {PlanName(c)}
    [] OTHER              -> {}

\* What it refers to.
Needs(c) ==
  (IF c.type \in Children THEN {SessionName(c)} ELSE {})
    \cup (IF c.type \in Leaves /\ c.turn # Null THEN {TurnName(c)} ELSE {})
    \cup (IF c.type = "message" /\ c.plan # Null THEN {PlanName(c)} ELSE {})

\* The payloads, with what the ids stand for in place of the names.
HarnessPayload(c) == [type |-> "harness", harness |-> c.harness, version |-> c.version]

SessionPayload(c) ==
  [type |-> "session", harness |-> c.harness, session |-> c.session, cwd |-> c.cwd,
   started |-> c.started, ended |-> c.ended]

TurnPayload(c) ==
  [type |-> "turn", harness |-> c.harness, of |-> ids[SessionName(c)],
   turn |-> c.turn, started |-> c.started, ended |-> c.ended]

Within(c) == IF c.turn = Null THEN Null ELSE ids[TurnName(c)]

LlmMessagePayload(c) ==
  [type |-> "message", harness |-> c.harness, of |-> ids[SessionName(c)],
   within |-> Within(c), paid |-> IF c.plan = Null THEN Null ELSE ids[PlanName(c)],
   message |-> c.message, tokens |-> c.tokens]

SubscriptionPayload(c) ==
  [type |-> "plan", harness |-> c.harness, plan |-> c.plan, used |-> c.used]

ToolCallPayload(c) ==
  [type |-> "tool", harness |-> c.harness, of |-> ids[SessionName(c)],
   within |-> Within(c), tool |-> c.tool, ended |-> c.ended]

RawEventPayload(c) == [type |-> "raw", harness |-> c.harness, event |-> c.about]

Payload(c) ==
  CASE c.type = "harness" -> HarnessPayload(c)
    [] c.type = "session" -> SessionPayload(c)
    [] c.type = "turn"    -> TurnPayload(c)
    [] c.type = "message" -> LlmMessagePayload(c)
    [] c.type = "plan"    -> SubscriptionPayload(c)
    [] c.type = "tool"    -> ToolCallPayload(c)
    [] c.type = "raw"     -> RawEventPayload(c)

\* The id a call returns: of the row, or in its place.
Answer(p, spooled) ==
  CASE p.type = "session" -> SessionRef(spooled, p.harness, p.session)
    [] p.type = "turn"    -> TurnRef(spooled, p.of, p.turn)
    [] p.type = "plan"    -> PlanRef(spooled, p.harness, p.plan)
    [] OTHER              -> Null

\* A harness makes its calls once, those about one thing in their order, and
\* identifies itself before anything else.
Due(c) ==
  /\ c \notin made /\ \E report \in Reports : made \cup {c} \subseteq report
  /\ c.step > 1 => \E e \in made : e.step = c.step - 1 /\ e.about = c.about
  /\ c.type # "harness" => \E e \in made : e.type = "harness" /\ e.harness = c.harness
  /\ Needs(c) \subseteq DOMAIN ids

\* A hook keeps the id it got first, or the one it got last.
Keep(c, answer) ==
  \/ ids' = [n \in DOMAIN ids \cup Named(c) |-> IF n \in Named(c) THEN answer ELSE ids[n]]
  \/ Named(c) \subseteq DOMAIN ids /\ UNCHANGED ids

\* withDbOrSpool and recordRawEvent: the write succeeds, or throws what is not
\* worth a retry, or finds the database busy until its budget is spent.
RecordLive(c) ==
  /\ Due(c) /\ tx = NoTx /\ KeysHold(db, Payload(c))
  /\ db' = Write(db, Payload(c))
  /\ Keep(c, Answer(Payload(c), FALSE))
  /\ made' = made \cup {c}
  /\ UNCHANGED <<lost, spoolVars, tx, again>>

RecordThrows(c) ==
  /\ Due(c) /\ tx = NoTx /\ ~KeysHold(db, Payload(c))
  /\ made' = made \cup {c}
  /\ lost' = lost \cup {c}
  /\ UNCHANGED <<db, ids, spoolVars, tx, again>>

RecordSpool(c) ==
  /\ Due(c)
  /\ active' = Append(active, Payload(c))
  /\ Keep(c, Answer(Payload(c), TRUE))
  /\ made' = made \cup {c}
  /\ UNCHANGED <<db, lost, queue, failed, tx, again>>

\* Rotation, promotion, or close(): the file may be drained.
CloseFile ==
  /\ active # <<>>
  /\ queue' = queue \cup {active}
  /\ active' = <<>>
  /\ UNCHANGED <<db, harnessVars, failed, tx, again>>

-----------------------------------------------------------------------------
(* Drains: db.transaction(drainBatch)                                      *)

Begin(f) ==
  /\ tx = NoTx
  /\ tx' = [file |-> f, left |-> f, batch |-> StartBatch(db)]
  /\ UNCHANGED <<db, harnessVars, spoolVars, again>>

\* Mutant: the file that failed is copied to quarantine.
ApplyNextCopies ==
  /\ tx.left # <<>>
  /\ LET batch == Apply(tx.batch, Head(tx.left)) IN
       IF batch.ok
         THEN /\ tx' = [tx EXCEPT !.left = Tail(@), !.batch = batch]
              /\ UNCHANGED <<queue, failed, again>>
         ELSE /\ tx' = NoTx
              /\ failed' = failed \cup {tx.file}
              /\ again' = again \ {tx.file}
              /\ UNCHANGED queue
  /\ UNCHANGED <<db, harnessVars, active>>

\* One record; a throw rolls back and the file is quarantined.
ApplyNext ==
  /\ tx.left # <<>>
  /\ LET batch == Apply(tx.batch, Head(tx.left)) IN
       IF batch.ok
         THEN /\ tx' = [tx EXCEPT !.left = Tail(@), !.batch = batch]
              /\ UNCHANGED <<queue, failed, again>>
         ELSE /\ tx' = NoTx
              /\ queue' = queue \ {tx.file}
              /\ failed' = failed \cup {tx.file}
              /\ again' = again \ {tx.file}
  /\ UNCHANGED <<db, harnessVars, active>>

\* Commit and unlink, or a crash between the two (bound: one for each file).
CommitFile ==
  /\ tx # NoTx /\ tx.left = <<>>
  /\ db' = tx.batch.db
  /\ tx' = NoTx
  /\ \/ queue' = queue \ {tx.file} /\ again' = again \ {tx.file}
     \/ /\ tx.file \notin again /\ Cardinality(again) < MaxAgain
        /\ again' = again \cup {tx.file}
        /\ UNCHANGED queue
  /\ UNCHANGED <<harnessVars, active, failed>>

\* The drainer dies inside its transaction, and SQLite rolls it back.
Abort ==
  /\ tx # NoTx
  /\ tx' = NoTx
  /\ UNCHANGED <<db, harnessVars, spoolVars, again>>

Next ==
  \/ \E c \in Calls : RecordLive(c) \/ RecordThrows(c) \/ RecordSpool(c)
  \/ CloseFile
  \/ \E f \in queue : Begin(f)
  \/ ApplyNext \/ CommitFile \/ Abort

Spec == Init /\ [][Next]_vars

-----------------------------------------------------------------------------
(* What holds of the tables                                                *)

\* The tables, the ids and the files only ever name what the harness named,
\* and the transaction is one of a closed file.
TypeOK ==
  /\ lost \subseteq made /\ made \subseteq Calls
  /\ DOMAIN ids \subseteq UNION {Named(c) : c \in Calls}
  /\ DOMAIN db.sessions \subseteq {Meant(c) : c \in {e \in Calls : e.type = "session"}}
  /\ DOMAIN db.messages \subseteq {MessageId(c) : c \in {e \in Calls : e.type = "message"}}
  /\ again \subseteq queue /\ queue \cap failed = {}
  /\ tx # NoTx => tx.file \in queue

\* Whatever mixture of live writes, placeholders, lookups and repairs a message
\* or a tool call went through, its row belongs to the session, the turn and
\* the plan the harness meant, and to rows that exist (drainBatch).
Same(c) == {e \in made : e.type = c.type /\ e.about = c.about}

Attributed ==
  \A c \in made :
    /\ c.type = "message" /\ Has(db.messages, MessageId(c)) =>
         LET row == db.messages[MessageId(c)] IN
           /\ row.of = Meant(c) /\ Has(db.sessions, row.of)
           /\ row.within # Null => /\ \E e \in Same(c) : row.within = MeantTurn(e)
                                   /\ Has(db.turns, row.within)
           /\ row.paid # Null => /\ \E e \in Same(c) : row.paid = MeantPlan(e)
                                 /\ Has(db.plans, row.paid)
    /\ c.type = "tool" /\ Has(db.tools, ToolId(c)) =>
         LET row == db.tools[ToolId(c)] IN
           /\ row.of = Meant(c) /\ Has(db.sessions, row.of)
           /\ row.within # Null => /\ \E e \in Same(c) : row.within = MeantTurn(e)
                                   /\ Has(db.turns, row.within)

\* Nothing known of a session or of a turn is forgotten: no close event, no
\* replay and no repaired parent takes back a start, an end or a directory
\* (drain-engine.ts:92-99).
NothingForgotten ==
  [][/\ \A k \in DOMAIN db.sessions :
          LET old == db.sessions[k]
              new == db'.sessions[k]
          IN /\ old.started # 0 => new.started # 0
             /\ old.ended # Null => new.ended # Null
             /\ old.cwd # Null => new.cwd # Null
     /\ \A k \in DOMAIN db.turns :
          /\ db.turns[k].started # 0 => db'.turns[k].started # 0
          /\ db.turns[k].ended # Null => db'.turns[k].ended # Null]_vars

\* When everything is drained and nothing was quarantined or thrown, sessions
\* and turns hold what was reported of them, and messages and tool calls their
\* turn, in whatever order the files that report them were drained
\* (drain-engine.ts:21-29, 92-134).
Settled == active = <<>> /\ queue = {} /\ failed = {} /\ lost = {}

Reported(c, row) ==
  /\ c.started # 0 => row.started = c.started
  /\ c.ended # Null => row.ended = c.ended

Stored(d, c) ==
  /\ c.type = "session" => Has(d.sessions, Meant(c)) /\ Reported(c, d.sessions[Meant(c)])
  /\ c.type = "turn" => Has(d.turns, MeantTurn(c)) /\ Reported(c, d.turns[MeantTurn(c)])
  /\ c.type = "message" =>
       /\ Has(d.messages, MessageId(c))
       /\ c.turn # Null => d.messages[MessageId(c)].within = MeantTurn(c)
  /\ c.type = "tool" =>
       /\ Has(d.tools, ToolId(c))
       /\ c.turn # Null => d.tools[ToolId(c)].within = MeantTurn(c)
       /\ c.ended # Null => d.tools[ToolId(c)].ended = c.ended

OrderForgiven == Settled => \A c \in made : Stored(db, c)

\* Draining a file a second time right away changes nothing but raw_events.
Drained(st, p) == IF st.ok THEN Apply(st, p) ELSE st

DrainBatch(start, f) ==
  LET upTo[n \in 0 .. Len(f)] ==
        IF n = 0 THEN StartBatch(start) ELSE Drained(upTo[n - 1], f[n])
  IN upTo[Len(f)]

Structured(tables) == [tables EXCEPT !.raws = 0]

ReplayAtOnce ==
  \A f \in queue :
    LET once == DrainBatch(db, f)
        twice == DrainBatch(once.db, f)
    IN once.ok => twice.ok /\ Structured(twice.db) = Structured(once.db)

-----------------------------------------------------------------------------
(* What comments and documents say of it, and the code does not do         *)

\* writer.ts:537-540: a call that throws would fail the same way when drained.
ThrowsWouldFailLater ==
  [][\A c \in lost' \ lost : ~Apply(StartBatch(db), Payload(c)).ok]_vars
=============================================================================
