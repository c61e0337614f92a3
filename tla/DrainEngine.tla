----------------------------- MODULE DrainEngine -----------------------------
(***************************************************************************)
(* The tables of the central store, the upserts that write them, and how   *)
(* one spooled record is applied: placeholders of parents the same file    *)
(* holds are looked up, those of parents another file holds are repaired   *)
(* from the natural key they carry.                                        *)
(*                                                                         *)
(* A table is a function from the natural keys of its rows.  The UUID of a *)
(* row stands for its key: no statement deletes a row or changes an id,    *)
(* and randomUUID repeats nothing.  A reference is such an id, or the      *)
(* placeholder a record call returned when it went to the spool.           *)
(***************************************************************************)
EXTENDS Naturals

CONSTANTS
  Null,     \* SQL NULL
  Numbered  \* the turn ids of the form <session>:t<N>, as <<session, turn>>

\* References
SessionRef(spool, h, s) == [spool |-> spool, harness |-> h, session |-> s]
TurnRef(spool, ref, t) == [spool |-> spool, of |-> ref, turn |-> t]
PlanRef(spool, h, p) == [spool |-> spool, harness |-> h, plan |-> p]

NoRows == [k \in {} |-> Null]
EmptyDb == [harnesses |-> NoRows, sessions |-> NoRows, turns |-> NoRows,
            plans |-> NoRows, messages |-> NoRows, tools |-> NoRows, raws |-> 0]

Has(table, key) == key \in DOMAIN table
Row(table, key, else) == IF Has(table, key) THEN table[key] ELSE else
Upsert(table, key, row) ==
  [k \in DOMAIN table \cup {key} |-> IF k = key THEN row ELSE table[k]]

\* Mutants: the new value always wins.
TakeNew(new, old) == new
TakeNewTime(new, old) == new

Coalesce(new, old) == IF new = Null THEN old ELSE new
\* COALESCE(NULLIF(new, 0), old): a time of 0 means "do not change it".
NewTime(new, old) == IF new = 0 THEN old ELSE new

-----------------------------------------------------------------------------
(* The write functions; each needs its foreign keys, and returns the id    *)
(* that its RETURNING clause returns.                                      *)

WriteHarness(db, p) ==
  [db EXCEPT !.harnesses = Upsert(@, p.harness, [version |-> p.version])]

SessionKeys(db, p) == Has(db.harnesses, p.harness)

SessionId(p) == SessionRef(FALSE, p.harness, p.session)

WriteSession(db, p) ==
  LET old == Row(db.sessions, SessionId(p),
                 [cwd |-> Null, started |-> p.started, ended |-> Null])
  IN [db EXCEPT !.sessions = Upsert(@, SessionId(p),
        [cwd     |-> Coalesce(p.cwd, old.cwd),
         started |-> NewTime(p.started, old.started),
         ended   |-> Coalesce(p.ended, old.ended)])]

\* The keys of an existing row are not written again, so not looked at.
TurnId(p) == TurnRef(FALSE, p.of, p.turn)

TurnKeys(db, p) ==
  Has(db.turns, TurnId(p)) \/ (Has(db.sessions, p.of) /\ Has(db.harnesses, p.harness))

WriteTurn(db, p) ==
  LET old == Row(db.turns, TurnId(p), [started |-> p.started, ended |-> Null])
  IN [db EXCEPT !.turns = Upsert(@, TurnId(p),
        [started |-> NewTime(p.started, old.started),
         ended   |-> Coalesce(p.ended, old.ended)])]

PlanId(p) == PlanRef(FALSE, p.harness, p.plan)

WritePlan(db, p) == [db EXCEPT !.plans = Upsert(@, PlanId(p), [used |-> p.used])]

MessageKeys(db, p) ==
  /\ Has(db.sessions, p.of) /\ Has(db.harnesses, p.harness)
  /\ p.within = Null \/ Has(db.turns, p.within)
  /\ p.paid = Null \/ Has(db.plans, p.paid)

MessageId(p) == <<p.harness, p.message>>

\* Mutant: the tokens of a message add up.
WriteMessageAdds(db, p) ==
  LET old == Row(db.messages, MessageId(p), [within |-> Null, tokens |-> 0])
  IN [db EXCEPT !.messages = Upsert(@, MessageId(p),
        [of     |-> p.of,
         within |-> Coalesce(p.within, old.within),
         tokens |-> old.tokens + p.tokens,
         paid   |-> p.paid])]

WriteMessage(db, p) ==
  LET old == Row(db.messages, MessageId(p), [within |-> Null])
  IN [db EXCEPT !.messages = Upsert(@, MessageId(p),
        [of     |-> p.of,
         within |-> Coalesce(p.within, old.within),
         tokens |-> p.tokens,
         paid   |-> p.paid])]

\* An existing row keeps its session, so only its other keys are looked at.
ToolId(p) == <<p.harness, p.tool>>

ToolKeys(db, p) ==
  /\ Has(db.tools, ToolId(p)) \/ (Has(db.sessions, p.of) /\ Has(db.harnesses, p.harness))
  /\ p.within = Null \/ Has(db.turns, p.within)

WriteTool(db, p) ==
  LET old == Row(db.tools, ToolId(p), [of |-> p.of, within |-> Null, ended |-> Null])
  IN [db EXCEPT !.tools = Upsert(@, ToolId(p),
        [of     |-> old.of,
         within |-> Coalesce(p.within, old.within),
         ended  |-> Coalesce(p.ended, old.ended)])]

WriteRaw(db, p) == [db EXCEPT !.raws = @ + 1]

\* Mutant: PRAGMA foreign_keys is off.
KeysOff(db, p) == TRUE

\* One record, its references resolved: may it be written, and what then?
KeysHold(db, p) ==
  /\ p.type \in {"session", "plan", "raw"} => SessionKeys(db, p)
  /\ p.type = "turn" => TurnKeys(db, p)
  /\ p.type = "message" => MessageKeys(db, p)
  /\ p.type = "tool" => ToolKeys(db, p)

Write(db, p) ==
  CASE p.type = "harness" -> WriteHarness(db, p)
    [] p.type = "session" -> WriteSession(db, p)
    [] p.type = "turn"    -> WriteTurn(db, p)
    [] p.type = "plan"    -> WritePlan(db, p)
    [] p.type = "message" -> WriteMessage(db, p)
    [] p.type = "tool"    -> WriteTool(db, p)
    [] p.type = "raw"     -> WriteRaw(db, p)

-----------------------------------------------------------------------------
(* drainBatch: the transaction's view of the database, the DrainIdMaps,    *)
(* and whether it has thrown.                                              *)

StartBatch(db) ==
  [db |-> db, sessions |-> NoRows, turns |-> NoRows, plans |-> NoRows, ok |-> TRUE]

Throw(st) == [st EXCEPT !.ok = FALSE]

\* resolveOrRepairSession: a placeholder the file has not resolved gets its
\* harness and session rows from the natural key; a harness id always parses.
RepairSession(st, ref) ==
  IF ~ref.spool \/ Has(st.sessions, ref) THEN st
  ELSE LET p == [harness |-> ref.harness, version |-> Null, session |-> ref.session,
                 cwd |-> Null, started |-> 0, ended |-> Null]
       IN [st EXCEPT !.db = WriteSession(WriteHarness(@, p), p),
                     !.sessions = Upsert(@, ref, SessionId(p))]

SessionOf(st, ref) == Row(st.sessions, ref, ref)

\* parseLegacySpoolTurnId: of a session with a UUID any turn id, of a session
\* with a placeholder only one that repeats the session's own id.
Parses(ref) == ~ref.of.spool \/ <<ref.of.session, ref.turn>> \in Numbered

\* resolveOrRepairTurn, for a child of harness h; it may have no turn at all.
RepairTurn(st, ref, h) ==
  IF ref = Null THEN st
  ELSE IF ~ref.spool \/ Has(st.turns, ref) THEN st
  ELSE IF ~Parses(ref) THEN Throw(st)
  ELSE LET repaired == RepairSession(st, ref.of)
           p == [harness |-> h, of |-> SessionOf(repaired, ref.of), turn |-> ref.turn,
                 started |-> 0, ended |-> Null]
       IN IF ~TurnKeys(repaired.db, p) THEN Throw(st)
          ELSE [repaired EXCEPT !.db = WriteTurn(@, p),
                                !.turns = Upsert(@, ref, TurnId(p))]

TurnOf(st, ref) == Row(st.turns, ref, ref)
PlanOf(st, ref) == Row(st.plans, ref, ref)

\* The records, those that refer to a session, and those that refer to a turn.
Types == {"harness", "session", "turn", "plan", "message", "tool", "raw"}
Children == {"turn", "message", "tool"}
Leaves == {"message", "tool"}

Repair(st, p) ==
  LET parent == IF p.type \in Children THEN RepairSession(st, p.of) ELSE st
  IN IF p.type \in Leaves THEN RepairTurn(parent, p.within, p.harness) ELSE parent

Resolve(st, p) ==
  CASE p.type = "turn"    -> [p EXCEPT !.of = SessionOf(st, @)]
    [] p.type = "message" -> [p EXCEPT !.of = SessionOf(st, @),
                                       !.within = TurnOf(st, @),
                                       !.paid = PlanOf(st, @)]
    [] p.type = "tool"    -> [p EXCEPT !.of = SessionOf(st, @), !.within = TurnOf(st, @)]
    [] OTHER              -> p

\* The placeholder of a parent record, from now on its id.
Remember(st, p, r) ==
  CASE p.type = "session" ->
         [st EXCEPT !.sessions = Upsert(@, SessionRef(TRUE, p.harness, p.session), SessionId(p))]
    [] p.type = "turn" ->
         [st EXCEPT !.turns = Upsert(@, TurnRef(TRUE, p.of, p.turn), TurnId(r))]
    [] p.type = "plan" ->
         [st EXCEPT !.plans = Upsert(@, PlanRef(TRUE, p.harness, p.plan), PlanId(p))]
    [] OTHER -> st

Apply(st, p) ==
  LET repaired == Repair(st, p)
      r == Resolve(repaired, p)
  IN IF ~repaired.ok \/ ~KeysHold(repaired.db, r) THEN Throw(repaired)
     ELSE Remember([repaired EXCEPT !.db = Write(@, r)], p, r)
=============================================================================
