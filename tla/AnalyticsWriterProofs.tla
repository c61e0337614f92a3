------------------------ MODULE AnalyticsWriterProofs ------------------------
(***************************************************************************)
(* What the record calls of a harness become, for every set of reports:    *)
(* nothing that is known is forgotten, rows belong to what the harness     *)
(* meant, when everything is drained they hold what it reported, and a     *)
(* file may be drained twice.                                              *)
(***************************************************************************)
EXTENDS AnalyticsWriter, NaturalsInduction, WellFoundedInduction, TLAPS

-----------------------------------------------------------------------------
(* The tables: what each write does to them                                *)

IsDb(d) ==
  d = [harnesses |-> d.harnesses, sessions |-> d.sessions, turns |-> d.turns,
       plans |-> d.plans, messages |-> d.messages, tools |-> d.tools, raws |-> d.raws]

IsBatch(st) ==
  /\ st = [db |-> st.db, sessions |-> st.sessions, turns |-> st.turns, plans |-> st.plans,
           ok |-> st.ok]
  /\ IsDb(st.db)

\* What is known of a session or a turn stays known.
Known(old, new) ==
  /\ old.started # 0 => new.started # 0
  /\ old.ended # Null => new.ended # Null

\* Every row stays, and with it what is known.
Keeps(d, e) ==
  /\ DOMAIN d.harnesses \subseteq DOMAIN e.harnesses
  /\ DOMAIN d.sessions \subseteq DOMAIN e.sessions
  /\ DOMAIN d.turns \subseteq DOMAIN e.turns
  /\ DOMAIN d.plans \subseteq DOMAIN e.plans
  /\ \A k \in DOMAIN d.sessions : /\ Known(d.sessions[k], e.sessions[k])
                                  /\ d.sessions[k].cwd # Null => e.sessions[k].cwd # Null
  /\ \A k \in DOMAIN d.turns : Known(d.turns[k], e.turns[k])

LEMMA UpsertFacts ==
  ASSUME NEW table, NEW key, NEW row
  PROVE  /\ DOMAIN Upsert(table, key, row) = DOMAIN table \cup {key}
         /\ Upsert(table, key, row)[key] = row
         /\ \A k \in DOMAIN table : k # key => Upsert(table, key, row)[k] = table[k]
BY DEF Upsert

LEMMA KeepsSelf == ASSUME NEW d PROVE Keeps(d, d)
BY DEF Keeps, Known

LEMMA KeepsTransitive ==
  ASSUME NEW d, NEW e, NEW f, Keeps(d, e), Keeps(e, f)
  PROVE  Keeps(d, f)
BY DEF Keeps, Known

LEMMA WriteHarnessFacts ==
  ASSUME NEW d, IsDb(d), NEW p
  PROVE  /\ IsDb(WriteHarness(d, p))
         /\ WriteHarness(d, p).harnesses = Upsert(d.harnesses, p.harness, [version |-> p.version])
         /\ WriteHarness(d, p).sessions = d.sessions
         /\ WriteHarness(d, p).turns = d.turns
         /\ WriteHarness(d, p).plans = d.plans
         /\ WriteHarness(d, p).messages = d.messages
         /\ WriteHarness(d, p).tools = d.tools
         /\ WriteHarness(d, p).raws = d.raws
BY DEF IsDb, WriteHarness

SessionRow(d, p) ==
  LET old == Row(d.sessions, SessionId(p),
                 [cwd |-> Null, started |-> p.started, ended |-> Null])
  IN [cwd     |-> Coalesce(p.cwd, old.cwd),
      started |-> NewTime(p.started, old.started),
      ended   |-> Coalesce(p.ended, old.ended)]

TurnRow(d, p) ==
  LET old == Row(d.turns, TurnId(p), [started |-> p.started, ended |-> Null])
  IN [started |-> NewTime(p.started, old.started),
      ended   |-> Coalesce(p.ended, old.ended)]

MessageRow(d, p) ==
  LET old == Row(d.messages, MessageId(p), [within |-> Null])
  IN [of     |-> p.of,
      within |-> Coalesce(p.within, old.within),
      tokens |-> p.tokens,
      paid   |-> p.paid]

ToolRow(d, p) ==
  LET old == Row(d.tools, ToolId(p), [of |-> p.of, within |-> Null, ended |-> Null])
  IN [of     |-> old.of,
      within |-> Coalesce(p.within, old.within),
      ended  |-> Coalesce(p.ended, old.ended)]

LEMMA WriteSessionFacts ==
  ASSUME NEW d, IsDb(d), NEW p
  PROVE  /\ IsDb(WriteSession(d, p))
         /\ WriteSession(d, p).sessions = Upsert(d.sessions, SessionId(p), SessionRow(d, p))
         /\ WriteSession(d, p).harnesses = d.harnesses
         /\ WriteSession(d, p).turns = d.turns
         /\ WriteSession(d, p).plans = d.plans
         /\ WriteSession(d, p).messages = d.messages
         /\ WriteSession(d, p).tools = d.tools
         /\ WriteSession(d, p).raws = d.raws
BY DEF IsDb, WriteSession, SessionRow

LEMMA WriteTurnFacts ==
  ASSUME NEW d, IsDb(d), NEW p
  PROVE  /\ IsDb(WriteTurn(d, p))
         /\ WriteTurn(d, p).turns = Upsert(d.turns, TurnId(p), TurnRow(d, p))
         /\ WriteTurn(d, p).harnesses = d.harnesses
         /\ WriteTurn(d, p).sessions = d.sessions
         /\ WriteTurn(d, p).plans = d.plans
         /\ WriteTurn(d, p).messages = d.messages
         /\ WriteTurn(d, p).tools = d.tools
         /\ WriteTurn(d, p).raws = d.raws
BY DEF IsDb, WriteTurn, TurnRow

LEMMA WritePlanFacts ==
  ASSUME NEW d, IsDb(d), NEW p
  PROVE  /\ IsDb(WritePlan(d, p))
         /\ WritePlan(d, p).plans = Upsert(d.plans, PlanId(p), [used |-> p.used])
         /\ WritePlan(d, p).harnesses = d.harnesses
         /\ WritePlan(d, p).sessions = d.sessions
         /\ WritePlan(d, p).turns = d.turns
         /\ WritePlan(d, p).messages = d.messages
         /\ WritePlan(d, p).tools = d.tools
         /\ WritePlan(d, p).raws = d.raws
BY DEF IsDb, WritePlan

LEMMA WriteMessageFacts ==
  ASSUME NEW d, IsDb(d), NEW p
  PROVE  /\ IsDb(WriteMessage(d, p))
         /\ WriteMessage(d, p).messages = Upsert(d.messages, MessageId(p), MessageRow(d, p))
         /\ WriteMessage(d, p).harnesses = d.harnesses
         /\ WriteMessage(d, p).sessions = d.sessions
         /\ WriteMessage(d, p).turns = d.turns
         /\ WriteMessage(d, p).plans = d.plans
         /\ WriteMessage(d, p).tools = d.tools
         /\ WriteMessage(d, p).raws = d.raws
BY DEF IsDb, WriteMessage, MessageRow

LEMMA WriteToolFacts ==
  ASSUME NEW d, IsDb(d), NEW p
  PROVE  /\ IsDb(WriteTool(d, p))
         /\ WriteTool(d, p).tools = Upsert(d.tools, ToolId(p), ToolRow(d, p))
         /\ WriteTool(d, p).harnesses = d.harnesses
         /\ WriteTool(d, p).sessions = d.sessions
         /\ WriteTool(d, p).turns = d.turns
         /\ WriteTool(d, p).plans = d.plans
         /\ WriteTool(d, p).messages = d.messages
         /\ WriteTool(d, p).raws = d.raws
BY DEF IsDb, WriteTool, ToolRow

LEMMA WriteRawFacts ==
  ASSUME NEW d, IsDb(d), NEW p
  PROVE  /\ IsDb(WriteRaw(d, p))
         /\ WriteRaw(d, p).harnesses = d.harnesses /\ WriteRaw(d, p).sessions = d.sessions
         /\ WriteRaw(d, p).turns = d.turns /\ WriteRaw(d, p).plans = d.plans
         /\ WriteRaw(d, p).messages = d.messages /\ WriteRaw(d, p).tools = d.tools
BY DEF IsDb, WriteRaw

\* An upsert of a session or a turn keeps what it does not know.
LEMMA SessionRowKnown ==
  ASSUME NEW d, NEW p, SessionId(p) \in DOMAIN d.sessions
  PROVE  /\ Known(d.sessions[SessionId(p)], SessionRow(d, p))
         /\ d.sessions[SessionId(p)].cwd # Null => SessionRow(d, p).cwd # Null
BY DEF Known, SessionRow, Row, Has, Coalesce, NewTime

LEMMA TurnRowKnown ==
  ASSUME NEW d, NEW p, TurnId(p) \in DOMAIN d.turns
  PROVE  Known(d.turns[TurnId(p)], TurnRow(d, p))
BY DEF Known, TurnRow, Row, Has, Coalesce, NewTime

LEMMA HarnessKeeps ==
  ASSUME NEW d, IsDb(d), NEW p
  PROVE  Keeps(d, WriteHarness(d, p))
<1> DEFINE e == WriteHarness(d, p)
<1>1. /\ e.harnesses = Upsert(d.harnesses, p.harness, [version |-> p.version])
      /\ e.sessions = d.sessions /\ e.turns = d.turns /\ e.plans = d.plans
  BY WriteHarnessFacts
<1> HIDE DEF e
<1>2. DOMAIN d.harnesses \subseteq DOMAIN e.harnesses
  BY <1>1 DEF Upsert
<1>3. Keeps(d, e)
  BY <1>1, <1>2 DEF Keeps, Known
<1> QED BY <1>3 DEF e

LEMMA SessionKeeps ==
  ASSUME NEW d, IsDb(d), NEW p
  PROVE  Keeps(d, WriteSession(d, p))
<1> DEFINE e == WriteSession(d, p)
<1>1. /\ e.sessions = Upsert(d.sessions, SessionId(p), SessionRow(d, p))
      /\ e.harnesses = d.harnesses /\ e.turns = d.turns /\ e.plans = d.plans
  BY WriteSessionFacts
<1> HIDE DEF e
<1>2. ASSUME NEW k \in DOMAIN d.sessions
      PROVE  /\ Known(d.sessions[k], e.sessions[k])
             /\ d.sessions[k].cwd # Null => e.sessions[k].cwd # Null
  <2>1. CASE k = SessionId(p)
    BY <1>1, <2>1, SessionRowKnown DEF Upsert
  <2>2. CASE k # SessionId(p)
    BY <1>1, <2>2 DEF Upsert, Known
  <2> QED BY <2>1, <2>2
<1>3. Keeps(d, e)
  BY <1>1, <1>2 DEF Upsert, Keeps, Known
<1> QED BY <1>3 DEF e

LEMMA TurnKeeps ==
  ASSUME NEW d, IsDb(d), NEW p
  PROVE  Keeps(d, WriteTurn(d, p))
<1> DEFINE e == WriteTurn(d, p)
<1>1. /\ e.turns = Upsert(d.turns, TurnId(p), TurnRow(d, p))
      /\ e.harnesses = d.harnesses /\ e.sessions = d.sessions /\ e.plans = d.plans
  BY WriteTurnFacts
<1> HIDE DEF e
<1>2. ASSUME NEW k \in DOMAIN d.turns
      PROVE  Known(d.turns[k], e.turns[k])
  <2>1. CASE k = TurnId(p)
    BY <1>1, <2>1, TurnRowKnown DEF Upsert
  <2>2. CASE k # TurnId(p)
    BY <1>1, <2>2 DEF Upsert, Known
  <2> QED BY <2>1, <2>2
<1>3. Keeps(d, e)
  BY <1>1, <1>2 DEF Upsert, Keeps, Known
<1> QED BY <1>3 DEF e

\* No write takes back what is known.
LEMMA WriteKeeps ==
  ASSUME NEW d, IsDb(d), NEW p, p.type \in Types
  PROVE  IsDb(Write(d, p)) /\ Keeps(d, Write(d, p))
<1>1. CASE p.type = "harness"
  <2>1. Write(d, p) = WriteHarness(d, p)
    BY <1>1 DEF Write
  <2> QED BY <2>1, WriteHarnessFacts, HarnessKeeps
<1>2. CASE p.type = "session"
  <2>1. Write(d, p) = WriteSession(d, p)
    BY <1>2 DEF Write
  <2> QED BY <2>1, WriteSessionFacts, SessionKeeps
<1>3. CASE p.type = "turn"
  <2>1. Write(d, p) = WriteTurn(d, p)
    BY <1>3 DEF Write
  <2> QED BY <2>1, WriteTurnFacts, TurnKeeps
<1>4. CASE p.type = "plan"
  <2>1. Write(d, p) = WritePlan(d, p)
    BY <1>4 DEF Write
  <2> DEFINE e == WritePlan(d, p)
  <2>2. /\ e.plans = Upsert(d.plans, PlanId(p), [used |-> p.used])
        /\ e.harnesses = d.harnesses /\ e.sessions = d.sessions /\ e.turns = d.turns
    BY WritePlanFacts
  <2>3. IsDb(e)
    BY WritePlanFacts
  <2> HIDE DEF e
  <2>4. DOMAIN d.plans \subseteq DOMAIN e.plans
    BY <2>2 DEF Upsert
  <2>5. Keeps(d, e)
    BY <2>2, <2>4 DEF Keeps, Known
  <2> QED BY <2>1, <2>3, <2>5 DEF e
<1>5. CASE p.type = "message"
  <2>1. Write(d, p) = WriteMessage(d, p)
    BY <1>5 DEF Write
  <2> QED BY <2>1, WriteMessageFacts DEF Keeps, Known
<1>6. CASE p.type = "tool"
  <2>1. Write(d, p) = WriteTool(d, p)
    BY <1>6 DEF Write
  <2> QED BY <2>1, WriteToolFacts DEF Keeps, Known
<1>7. CASE p.type = "raw"
  <2>1. Write(d, p) = WriteRaw(d, p)
    BY <1>7 DEF Write
  <2> QED BY <2>1, WriteRawFacts DEF Keeps, Known
<1> QED BY <1>1, <1>2, <1>3, <1>4, <1>5, <1>6, <1>7 DEF Types

-----------------------------------------------------------------------------
(* The batch: what repairs and records do to it                            *)

RepairedSession(ref) ==
  [harness |-> ref.harness, version |-> Null, session |-> ref.session,
   cwd |-> Null, started |-> 0, ended |-> Null]

RepairedTurn(st, ref, h) ==
  [harness |-> h, of |-> SessionOf(st, ref.of), turn |-> ref.turn,
   started |-> 0, ended |-> Null]

LEMMA RepairSessionCases ==
  ASSUME NEW st, IsBatch(st), NEW ref
  PROVE  \/ RepairSession(st, ref) = st /\ (~ref.spool \/ Has(st.sessions, ref))
         \/ LET p == RepairedSession(ref) IN
            /\ ref.spool /\ ~Has(st.sessions, ref)
            /\ RepairSession(st, ref) =
                 [db |-> WriteSession(WriteHarness(st.db, p), p),
                  sessions |-> Upsert(st.sessions, ref, SessionId(p)),
                  turns |-> st.turns, plans |-> st.plans, ok |-> st.ok]
BY DEF IsBatch, RepairSession, RepairedSession

LEMMA RepairSessionFacts ==
  ASSUME NEW st, IsBatch(st), NEW ref
  PROVE  LET s == RepairSession(st, ref) IN
         /\ IsBatch(s) /\ s.ok = st.ok /\ s.turns = st.turns /\ s.plans = st.plans
         /\ Keeps(st.db, s.db)
<1>1. CASE RepairSession(st, ref) = st
  BY <1>1, KeepsSelf
<1>2. CASE RepairSession(st, ref) # st
  <2> DEFINE p == RepairedSession(ref)
             h == WriteHarness(st.db, p)
             e == WriteSession(h, p)
             s == RepairSession(st, ref)
  <2>1. s = [db |-> e, sessions |-> Upsert(st.sessions, ref, SessionId(p)),
             turns |-> st.turns, plans |-> st.plans, ok |-> st.ok]
    BY <1>2, RepairSessionCases
  <2>2. IsDb(h) /\ Keeps(st.db, h)
    BY WriteHarnessFacts, HarnessKeeps DEF IsBatch
  <2>3. IsDb(e) /\ Keeps(h, e)
    BY <2>2, WriteSessionFacts, SessionKeeps
  <2>4. Keeps(st.db, e)
    BY <2>2, <2>3, KeepsTransitive
  <2> HIDE DEF e, s, p, h
  <2>5. IsBatch(s) /\ s.ok = st.ok /\ s.turns = st.turns /\ s.plans = st.plans
    BY <2>1, <2>3 DEF IsBatch
  <2>6. s.db = e
    BY <2>1
  <2> QED BY <2>4, <2>5, <2>6 DEF s
<1> QED BY <1>1, <1>2

LEMMA BatchExcept ==
  ASSUME NEW st, IsBatch(st), NEW d, NEW t, NEW b
  PROVE  /\ [st EXCEPT !.db = d, !.turns = t] =
              [db |-> d, sessions |-> st.sessions, turns |-> t, plans |-> st.plans,
               ok |-> st.ok]
         /\ [st EXCEPT !.ok = b] =
              [db |-> st.db, sessions |-> st.sessions, turns |-> st.turns,
               plans |-> st.plans, ok |-> b]
<1> DEFINE u == [st EXCEPT !.db = d]
<1>1. u = [db |-> d, sessions |-> st.sessions, turns |-> st.turns, plans |-> st.plans,
           ok |-> st.ok]
  BY DEF IsBatch
<1>2. [st EXCEPT !.db = d, !.turns = t] = [u EXCEPT !.turns = t]
  OBVIOUS
<1>3. [st EXCEPT !.ok = b] = [db |-> st.db, sessions |-> st.sessions, turns |-> st.turns,
                              plans |-> st.plans, ok |-> b]
  BY DEF IsBatch
<1> HIDE DEF u
<1>4. [u EXCEPT !.turns = t] =
        [db |-> d, sessions |-> st.sessions, turns |-> t, plans |-> st.plans, ok |-> st.ok]
  BY <1>1
<1> QED BY <1>2, <1>3, <1>4

LEMMA ThrowFacts ==
  ASSUME NEW st, IsBatch(st)
  PROVE  /\ IsBatch(Throw(st)) /\ Throw(st).db = st.db /\ Throw(st).plans = st.plans
         /\ ~Throw(st).ok
<1> DEFINE s == Throw(st)
<1>1. s = [db |-> st.db, sessions |-> st.sessions, turns |-> st.turns, plans |-> st.plans,
           ok |-> FALSE]
  BY BatchExcept DEF Throw
<1>2. s.ok = FALSE
  BY <1>1
<1>3. ~s.ok
  BY <1>2
<1> HIDE DEF s
<1>4. IsBatch(s) /\ s.db = st.db /\ s.plans = st.plans
  BY <1>1 DEF IsBatch
<1> QED BY <1>3, <1>4 DEF s

LEMMA RepairTurnCases ==
  ASSUME NEW st, IsBatch(st), NEW ref, NEW h
  PROVE  LET repaired == RepairSession(st, ref.of)
             p == RepairedTurn(repaired, ref, h) IN
         \/ /\ RepairTurn(st, ref, h) = st
            /\ ref = Null \/ ~ref.spool \/ Has(st.turns, ref)
         \/ RepairTurn(st, ref, h) = Throw(st)
         \/ /\ ref # Null /\ ref.spool /\ ~Has(st.turns, ref) /\ TurnKeys(repaired.db, p)
            /\ RepairTurn(st, ref, h) =
                 [db |-> WriteTurn(repaired.db, p), sessions |-> repaired.sessions,
                  turns |-> Upsert(repaired.turns, ref, TurnId(p)),
                  plans |-> repaired.plans, ok |-> repaired.ok]
<1> DEFINE repaired == RepairSession(st, ref.of)
           p == RepairedTurn(repaired, ref, h)
<1>1. IsBatch(repaired)
  BY RepairSessionFacts
<1>2. CASE ref = Null
  BY <1>2 DEF RepairTurn
<1>3. CASE ref # Null /\ (~ref.spool \/ Has(st.turns, ref))
  BY <1>3 DEF RepairTurn
<1>4. CASE ref # Null /\ ref.spool /\ ~Has(st.turns, ref) /\ ~Parses(ref)
  BY <1>4 DEF RepairTurn
<1>5. CASE ref # Null /\ ref.spool /\ ~Has(st.turns, ref) /\ Parses(ref)
  <2> DEFINE d == WriteTurn(repaired.db, p)
             t == Upsert(repaired.turns, ref, TurnId(p))
  <2>1. RepairTurn(st, ref, h) =
          IF ~TurnKeys(repaired.db, p) THEN Throw(st)
          ELSE [repaired EXCEPT !.db = d, !.turns = t]
    BY <1>5 DEF RepairTurn, RepairedTurn
  <2> HIDE DEF repaired, p, d, t
  <2>2. [repaired EXCEPT !.db = d, !.turns = t] =
          [db |-> d, sessions |-> repaired.sessions, turns |-> t,
           plans |-> repaired.plans, ok |-> repaired.ok]
    BY <1>1, BatchExcept
  <2> QED BY <1>5, <2>1, <2>2 DEF repaired, p, d, t
<1> QED BY <1>2, <1>3, <1>4, <1>5

LEMMA RepairTurnFacts ==
  ASSUME NEW st, IsBatch(st), NEW ref, NEW h
  PROVE  LET s == RepairTurn(st, ref, h) IN
         /\ IsBatch(s) /\ s.plans = st.plans
         /\ Keeps(st.db, s.db)
<1> DEFINE repaired == RepairSession(st, ref.of)
           p == RepairedTurn(repaired, ref, h)
           e == WriteTurn(repaired.db, p)
           s == RepairTurn(st, ref, h)
           t == Upsert(repaired.turns, ref, TurnId(p))
<1>1. IsBatch(repaired) /\ repaired.plans = st.plans /\ Keeps(st.db, repaired.db)
  BY RepairSessionFacts
<1>2. IsDb(e) /\ Keeps(repaired.db, e)
  BY <1>1, WriteTurnFacts, TurnKeeps DEF IsBatch
<1>3. Keeps(st.db, e)
  BY <1>1, <1>2, KeepsTransitive
<1>4. \/ s = st
      \/ s = Throw(st)
      \/ s = [db |-> e, sessions |-> repaired.sessions, turns |-> t,
              plans |-> repaired.plans, ok |-> repaired.ok]
  BY RepairTurnCases
<1> HIDE DEF repaired, p, e, s, t
<1>5. CASE s = st
  BY <1>5, KeepsSelf DEF s
<1>6. CASE s = Throw(st)
  <2>1. Throw(st).plans = st.plans
    BY DEF Throw, IsBatch
  <2> QED BY <1>6, <2>1, KeepsSelf, ThrowFacts DEF s
<1>7. CASE s = [db |-> e, sessions |-> repaired.sessions, turns |-> t,
                plans |-> repaired.plans, ok |-> repaired.ok]
  <2>1. IsBatch(s) /\ s.plans = st.plans /\ s.db = e
    BY <1>1, <1>2, <1>7 DEF IsBatch
  <2> QED BY <1>3, <2>1 DEF s
<1> QED BY <1>4, <1>5, <1>6, <1>7

LEMMA RepairFacts ==
  ASSUME NEW st, IsBatch(st), NEW p
  PROVE  LET s == Repair(st, p) IN
         IsBatch(s) /\ s.plans = st.plans /\ Keeps(st.db, s.db)
<1> DEFINE parent == IF p.type \in Children THEN RepairSession(st, p.of) ELSE st
           s == Repair(st, p)
<1>1. IsBatch(parent) /\ parent.plans = st.plans /\ Keeps(st.db, parent.db)
  BY RepairSessionFacts, KeepsSelf
<1>2. s = IF p.type \in Leaves THEN RepairTurn(parent, p.within, p.harness) ELSE parent
  BY DEF Repair
<1> HIDE DEF parent, s
<1>3. CASE p.type \in Leaves
  <2>1. IsBatch(s) /\ s.plans = parent.plans /\ Keeps(parent.db, s.db)
    BY <1>1, <1>2, <1>3, RepairTurnFacts
  <2>2. Keeps(st.db, s.db)
    BY <1>1, <2>1, KeepsTransitive
  <2> QED BY <1>1, <2>1, <2>2 DEF s
<1>4. CASE p.type \notin Leaves
  BY <1>1, <1>2, <1>4 DEF s
<1> QED BY <1>3, <1>4

\* A record has the fields its type says.
IsRecord(p) ==
  /\ p.type \in Types
  /\ p.type = "turn" =>
       p = [type |-> "turn", harness |-> p.harness, of |-> p.of, turn |-> p.turn,
            started |-> p.started, ended |-> p.ended]
  /\ p.type = "message" =>
       p = [type |-> "message", harness |-> p.harness, of |-> p.of, within |-> p.within,
            paid |-> p.paid, message |-> p.message, tokens |-> p.tokens]
  /\ p.type = "tool" =>
       p = [type |-> "tool", harness |-> p.harness, of |-> p.of, within |-> p.within,
            tool |-> p.tool, ended |-> p.ended]

LEMMA ResolveFacts ==
  ASSUME NEW st, NEW p, IsRecord(p)
  PROVE  /\ p.type = "turn" =>
              Resolve(st, p) = [type |-> "turn", harness |-> p.harness,
                                of |-> SessionOf(st, p.of), turn |-> p.turn,
                                started |-> p.started, ended |-> p.ended]
         /\ p.type = "message" =>
              Resolve(st, p) = [type |-> "message", harness |-> p.harness,
                                of |-> SessionOf(st, p.of), within |-> TurnOf(st, p.within),
                                paid |-> PlanOf(st, p.paid), message |-> p.message,
                                tokens |-> p.tokens]
         /\ p.type = "tool" =>
              Resolve(st, p) = [type |-> "tool", harness |-> p.harness,
                                of |-> SessionOf(st, p.of), within |-> TurnOf(st, p.within),
                                tool |-> p.tool, ended |-> p.ended]
         /\ p.type \notin Children => Resolve(st, p) = p
         /\ Resolve(st, p).type = p.type
<1>1. CASE p.type = "turn"
  BY <1>1 DEF IsRecord, Resolve, Children
<1>2. CASE p.type = "message"
  <2> DEFINE u == [p EXCEPT !.of = SessionOf(st, @)]
             v == [u EXCEPT !.within = TurnOf(st, @)]
  <2>1. Resolve(st, p) = [v EXCEPT !.paid = PlanOf(st, @)]
    BY <1>2 DEF Resolve, IsRecord
  <2>2. u = [type |-> "message", harness |-> p.harness, of |-> SessionOf(st, p.of),
             within |-> p.within, paid |-> p.paid, message |-> p.message,
             tokens |-> p.tokens]
    BY <1>2 DEF IsRecord
  <2> HIDE DEF u
  <2>3. v = [type |-> "message", harness |-> p.harness, of |-> SessionOf(st, p.of),
             within |-> TurnOf(st, p.within), paid |-> p.paid, message |-> p.message,
             tokens |-> p.tokens]
    BY <2>2
  <2> HIDE DEF v
  <2>4. Resolve(st, p) =
          [type |-> "message", harness |-> p.harness, of |-> SessionOf(st, p.of),
           within |-> TurnOf(st, p.within), paid |-> PlanOf(st, p.paid),
           message |-> p.message, tokens |-> p.tokens]
    BY <2>1, <2>3
  <2> QED BY <1>2, <2>4 DEF Children
<1>3. CASE p.type = "tool"
  <2> DEFINE u == [p EXCEPT !.of = SessionOf(st, @)]
  <2>1. Resolve(st, p) = [u EXCEPT !.within = TurnOf(st, @)]
    BY <1>3 DEF Resolve, IsRecord
  <2>2. u = [type |-> "tool", harness |-> p.harness, of |-> SessionOf(st, p.of),
             within |-> p.within, tool |-> p.tool, ended |-> p.ended]
    BY <1>3 DEF IsRecord
  <2> HIDE DEF u
  <2>3. Resolve(st, p) = [type |-> "tool", harness |-> p.harness, of |-> SessionOf(st, p.of),
             within |-> TurnOf(st, p.within), tool |-> p.tool, ended |-> p.ended]
    BY <2>1, <2>2
  <2> QED BY <1>3, <2>3 DEF Children
<1>4. CASE p.type \notin Children
  BY <1>4 DEF Resolve, Children
<1> QED BY <1>1, <1>2, <1>3, <1>4 DEF Children

LEMMA RememberFacts ==
  ASSUME NEW st, IsBatch(st), NEW p, NEW r
  PROVE  /\ IsBatch(Remember(st, p, r)) /\ Remember(st, p, r).db = st.db
         /\ Remember(st, p, r).ok = st.ok
<1>1. CASE p.type = "session"
  BY <1>1 DEF Remember, IsBatch
<1>2. CASE p.type = "turn"
  BY <1>2 DEF Remember, IsBatch
<1>3. CASE p.type = "plan"
  BY <1>3 DEF Remember, IsBatch
<1>4. CASE p.type \notin {"session", "turn", "plan"}
  BY <1>4 DEF Remember, IsBatch
<1> QED BY <1>1, <1>2, <1>3, <1>4

\* What a record does when it is applied.
LEMMA ApplyCases ==
  ASSUME NEW st, IsBatch(st), NEW p, IsRecord(p)
  PROVE  LET s == Repair(st, p)
             r == Resolve(s, p)
             w == [db |-> Write(s.db, r), sessions |-> s.sessions, turns |-> s.turns,
                   plans |-> s.plans, ok |-> s.ok] IN
         \/ Apply(st, p) = Throw(s) /\ ~Apply(st, p).ok
         \/ /\ s.ok /\ KeysHold(s.db, r)
            /\ IsBatch(w) /\ Keeps(s.db, w.db)
            /\ Apply(st, p) = Remember(w, p, r)
<1> DEFINE s == Repair(st, p)
           r == Resolve(s, p)
           w == [s EXCEPT !.db = Write(@, r)]
<1>1. IsBatch(s)
  BY RepairFacts
<1>2. r.type = p.type
  BY ResolveFacts
<1>3. IsDb(Write(s.db, r)) /\ Keeps(s.db, Write(s.db, r))
  BY <1>1, <1>2, WriteKeeps DEF IsBatch, IsRecord
<1>4. Apply(st, p) = IF ~s.ok \/ ~KeysHold(s.db, r) THEN Throw(s) ELSE Remember(w, p, r)
  BY DEF Apply
<1>5. ~Throw(s).ok
  BY <1>1, ThrowFacts
<1> HIDE DEF s, r
<1>6. w = [db |-> Write(s.db, r), sessions |-> s.sessions, turns |-> s.turns,
           plans |-> s.plans, ok |-> s.ok]
  BY <1>1 DEF IsBatch
<1>7. IsBatch(w) /\ w.db = Write(s.db, r)
  BY <1>3, <1>6 DEF IsBatch
<1> HIDE DEF w
<1>8. CASE ~s.ok \/ ~KeysHold(s.db, r)
  BY <1>4, <1>5, <1>8 DEF s
<1>9. CASE ~(~s.ok \/ ~KeysHold(s.db, r))
  BY <1>3, <1>4, <1>6, <1>7, <1>9 DEF s, r
<1> QED BY <1>8, <1>9

LEMMA ApplyKeeps ==
  ASSUME NEW st, IsBatch(st), NEW p, IsRecord(p)
  PROVE  IsBatch(Apply(st, p)) /\ Keeps(st.db, Apply(st, p).db)
<1> DEFINE s == Repair(st, p)
           r == Resolve(s, p)
           w == [db |-> Write(s.db, r), sessions |-> s.sessions, turns |-> s.turns,
                 plans |-> s.plans, ok |-> s.ok]
<1>1. IsBatch(s) /\ Keeps(st.db, s.db)
  BY RepairFacts
<1>2. \/ Apply(st, p) = Throw(s)
      \/ IsBatch(w) /\ Keeps(s.db, w.db) /\ Apply(st, p) = Remember(w, p, r)
  BY ApplyCases
<1> HIDE DEF s, r, w
<1>3. CASE Apply(st, p) = Throw(s)
  BY <1>1, <1>3, ThrowFacts
<1>4. CASE IsBatch(w) /\ Keeps(s.db, w.db) /\ Apply(st, p) = Remember(w, p, r)
  BY <1>1, <1>4, RememberFacts, KeepsTransitive
<1> QED BY <1>2, <1>3, <1>4
-----------------------------------------------------------------------------
(* What a call may say: the references it may hold, and its records        *)

Sessions(c) == {Meant(c), SessionRef(TRUE, c.harness, c.session)}
TurnRefs(c) == {MeantTurn(c)} \cup {TurnRef(TRUE, r, c.turn) : r \in Sessions(c)}
PlanRefs(c) == {MeantPlan(c), PlanRef(TRUE, c.harness, c.plan)}
Withins(c) == IF c.turn = Null THEN {Null} ELSE TurnRefs(c)
Payers(c) == IF c.plan = Null THEN {Null} ELSE PlanRefs(c)

Records(c) ==
  CASE c.type = "harness" -> {HarnessPayload(c)}
    [] c.type = "session" -> {SessionPayload(c)}
    [] c.type = "turn"    ->
         {[type |-> "turn", harness |-> c.harness, of |-> o,
           turn |-> c.turn, started |-> c.started, ended |-> c.ended] : o \in Sessions(c)}
    [] c.type = "plan"    -> {SubscriptionPayload(c)}
    [] c.type = "message" ->
         {[type |-> "message", harness |-> c.harness, of |-> x[1], within |-> x[2],
           paid |-> x[3], message |-> c.message, tokens |-> c.tokens] :
           x \in Sessions(c) \X Withins(c) \X Payers(c)}
    [] c.type = "tool"    ->
         {[type |-> "tool", harness |-> c.harness, of |-> x[1], within |-> x[2],
           tool |-> c.tool, ended |-> c.ended] : x \in Sessions(c) \X Withins(c)}
    [] c.type = "raw"     -> {RawEventPayload(c)}

LEMMA RecordFacts ==
  ASSUME NEW c, c.type \in Types, NEW p \in Records(c)
  PROVE  /\ p.type = c.type /\ p.harness = c.harness /\ IsRecord(p)
         /\ c.type = "harness" => p = HarnessPayload(c)
         /\ c.type = "session" => p = SessionPayload(c)
         /\ c.type = "turn" =>
              /\ p.of \in Sessions(c) /\ p.turn = c.turn
              /\ p.started = c.started /\ p.ended = c.ended
         /\ c.type = "plan" => p = SubscriptionPayload(c)
         /\ c.type = "message" =>
              /\ p.of \in Sessions(c) /\ p.within \in Withins(c) /\ p.paid \in Payers(c)
              /\ p.message = c.message /\ p.tokens = c.tokens
         /\ c.type = "tool" =>
              /\ p.of \in Sessions(c) /\ p.within \in Withins(c)
              /\ p.tool = c.tool /\ p.ended = c.ended
<1>1. CASE c.type = "harness"
  BY <1>1 DEF Records, HarnessPayload, IsRecord, Types
<1>2. CASE c.type = "session"
  BY <1>2 DEF Records, SessionPayload, IsRecord, Types
<1>3. CASE c.type = "turn"
  <2>1. PICK o \in Sessions(c) :
          p = [type |-> "turn", harness |-> c.harness, of |-> o,
               turn |-> c.turn, started |-> c.started, ended |-> c.ended]
    BY <1>3 DEF Records
  <2> QED BY <1>3, <2>1 DEF IsRecord, Types
<1>4. CASE c.type = "plan"
  BY <1>4 DEF Records, SubscriptionPayload, IsRecord, Types
<1>5. CASE c.type = "message"
  <2>1. PICK x \in Sessions(c) \X Withins(c) \X Payers(c) :
          p = [type |-> "message", harness |-> c.harness, of |-> x[1], within |-> x[2],
               paid |-> x[3], message |-> c.message, tokens |-> c.tokens]
    BY <1>5 DEF Records
  <2>2. x[1] \in Sessions(c) /\ x[2] \in Withins(c) /\ x[3] \in Payers(c)
    OBVIOUS
  <2> QED BY <1>5, <2>1, <2>2 DEF IsRecord, Types
<1>6. CASE c.type = "tool"
  <2>1. PICK x \in Sessions(c) \X Withins(c) :
          p = [type |-> "tool", harness |-> c.harness, of |-> x[1], within |-> x[2],
               tool |-> c.tool, ended |-> c.ended]
    BY <1>6 DEF Records
  <2>2. x[1] \in Sessions(c) /\ x[2] \in Withins(c)
    OBVIOUS
  <2> QED BY <1>6, <2>1, <2>2 DEF IsRecord, Types
<1>7. CASE c.type = "raw"
  BY <1>7 DEF Records, RawEventPayload, IsRecord, Types
<1> QED BY <1>1, <1>2, <1>3, <1>4, <1>5, <1>6, <1>7 DEF Types

\* The other way round: what has the fields is a record of the call.
LEMMA TurnRecord ==
  ASSUME NEW c, c.type = "turn", NEW o \in Sessions(c)
  PROVE  [type |-> "turn", harness |-> c.harness, of |-> o,
          turn |-> c.turn, started |-> c.started, ended |-> c.ended] \in Records(c)
BY DEF Records

LEMMA MessageRecord ==
  ASSUME NEW c, c.type = "message", NEW o \in Sessions(c), NEW w \in Withins(c),
         NEW q \in Payers(c)
  PROVE  [type |-> "message", harness |-> c.harness, of |-> o, within |-> w,
          paid |-> q, message |-> c.message, tokens |-> c.tokens] \in Records(c)
<1> DEFINE x == <<o, w, q>>
<1>1. /\ x \in Sessions(c) \X Withins(c) \X Payers(c)
      /\ x[1] = o /\ x[2] = w /\ x[3] = q
  OBVIOUS
<1> HIDE DEF x
<1> QED BY <1>1 DEF Records

LEMMA ToolRecord ==
  ASSUME NEW c, c.type = "tool", NEW o \in Sessions(c), NEW w \in Withins(c)
  PROVE  [type |-> "tool", harness |-> c.harness, of |-> o, within |-> w,
          tool |-> c.tool, ended |-> c.ended] \in Records(c)
<1> DEFINE x == <<o, w>>
<1>1. x \in Sessions(c) \X Withins(c) /\ x[1] = o /\ x[2] = w
  OBVIOUS
<1> HIDE DEF x
<1> QED BY <1>1 DEF Records
-----------------------------------------------------------------------------
(* The harness: what its ids stand for, and what it says                   *)

MadeRight ==
  /\ made \subseteq Calls /\ lost \subseteq made
  /\ \A c, d \in made : Compatible(c, d)
  /\ \A c \in made : c.type \in Children =>
       \E e \in made : e.type = "session" /\ e.session = c.session

\* The id kept under a name identifies what a call was made about.
Identifies(n, ref, c) ==
  \/ c.type = "session" /\ n = SessionName(c) /\ ref \in Sessions(c)
  \/ c.type = "turn" /\ n = TurnName(c) /\ ref \in TurnRefs(c)
  \/ c.type = "plan" /\ n = PlanName(c) /\ ref \in PlanRefs(c)

IdsRight == \A n \in DOMAIN ids : \E c \in made : Identifies(n, ids[n], c)

LEMMA DueFacts ==
  ASSUME MadeRight, NEW c \in Calls, Due(c)
  PROVE  /\ c \notin made /\ c.type \in Types
         /\ \A x, y \in made \cup {c} : Compatible(x, y)
<1>1. PICK report \in Reports : made \cup {c} \subseteq report
  BY DEF Due
<1> QED BY <1>1, ReportsAssumption DEF Due

LEMMA SessionsKnown ==
  ASSUME MadeRight, IdsRight, NEW c \in Calls, Due(c), SessionName(c) \in DOMAIN ids
  PROVE  /\ ids[SessionName(c)] \in Sessions(c)
         /\ \E e \in made : e.type = "session" /\ e.session = c.session
<1>1. PICK e \in made : Identifies(SessionName(c), ids[SessionName(c)], e)
  BY DEF IdsRight
<1>2. SessionName(c)[1] = "session" /\ SessionName(c)[2] = c.session
  BY DEF SessionName
<1>3. e.type = "session" /\ SessionName(c) = SessionName(e)
      /\ ids[SessionName(c)] \in Sessions(e)
  <2>1. TurnName(e)[1] = "turn" /\ PlanName(e)[1] = "plan"
    BY DEF TurnName, PlanName
  <2> QED BY <1>1, <1>2, <2>1 DEF Identifies
<1>4. e.session = c.session
  BY <1>2, <1>3 DEF SessionName
<1>5. e.harness = c.harness
  BY DueFacts DEF Compatible
<1>6. Sessions(e) = Sessions(c)
  BY <1>4, <1>5 DEF Sessions, Meant
<1> QED BY <1>3, <1>4, <1>6

LEMMA TurnsKnown ==
  ASSUME MadeRight, IdsRight, NEW c \in Calls, Due(c), TurnName(c) \in DOMAIN ids
  PROVE  ids[TurnName(c)] \in TurnRefs(c)
<1>1. PICK e \in made : Identifies(TurnName(c), ids[TurnName(c)], e)
  BY DEF IdsRight
<1>2. TurnName(c)[1] = "turn" /\ TurnName(c)[2] = c.session /\ TurnName(c)[3] = c.turn
  BY DEF TurnName
<1>3. TurnName(c) = TurnName(e) /\ ids[TurnName(c)] \in TurnRefs(e)
  <2>1. SessionName(e)[1] = "session" /\ PlanName(e)[1] = "plan"
    BY DEF SessionName, PlanName
  <2> QED BY <1>1, <1>2, <2>1 DEF Identifies
<1>4. e.session = c.session /\ e.turn = c.turn
  BY <1>2, <1>3 DEF TurnName
<1>5. e.harness = c.harness
  BY DueFacts DEF Compatible
<1>6. TurnRefs(e) = TurnRefs(c)
  BY <1>4, <1>5 DEF TurnRefs, MeantTurn, Sessions, Meant
<1> QED BY <1>3, <1>6

LEMMA PlansKnown ==
  ASSUME MadeRight, IdsRight, NEW c \in Calls, Due(c), PlanName(c) \in DOMAIN ids
  PROVE  ids[PlanName(c)] \in PlanRefs(c)
<1>1. PICK e \in made : Identifies(PlanName(c), ids[PlanName(c)], e)
  BY DEF IdsRight
<1>2. PlanName(c)[1] = "plan" /\ PlanName(c)[2] = c.plan
  BY DEF PlanName
<1>3. PlanName(c) = PlanName(e) /\ ids[PlanName(c)] \in PlanRefs(e)
  <2>1. SessionName(e)[1] = "session" /\ TurnName(e)[1] = "turn"
    BY DEF SessionName, TurnName
  <2> QED BY <1>1, <1>2, <2>1 DEF Identifies
<1>4. e.plan = c.plan
  BY <1>2, <1>3 DEF PlanName
<1>5. e.harness = c.harness
  BY DueFacts DEF Compatible
<1>6. PlanRefs(e) = PlanRefs(c)
  BY <1>4, <1>5 DEF PlanRefs, MeantPlan
<1> QED BY <1>3, <1>6

\* What a harness says of a call is one of the call's records.
LEMMA PayloadRight ==
  ASSUME MadeRight, IdsRight, NEW c \in Calls, Due(c)
  PROVE  /\ Payload(c) \in Records(c)
         /\ c.type \in Children =>
              \E e \in made : e.type = "session" /\ e.session = c.session
<1> Needs(c) \subseteq DOMAIN ids /\ c.type \in Types
  BY DueFacts DEF Due
<1>1. c.type \in Children => SessionName(c) \in DOMAIN ids
  BY DEF Needs
<1>2. c.type \in Leaves => Within(c) \in Withins(c)
  <2>1. CASE c.turn = Null
    BY <2>1 DEF Within, Withins
  <2>2. CASE c.turn # Null
    BY <2>2, TurnsKnown DEF Within, Withins, Needs
  <2> QED BY <2>1, <2>2
<1>3. c.type = "message" =>
        (IF c.plan = Null THEN Null ELSE ids[PlanName(c)]) \in Payers(c)
  <2>1. CASE c.plan = Null
    BY <2>1 DEF Payers
  <2>2. CASE c.plan # Null
    BY <2>2, PlansKnown DEF Payers, Needs
  <2> QED BY <2>1, <2>2
<1>4. ASSUME c.type \in Children PROVE Payload(c) \in Records(c)
  <2>1. ids[SessionName(c)] \in Sessions(c)
    BY <1>1, <1>4, SessionsKnown
  <2>2. CASE c.type = "turn"
    <3>1. Payload(c) = TurnPayload(c)
      BY <2>2 DEF Payload
    <3>2. TurnPayload(c) \in Records(c)
      BY <2>1, <2>2, TurnRecord DEF TurnPayload
    <3> QED BY <3>1, <3>2
  <2>3. CASE c.type = "message"
    <3>1. Payload(c) = LlmMessagePayload(c)
      BY <2>3 DEF Payload
    <3>2. LlmMessagePayload(c) \in Records(c)
      BY <1>2, <1>3, <2>1, <2>3, MessageRecord DEF LlmMessagePayload, Leaves
    <3> QED BY <3>1, <3>2
  <2>4. CASE c.type = "tool"
    <3>1. Payload(c) = ToolCallPayload(c)
      BY <2>4 DEF Payload
    <3>2. ToolCallPayload(c) \in Records(c)
      BY <1>2, <2>1, <2>4, ToolRecord DEF ToolCallPayload, Leaves
    <3> QED BY <3>1, <3>2
  <2> QED BY <1>4, <2>2, <2>3, <2>4 DEF Children
<1>5. ASSUME c.type \notin Children PROVE Payload(c) \in Records(c)
  <2>1. CASE c.type = "harness"
    <3>1. Payload(c) = HarnessPayload(c)
      BY <2>1 DEF Payload
    <3>2. Records(c) = {HarnessPayload(c)}
      BY <2>1 DEF Records
    <3> QED BY <3>1, <3>2
  <2>2. CASE c.type = "session"
    <3>1. Payload(c) = SessionPayload(c)
      BY <2>2 DEF Payload
    <3>2. Records(c) = {SessionPayload(c)}
      BY <2>2 DEF Records
    <3> QED BY <3>1, <3>2
  <2>3. CASE c.type = "plan"
    <3>1. Payload(c) = SubscriptionPayload(c)
      BY <2>3 DEF Payload
    <3>2. Records(c) = {SubscriptionPayload(c)}
      BY <2>3 DEF Records
    <3> QED BY <3>1, <3>2
  <2>4. CASE c.type = "raw"
    <3>1. Payload(c) = RawEventPayload(c)
      BY <2>4 DEF Payload
    <3>2. Records(c) = {RawEventPayload(c)}
      BY <2>4 DEF Records
    <3> QED BY <3>1, <3>2
  <2> QED BY <1>5, <2>1, <2>2, <2>3, <2>4 DEF Types, Children
<1> QED BY <1>1, <1>4, <1>5, SessionsKnown

\* And what it is answered identifies what the call was about, if the row of
\* a turn is of a session's row.
LEMMA AnswerRight ==
  ASSUME NEW c, c.type \in Types, NEW p \in Records(c), NEW spooled \in BOOLEAN,
         ~spooled /\ c.type = "turn" => p.of = Meant(c),
         NEW n \in Named(c)
  PROVE  Identifies(n, Answer(p, spooled), c)
<1>1. c.type \in {"session", "turn", "plan"}
  BY DEF Named
<1>2. CASE c.type = "session"
  <2>1. p = SessionPayload(c) /\ n = SessionName(c)
    BY <1>2, RecordFacts DEF Named
  <2>2. Answer(p, spooled) = SessionRef(spooled, c.harness, c.session)
    BY <1>2, <2>1 DEF Answer, SessionPayload
  <2> QED BY <1>2, <2>1, <2>2 DEF Identifies, Sessions, Meant
<1>3. CASE c.type = "turn"
  <2>1. p.of \in Sessions(c) /\ p.turn = c.turn /\ p.type = "turn" /\ n = TurnName(c)
    BY <1>3, RecordFacts DEF Named
  <2>2. Answer(p, spooled) = TurnRef(spooled, p.of, c.turn)
    BY <2>1 DEF Answer
  <2> QED BY <1>3, <2>1, <2>2 DEF Identifies, TurnRefs, MeantTurn
<1>4. CASE c.type = "plan"
  <2>1. p = SubscriptionPayload(c) /\ n = PlanName(c)
    BY <1>4, RecordFacts DEF Named
  <2>2. Answer(p, spooled) = PlanRef(spooled, c.harness, c.plan)
    BY <1>4, <2>1 DEF Answer, SubscriptionPayload
  <2> QED BY <1>4, <2>1, <2>2 DEF Identifies, PlanRefs, MeantPlan
<1> QED BY <1>1, <1>2, <1>3, <1>4
-----------------------------------------------------------------------------
(* The tables: what each row belongs to                                    *)

Lawful(M) == M \subseteq Calls /\ \A c, d \in M : Compatible(c, d)

SessionsRight(d, M) ==
  \A k \in DOMAIN d.sessions : \E c \in M : c.type \in Children \cup {"session"} /\ k = Meant(c)
TurnsRight(d, M) ==
  \A k \in DOMAIN d.turns : \E c \in M : c.type \in Children /\ k = MeantTurn(c)
PlansRight(d, M) ==
  \A k \in DOMAIN d.plans : \E c \in M : c.type = "plan" /\ k = MeantPlan(c)

\* A row that belongs to what the calls about it say.
LinkedSession(d, row, c) == row.of = Meant(c) /\ row.of \in DOMAIN d.sessions
LinkedTurn(d, row, S) ==
  row.within # Null => row.within \in DOMAIN d.turns /\ \E e \in S : row.within = MeantTurn(e)
LinkedPlan(d, row, S) ==
  row.paid # Null => row.paid \in DOMAIN d.plans /\ \E e \in S : row.paid = MeantPlan(e)

OfMessage(M, k) == {c \in M : c.type = "message" /\ MessageId(c) = k}
OfTool(M, k) == {c \in M : c.type = "tool" /\ ToolId(c) = k}

MessagesRight(d, M) ==
  \A k \in DOMAIN d.messages :
    /\ \E c \in OfMessage(M, k) : LinkedSession(d, d.messages[k], c)
    /\ LinkedTurn(d, d.messages[k], OfMessage(M, k))
    /\ LinkedPlan(d, d.messages[k], OfMessage(M, k))
ToolsRight(d, M) ==
  \A k \in DOMAIN d.tools :
    /\ \E c \in OfTool(M, k) : LinkedSession(d, d.tools[k], c)
    /\ LinkedTurn(d, d.tools[k], OfTool(M, k))

TablesRight(d, M) ==
  /\ SessionsRight(d, M) /\ TurnsRight(d, M) /\ PlansRight(d, M)
  /\ MessagesRight(d, M) /\ ToolsRight(d, M)

\* A placeholder is no id.
LEMMA Placeholders ==
  ASSUME NEW h, NEW s, NEW g, NEW r
  PROVE  /\ SessionRef(TRUE, h, s) # SessionRef(FALSE, g, r)
         /\ TurnRef(TRUE, h, s) # TurnRef(FALSE, g, r)
         /\ PlanRef(TRUE, h, s) # PlanRef(FALSE, g, r)
<1>1. SessionRef(TRUE, h, s).spool = TRUE /\ SessionRef(FALSE, g, r).spool = FALSE
  BY DEF SessionRef
<1>2. TurnRef(TRUE, h, s).spool = TRUE /\ TurnRef(FALSE, g, r).spool = FALSE
  BY DEF TurnRef
<1>3. PlanRef(TRUE, h, s).spool = TRUE /\ PlanRef(FALSE, g, r).spool = FALSE
  BY DEF PlanRef
<1> QED BY <1>1, <1>2, <1>3

\* So a reference that a foreign key finds is the id that was meant.
LEMMA FoundSession ==
  ASSUME NEW d, NEW M, SessionsRight(d, M), NEW c, NEW r \in Sessions(c),
         r \in DOMAIN d.sessions
  PROVE  r = Meant(c)
<1>1. PICK e \in M : r = SessionRef(FALSE, e.harness, e.session)
  BY DEF SessionsRight, Meant
<1>2. r = Meant(c) \/ r = SessionRef(TRUE, c.harness, c.session)
  BY DEF Sessions
<1> QED BY <1>1, <1>2, Placeholders

LEMMA FoundTurn ==
  ASSUME NEW d, NEW M, TurnsRight(d, M), NEW c, NEW r \in TurnRefs(c), r \in DOMAIN d.turns
  PROVE  r = MeantTurn(c)
<1>1. PICK e \in M : r = TurnRef(FALSE, Meant(e), e.turn)
  BY DEF TurnsRight, MeantTurn
<1>2. r = MeantTurn(c) \/ \E o \in Sessions(c) : r = TurnRef(TRUE, o, c.turn)
  BY DEF TurnRefs
<1> QED BY <1>1, <1>2, Placeholders

LEMMA FoundPlan ==
  ASSUME NEW d, NEW M, PlansRight(d, M), NEW c, NEW r \in PlanRefs(c), r \in DOMAIN d.plans
  PROVE  r = MeantPlan(c)
<1>1. PICK e \in M : r = PlanRef(FALSE, e.harness, e.plan)
  BY DEF PlansRight, MeantPlan
<1>2. r = MeantPlan(c) \/ r = PlanRef(TRUE, c.harness, c.plan)
  BY DEF PlanRefs
<1> QED BY <1>1, <1>2, Placeholders

LEMMA FoundOwnTurn ==
  ASSUME NEW d, NEW M, TurnsRight(d, M), NEW c, NEW r \in Sessions(c),
         TurnRef(FALSE, r, c.turn) \in DOMAIN d.turns
  PROVE  r = Meant(c)
<1>1. PICK e \in M : TurnRef(FALSE, r, c.turn) = TurnRef(FALSE, Meant(e), e.turn)
  BY DEF TurnsRight, MeantTurn
<1>2. r = SessionRef(FALSE, e.harness, e.session)
  <2>1. TurnRef(FALSE, r, c.turn).of = r /\ TurnRef(FALSE, Meant(e), e.turn).of = Meant(e)
    BY DEF TurnRef
  <2> QED BY <1>1, <2>1 DEF Meant
<1>3. r = Meant(c) \/ r = SessionRef(TRUE, c.harness, c.session)
  BY DEF Sessions
<1> QED BY <1>2, <1>3, Placeholders

\* What ids are made of.
LEMMA MeantApart ==
  ASSUME NEW c, NEW e
  PROVE  /\ Meant(c) = Meant(e) <=> c.harness = e.harness /\ c.session = e.session
         /\ MeantTurn(c) = MeantTurn(e) <=> Meant(c) = Meant(e) /\ c.turn = e.turn
         /\ MeantPlan(c) = MeantPlan(e) <=> c.harness = e.harness /\ c.plan = e.plan
         /\ MessageId(c) = MessageId(e) <=> c.harness = e.harness /\ c.message = e.message
         /\ ToolId(c) = ToolId(e) <=> c.harness = e.harness /\ c.tool = e.tool
<1>1. /\ Meant(c).harness = c.harness /\ Meant(c).session = c.session
      /\ Meant(e).harness = e.harness /\ Meant(e).session = e.session
  BY DEF Meant, SessionRef
<1>2. Meant(c) = Meant(e) <=> c.harness = e.harness /\ c.session = e.session
  BY <1>1 DEF Meant
<1>3. /\ MeantTurn(c).of = Meant(c) /\ MeantTurn(c).turn = c.turn
      /\ MeantTurn(e).of = Meant(e) /\ MeantTurn(e).turn = e.turn
  BY DEF MeantTurn, TurnRef
<1>4. MeantTurn(c) = MeantTurn(e) <=> Meant(c) = Meant(e) /\ c.turn = e.turn
  BY <1>3 DEF MeantTurn
<1>5. /\ MeantPlan(c).harness = c.harness /\ MeantPlan(c).plan = c.plan
      /\ MeantPlan(e).harness = e.harness /\ MeantPlan(e).plan = e.plan
  BY DEF MeantPlan, PlanRef
<1>6. MeantPlan(c) = MeantPlan(e) <=> c.harness = e.harness /\ c.plan = e.plan
  BY <1>5 DEF MeantPlan
<1>7. MessageId(c) = MessageId(e) <=> c.harness = e.harness /\ c.message = e.message
  BY DEF MessageId
<1>8. ToolId(c) = ToolId(e) <=> c.harness = e.harness /\ c.tool = e.tool
  BY DEF ToolId
<1> QED BY <1>2, <1>4, <1>6, <1>7, <1>8

\* Rows that are added, and rows that stay, leave the others as right as they were.
LEMMA MoreParents ==
  ASSUME NEW d, NEW e, NEW M, TablesRight(d, M),
         DOMAIN d.sessions \subseteq DOMAIN e.sessions,
         DOMAIN d.turns \subseteq DOMAIN e.turns,
         DOMAIN d.plans \subseteq DOMAIN e.plans
  PROVE  /\ e.messages = d.messages => MessagesRight(e, M)
         /\ e.tools = d.tools => ToolsRight(e, M)
<1>1. ASSUME NEW row, NEW c, NEW S
      PROVE  /\ LinkedSession(d, row, c) => LinkedSession(e, row, c)
             /\ LinkedTurn(d, row, S) => LinkedTurn(e, row, S)
             /\ LinkedPlan(d, row, S) => LinkedPlan(e, row, S)
  BY DEF LinkedSession, LinkedTurn, LinkedPlan
<1> QED BY <1>1 DEF TablesRight, MessagesRight, ToolsRight

LEMMA MoreCalls ==
  ASSUME NEW d, NEW M, NEW N, TablesRight(d, M), M \subseteq N
  PROVE  TablesRight(d, N)
<1>1. SessionsRight(d, N) /\ TurnsRight(d, N) /\ PlansRight(d, N)
  BY DEF TablesRight, SessionsRight, TurnsRight, PlansRight
<1>2. ASSUME NEW k PROVE OfMessage(M, k) \subseteq OfMessage(N, k) /\ OfTool(M, k) \subseteq OfTool(N, k)
  BY DEF OfMessage, OfTool
<1>3. ASSUME NEW row, NEW S, NEW T, S \subseteq T
      PROVE  /\ LinkedTurn(d, row, S) => LinkedTurn(d, row, T)
             /\ LinkedPlan(d, row, S) => LinkedPlan(d, row, T)
  BY <1>3 DEF LinkedTurn, LinkedPlan
<1>4. MessagesRight(d, N)
  BY <1>2, <1>3 DEF TablesRight, MessagesRight
<1>5. ToolsRight(d, N)
  BY <1>2, <1>3 DEF TablesRight, ToolsRight
<1> QED BY <1>1, <1>4, <1>5 DEF TablesRight
-----------------------------------------------------------------------------
(* Each write keeps the tables right, and what they store                  *)

LEMMA WriteHarnessRight ==
  ASSUME NEW d, IsDb(d), NEW M, TablesRight(d, M), NEW p
  PROVE  /\ TablesRight(WriteHarness(d, p), M)
         /\ \A c \in M : Stored(d, c) => Stored(WriteHarness(d, p), c)
<1> DEFINE e == WriteHarness(d, p)
<1>1. /\ e.sessions = d.sessions /\ e.turns = d.turns /\ e.plans = d.plans
      /\ e.messages = d.messages /\ e.tools = d.tools
  BY WriteHarnessFacts
<1> HIDE DEF e
<1>2. TablesRight(e, M)
  <2>1. MessagesRight(e, M) /\ ToolsRight(e, M)
    BY <1>1, MoreParents
  <2> QED BY <1>1, <2>1 DEF TablesRight, SessionsRight, TurnsRight, PlansRight
<1>3. \A c \in M : Stored(d, c) => Stored(e, c)
  BY <1>1 DEF Stored, Has
<1> QED BY <1>2, <1>3 DEF e

LEMMA WriteSessionRight ==
  ASSUME NEW d, IsDb(d), NEW M, TablesRight(d, M), NEW p,
         NEW c \in M, c.type \in Children \cup {"session"}, SessionId(p) = Meant(c)
  PROVE  TablesRight(WriteSession(d, p), M) /\ Meant(c) \in DOMAIN WriteSession(d, p).sessions
<1> DEFINE e == WriteSession(d, p)
<1>1. /\ e.sessions = Upsert(d.sessions, SessionId(p), SessionRow(d, p))
      /\ e.turns = d.turns /\ e.plans = d.plans
      /\ e.messages = d.messages /\ e.tools = d.tools
  BY WriteSessionFacts
<1> HIDE DEF e
<1>2. DOMAIN e.sessions = DOMAIN d.sessions \cup {Meant(c)}
  BY <1>1 DEF Upsert
<1>3. SessionsRight(e, M) /\ TurnsRight(e, M) /\ PlansRight(e, M)
  BY <1>1, <1>2 DEF TablesRight, SessionsRight, TurnsRight, PlansRight
<1>4. MessagesRight(e, M) /\ ToolsRight(e, M)
  BY <1>1, <1>2, MoreParents
<1> QED BY <1>2, <1>3, <1>4 DEF e, TablesRight

LEMMA WriteTurnRight ==
  ASSUME NEW d, IsDb(d), NEW M, TablesRight(d, M), NEW p,
         NEW c \in M, c.type \in Children, TurnId(p) = MeantTurn(c)
  PROVE  TablesRight(WriteTurn(d, p), M) /\ MeantTurn(c) \in DOMAIN WriteTurn(d, p).turns
<1> DEFINE e == WriteTurn(d, p)
<1>1. /\ e.turns = Upsert(d.turns, TurnId(p), TurnRow(d, p))
      /\ e.sessions = d.sessions /\ e.plans = d.plans
      /\ e.messages = d.messages /\ e.tools = d.tools
  BY WriteTurnFacts
<1> HIDE DEF e
<1>2. DOMAIN e.turns = DOMAIN d.turns \cup {MeantTurn(c)}
  BY <1>1 DEF Upsert
<1>3. SessionsRight(e, M) /\ TurnsRight(e, M) /\ PlansRight(e, M)
  BY <1>1, <1>2 DEF TablesRight, SessionsRight, TurnsRight, PlansRight
<1>4. MessagesRight(e, M) /\ ToolsRight(e, M)
  BY <1>1, <1>2, MoreParents
<1> QED BY <1>2, <1>3, <1>4 DEF e, TablesRight

LEMMA WritePlanRight ==
  ASSUME NEW d, IsDb(d), NEW M, TablesRight(d, M), NEW p,
         NEW c \in M, c.type = "plan", PlanId(p) = MeantPlan(c)
  PROVE  /\ TablesRight(WritePlan(d, p), M) /\ MeantPlan(c) \in DOMAIN WritePlan(d, p).plans
         /\ \A x \in M : Stored(d, x) => Stored(WritePlan(d, p), x)
<1> DEFINE e == WritePlan(d, p)
<1>1. /\ e.plans = Upsert(d.plans, PlanId(p), [used |-> p.used])
      /\ e.sessions = d.sessions /\ e.turns = d.turns
      /\ e.messages = d.messages /\ e.tools = d.tools
  BY WritePlanFacts
<1> HIDE DEF e
<1>2. DOMAIN e.plans = DOMAIN d.plans \cup {MeantPlan(c)}
  BY <1>1 DEF Upsert
<1>3. SessionsRight(e, M) /\ TurnsRight(e, M) /\ PlansRight(e, M)
  BY <1>1, <1>2 DEF TablesRight, SessionsRight, TurnsRight, PlansRight
<1>4. MessagesRight(e, M) /\ ToolsRight(e, M)
  BY <1>1, <1>2, MoreParents
<1>5. \A x \in M : Stored(d, x) => Stored(e, x)
  BY <1>1 DEF Stored, Has
<1> QED BY <1>2, <1>3, <1>4, <1>5 DEF e, TablesRight

\* What another write of a session or a turn says agrees with what is stored.
AgreesWith(p, c) == Agree(p.started, c.started, 0) /\ Agree(p.ended, c.ended, Null)

LEMMA WriteSessionStores ==
  ASSUME NEW d, IsDb(d), NEW p, NEW x,
         x.type = "session" /\ Meant(x) = SessionId(p) => AgreesWith(p, x),
         Stored(d, x)
  PROVE  Stored(WriteSession(d, p), x)
<1> DEFINE e == WriteSession(d, p)
<1>1. /\ e.sessions = Upsert(d.sessions, SessionId(p), SessionRow(d, p))
      /\ e.turns = d.turns /\ e.messages = d.messages /\ e.tools = d.tools
  BY WriteSessionFacts
<1> HIDE DEF e
<1>2. CASE x.type = "session" /\ Meant(x) = SessionId(p)
  <2>1. Meant(x) \in DOMAIN d.sessions /\ Reported(x, d.sessions[Meant(x)])
    BY <1>2 DEF Stored, Has
  <2>2. e.sessions[Meant(x)] = SessionRow(d, p) /\ Meant(x) \in DOMAIN e.sessions
    BY <1>1, <1>2 DEF Upsert
  <2>3. Reported(x, SessionRow(d, p))
    BY <1>2, <2>1 DEF Reported, SessionRow, Row, Has, NewTime, Coalesce, AgreesWith, Agree
  <2>4. Stored(e, x)
    BY <1>2, <2>2, <2>3 DEF Stored, Has
  <2> QED BY <2>4 DEF e
<1>3. CASE ~(x.type = "session" /\ Meant(x) = SessionId(p))
  <2>1. x.type = "session" =>
          e.sessions[Meant(x)] = d.sessions[Meant(x)] /\ Meant(x) \in DOMAIN e.sessions
    BY <1>1, <1>3 DEF Upsert, Stored, Has
  <2>2. Stored(e, x)
    BY <1>1, <1>3, <2>1 DEF Stored, Has
  <2> QED BY <2>2 DEF e
<1> QED BY <1>2, <1>3

LEMMA WriteTurnStores ==
  ASSUME NEW d, IsDb(d), NEW p, NEW x,
         x.type = "turn" /\ MeantTurn(x) = TurnId(p) => AgreesWith(p, x),
         Stored(d, x)
  PROVE  Stored(WriteTurn(d, p), x)
<1> DEFINE e == WriteTurn(d, p)
<1>1. /\ e.turns = Upsert(d.turns, TurnId(p), TurnRow(d, p))
      /\ e.sessions = d.sessions /\ e.messages = d.messages /\ e.tools = d.tools
  BY WriteTurnFacts
<1> HIDE DEF e
<1>2. CASE x.type = "turn" /\ MeantTurn(x) = TurnId(p)
  <2>1. MeantTurn(x) \in DOMAIN d.turns /\ Reported(x, d.turns[MeantTurn(x)])
    BY <1>2 DEF Stored, Has
  <2>2. e.turns[MeantTurn(x)] = TurnRow(d, p) /\ MeantTurn(x) \in DOMAIN e.turns
    BY <1>1, <1>2 DEF Upsert
  <2>3. Reported(x, TurnRow(d, p))
    BY <1>2, <2>1 DEF Reported, TurnRow, Row, Has, NewTime, Coalesce, AgreesWith, Agree
  <2>4. Stored(e, x)
    BY <1>2, <2>2, <2>3 DEF Stored, Has
  <2> QED BY <2>4 DEF e
<1>3. CASE ~(x.type = "turn" /\ MeantTurn(x) = TurnId(p))
  <2>1. x.type = "turn" =>
          e.turns[MeantTurn(x)] = d.turns[MeantTurn(x)] /\ MeantTurn(x) \in DOMAIN e.turns
    BY <1>1, <1>3 DEF Upsert, Stored, Has
  <2>2. Stored(e, x)
    BY <1>1, <1>3, <2>1 DEF Stored, Has
  <2> QED BY <2>2 DEF e
<1> QED BY <1>2, <1>3

\* A session or a turn that is written holds what was said of it.
LEMMA WriteSessionStoresOwn ==
  ASSUME NEW d, IsDb(d), NEW c, c.type = "session"
  PROVE  Stored(WriteSession(d, SessionPayload(c)), c)
<1> DEFINE p == SessionPayload(c)
           e == WriteSession(d, p)
<1>1. SessionId(p) = Meant(c) /\ p.started = c.started /\ p.ended = c.ended
  BY DEF SessionPayload, SessionId, Meant
<1>2. e.sessions = Upsert(d.sessions, SessionId(p), SessionRow(d, p))
  BY WriteSessionFacts
<1> HIDE DEF e, p
<1>3. e.sessions[Meant(c)] = SessionRow(d, p) /\ Meant(c) \in DOMAIN e.sessions
  BY <1>1, <1>2 DEF Upsert
<1>4. Reported(c, SessionRow(d, p))
  BY <1>1 DEF Reported, SessionRow, NewTime, Coalesce
<1>5. Stored(e, c)
  BY <1>3, <1>4 DEF Stored, Has
<1> QED BY <1>5 DEF e, p

LEMMA WriteTurnStoresOwn ==
  ASSUME NEW d, IsDb(d), NEW c, c.type = "turn", NEW p, TurnId(p) = MeantTurn(c),
         p.started = c.started, p.ended = c.ended
  PROVE  Stored(WriteTurn(d, p), c)
<1> DEFINE e == WriteTurn(d, p)
<1>2. e.turns = Upsert(d.turns, TurnId(p), TurnRow(d, p))
  BY WriteTurnFacts
<1> HIDE DEF e
<1>3. e.turns[MeantTurn(c)] = TurnRow(d, p) /\ MeantTurn(c) \in DOMAIN e.turns
  BY <1>2 DEF Upsert
<1>4. Reported(c, TurnRow(d, p))
  BY DEF Reported, TurnRow, NewTime, Coalesce
<1>5. Stored(e, c)
  BY <1>3, <1>4 DEF Stored, Has
<1> QED BY <1>5 DEF e
LEMMA MeantNotNull ==
  ASSUME NEW c \in Calls
  PROVE  /\ c.type \in Leaves => MeantTurn(c) # Null
         /\ c.type = "message" => MeantPlan(c) # Null
BY NullAssumption DEF MeantTurn, MeantPlan, Meant, Leaves, Children

LEMMA TurnRefsNotNull ==
  ASSUME NEW c \in Calls, c.type \in Children, NEW r \in TurnRefs(c)
  PROVE  r # Null
<1>1. \A o \in Sessions(c) : \E b \in BOOLEAN : o = SessionRef(b, c.harness, c.session)
  BY DEF Sessions, Meant
<1>2. \E o \in Sessions(c), spool \in BOOLEAN : r = TurnRef(spool, o, c.turn)
  BY DEF TurnRefs, MeantTurn, Sessions
<1> QED BY <1>1, <1>2, NullAssumption

\* The turn and the plan of a record that a foreign key let pass.
LEMMA FoundWithin ==
  ASSUME NEW d, NEW M, TablesRight(d, M), NEW c, NEW w \in Withins(c),
         w = Null \/ Has(d.turns, w)
  PROVE  /\ w # Null => w = MeantTurn(c) /\ w \in DOMAIN d.turns
         /\ c.turn # Null => w = MeantTurn(c) \/ w = Null
BY FoundTurn DEF Withins, Has, TablesRight

LEMMA WithinSaid ==
  ASSUME NEW c \in Calls, c.type \in Leaves, c.turn # Null, NEW w \in Withins(c)
  PROVE  w \in TurnRefs(c)
BY DEF Withins

LEMMA WriteMessageRight ==
  ASSUME NEW d, IsDb(d), NEW M, TablesRight(d, M),
         NEW c \in M, c.type = "message", NEW p \in Records(c), MessageKeys(d, p)
  PROVE  TablesRight(WriteMessage(d, p), M)
<1> DEFINE e == WriteMessage(d, p)
           key == MessageId(c)
           new == MessageRow(d, p)
<1>1. /\ p.of \in Sessions(c) /\ p.within \in Withins(c) /\ p.paid \in Payers(c)
      /\ p.harness = c.harness /\ p.message = c.message
  BY RecordFacts DEF Types
<1>2. MessageId(p) = key
  BY <1>1 DEF MessageId
<1>3. /\ e.messages = Upsert(d.messages, key, new)
      /\ e.sessions = d.sessions /\ e.turns = d.turns /\ e.plans = d.plans
      /\ e.tools = d.tools
  BY <1>2, WriteMessageFacts
<1>4. c \in OfMessage(M, key)
  BY DEF OfMessage
<1>5. LinkedSession(d, new, c)
  <2>1. p.of = Meant(c) /\ p.of \in DOMAIN d.sessions
    BY <1>1, FoundSession DEF MessageKeys, Has, TablesRight
  <2>2. new.of = p.of
    BY DEF MessageRow
  <2> QED BY <2>1, <2>2 DEF LinkedSession
<1>6. LinkedTurn(d, new, OfMessage(M, key))
  <2>1. p.within # Null => p.within = MeantTurn(c) /\ p.within \in DOMAIN d.turns
    BY <1>1, FoundWithin DEF MessageKeys
  <2>2. CASE p.within # Null
    <3>1. new.within = p.within
      BY <2>2 DEF MessageRow, Coalesce
    <3> QED BY <1>4, <2>1, <2>2, <3>1 DEF LinkedTurn
  <2>3. CASE p.within = Null /\ key \in DOMAIN d.messages
    <3>1. new.within = d.messages[key].within
      BY <1>2, <2>3 DEF MessageRow, Coalesce, Row, Has
    <3> QED BY <2>3, <3>1 DEF LinkedTurn, TablesRight, MessagesRight
  <2>4. CASE p.within = Null /\ key \notin DOMAIN d.messages
    <3>1. new.within = Null
      BY <1>2, <2>4 DEF MessageRow, Coalesce, Row, Has
    <3> QED BY <3>1 DEF LinkedTurn
  <2> QED BY <2>2, <2>3, <2>4
<1>7. LinkedPlan(d, new, OfMessage(M, key))
  <2>1. p.paid # Null => p.paid = MeantPlan(c) /\ p.paid \in DOMAIN d.plans
    BY <1>1, FoundPlan DEF MessageKeys, Payers, Has, TablesRight
  <2>2. new.paid = p.paid
    BY DEF MessageRow
  <2> QED BY <1>4, <2>1, <2>2 DEF LinkedPlan
<1> HIDE DEF e, key, new
<1>8. SessionsRight(e, M) /\ TurnsRight(e, M) /\ PlansRight(e, M)
  BY <1>3 DEF TablesRight, SessionsRight, TurnsRight, PlansRight
<1>9. ToolsRight(e, M)
  BY <1>3, MoreParents
<1>10. MessagesRight(e, M)
  <2> SUFFICES ASSUME NEW k \in DOMAIN e.messages
               PROVE  /\ \E x \in OfMessage(M, k) : LinkedSession(e, e.messages[k], x)
                      /\ LinkedTurn(e, e.messages[k], OfMessage(M, k))
                      /\ LinkedPlan(e, e.messages[k], OfMessage(M, k))
    BY DEF MessagesRight
  <2>1. CASE k = key
    <3>1. e.messages[k] = new
      BY <1>3, <2>1 DEF Upsert
    <3> QED BY <1>3, <1>4, <1>5, <1>6, <1>7, <2>1, <3>1
               DEF LinkedSession, LinkedTurn, LinkedPlan
  <2>2. CASE k # key
    <3>1. k \in DOMAIN d.messages /\ e.messages[k] = d.messages[k]
      BY <1>3, <2>2 DEF Upsert
    <3> QED BY <1>3, <3>1 DEF LinkedSession, LinkedTurn, LinkedPlan, TablesRight, MessagesRight
  <2> QED BY <2>1, <2>2
<1> QED BY <1>8, <1>9, <1>10 DEF e, TablesRight

LEMMA WriteToolRight ==
  ASSUME NEW d, IsDb(d), NEW M, TablesRight(d, M), \A x, y \in M : Compatible(x, y),
         NEW c \in M, c.type = "tool", NEW p \in Records(c), ToolKeys(d, p)
  PROVE  TablesRight(WriteTool(d, p), M)
<1> DEFINE e == WriteTool(d, p)
           key == ToolId(c)
           new == ToolRow(d, p)
<1>1. /\ p.of \in Sessions(c) /\ p.within \in Withins(c)
      /\ p.harness = c.harness /\ p.tool = c.tool
  BY RecordFacts DEF Types
<1>2. ToolId(p) = key
  BY <1>1 DEF ToolId
<1>3. /\ e.tools = Upsert(d.tools, key, new)
      /\ e.sessions = d.sessions /\ e.turns = d.turns /\ e.plans = d.plans
      /\ e.messages = d.messages
  BY <1>2, WriteToolFacts
<1>4. c \in OfTool(M, key)
  BY DEF OfTool
<1>5. \E x \in OfTool(M, key) : LinkedSession(d, new, x)
  <2>1. CASE key \in DOMAIN d.tools
    <3>1. new.of = d.tools[key].of
      BY <1>2, <2>1 DEF ToolRow, Row, Has
    <3> QED BY <2>1, <3>1 DEF LinkedSession, TablesRight, ToolsRight
  <2>2. CASE key \notin DOMAIN d.tools
    <3>1. p.of = Meant(c) /\ p.of \in DOMAIN d.sessions
      BY <1>1, <1>2, <2>2, FoundSession DEF ToolKeys, Has, TablesRight
    <3>2. new.of = p.of
      BY <1>2, <2>2 DEF ToolRow, Row, Has
    <3> QED BY <1>4, <3>1, <3>2 DEF LinkedSession
  <2> QED BY <2>1, <2>2
<1>6. LinkedTurn(d, new, OfTool(M, key))
  <2>1. p.within # Null => p.within = MeantTurn(c) /\ p.within \in DOMAIN d.turns
    BY <1>1, FoundWithin DEF ToolKeys
  <2>2. CASE p.within # Null
    <3>1. new.within = p.within
      BY <2>2 DEF ToolRow, Coalesce
    <3> QED BY <1>4, <2>1, <2>2, <3>1 DEF LinkedTurn
  <2>3. CASE p.within = Null /\ key \in DOMAIN d.tools
    <3>1. new.within = d.tools[key].within
      BY <1>2, <2>3 DEF ToolRow, Coalesce, Row, Has
    <3> QED BY <2>3, <3>1 DEF LinkedTurn, TablesRight, ToolsRight
  <2>4. CASE p.within = Null /\ key \notin DOMAIN d.tools
    <3>1. new.within = Null
      BY <1>2, <2>4 DEF ToolRow, Coalesce, Row, Has
    <3> QED BY <3>1 DEF LinkedTurn
  <2> QED BY <2>2, <2>3, <2>4
<1> HIDE DEF e, key, new
<1>8. SessionsRight(e, M) /\ TurnsRight(e, M) /\ PlansRight(e, M)
  BY <1>3 DEF TablesRight, SessionsRight, TurnsRight, PlansRight
<1>9. MessagesRight(e, M)
  BY <1>3, MoreParents
<1>10. ToolsRight(e, M)
  <2> SUFFICES ASSUME NEW k \in DOMAIN e.tools
               PROVE  /\ \E x \in OfTool(M, k) : LinkedSession(e, e.tools[k], x)
                      /\ LinkedTurn(e, e.tools[k], OfTool(M, k))
    BY DEF ToolsRight
  <2>1. CASE k = key
    <3>1. e.tools[k] = new
      BY <1>3, <2>1 DEF Upsert
    <3> QED BY <1>3, <1>5, <1>6, <2>1, <3>1 DEF LinkedSession, LinkedTurn
  <2>2. CASE k # key
    <3>1. k \in DOMAIN d.tools /\ e.tools[k] = d.tools[k]
      BY <1>3, <2>2 DEF Upsert
    <3> QED BY <1>3, <3>1 DEF LinkedSession, LinkedTurn, TablesRight, ToolsRight
  <2> QED BY <2>1, <2>2
<1> QED BY <1>8, <1>9, <1>10 DEF e, TablesRight

LEMMA WriteMessageStores ==
  ASSUME NEW d, IsDb(d), NEW M, TablesRight(d, M), Lawful(M),
         NEW c \in M, c.type = "message", NEW p \in Records(c), MessageKeys(d, p)
  PROVE  /\ Stored(WriteMessage(d, p), c)
         /\ \A x \in M : Stored(d, x) => Stored(WriteMessage(d, p), x)
<1> DEFINE e == WriteMessage(d, p)
           key == MessageId(c)
           new == MessageRow(d, p)
<1>1. /\ p.within \in Withins(c) /\ p.harness = c.harness /\ p.message = c.message
  BY RecordFacts DEF Types
<1>2. MessageId(p) = key
  BY <1>1 DEF MessageId
<1>3. /\ e.messages = Upsert(d.messages, key, new)
      /\ e.sessions = d.sessions /\ e.turns = d.turns /\ e.tools = d.tools
  BY <1>2, WriteMessageFacts
<1>4. c \in Calls /\ c.type \in Leaves /\ MeantTurn(c) # Null
  BY MeantNotNull DEF Lawful, Leaves
<1>5. c.turn # Null => p.within = MeantTurn(c)
  <2> SUFFICES ASSUME c.turn # Null PROVE p.within = MeantTurn(c)
    OBVIOUS
  <2>1. p.within \in TurnRefs(c)
    BY <1>1, <1>4, WithinSaid
  <2>2. p.within # Null
    BY <2>1, <1>4, TurnRefsNotNull DEF Leaves, Children
  <2> QED BY <1>1, <2>2, FoundWithin DEF MessageKeys
<1>6. c.turn = Null => p.within = Null
  BY <1>1 DEF Withins
<1>7. key \in DOMAIN e.messages /\ e.messages[key] = new
  BY <1>3 DEF Upsert
<1>8. c.turn # Null => new.within = MeantTurn(c)
  BY <1>4, <1>5 DEF MessageRow, Coalesce
<1>9. p.within = Null /\ key \in DOMAIN d.messages => new.within = d.messages[key].within
  BY <1>2 DEF MessageRow, Coalesce, Row, Has
<1> HIDE DEF e, key, new
<1>10. Stored(e, c)
  BY <1>7, <1>8 DEF Stored, Has, key
<1>11. ASSUME NEW x \in M, Stored(d, x) PROVE Stored(e, x)
  <2>1. CASE x.type = "message" /\ MessageId(x) = key
    <3>1. key \in DOMAIN d.messages /\ (x.turn # Null => d.messages[key].within = MeantTurn(x))
      BY <1>11, <2>1 DEF Stored, Has
    <3>2. x.turn # Null => new.within = MeantTurn(x)
      <4> SUFFICES ASSUME x.turn # Null PROVE new.within = MeantTurn(x)
        OBVIOUS
      <4>1. c.message = x.message /\ c.harness = x.harness
        BY <2>1, MeantApart DEF key
      <4>2. c.session = x.session /\ Agree(c.turn, x.turn, Null)
        BY <2>1, <4>1 DEF Lawful, Compatible
      <4>3. CASE c.turn = Null
        BY <1>6, <1>9, <3>1, <4>3
      <4>4. CASE c.turn # Null
        <5>1. c.turn = x.turn
          BY <4>2, <4>4 DEF Agree
        <5> QED BY <1>8, <4>1, <4>2, <4>4, <5>1, MeantApart
      <4> QED BY <4>3, <4>4
    <3> QED BY <1>7, <2>1, <3>2 DEF Stored, Has
  <2>2. CASE ~(x.type = "message" /\ MessageId(x) = key)
    <3>1. x.type = "message" => /\ MessageId(x) \in DOMAIN e.messages
                                /\ e.messages[MessageId(x)] = d.messages[MessageId(x)]
      BY <1>3, <1>11, <2>2 DEF Upsert, Stored, Has
    <3> QED BY <1>3, <1>11, <3>1 DEF Stored, Has
  <2> QED BY <2>1, <2>2
<1> QED BY <1>10, <1>11 DEF e

LEMMA WriteToolStores ==
  ASSUME NEW d, IsDb(d), NEW M, TablesRight(d, M), Lawful(M),
         NEW c \in M, c.type = "tool", NEW p \in Records(c), ToolKeys(d, p)
  PROVE  /\ Stored(WriteTool(d, p), c)
         /\ \A x \in M : Stored(d, x) => Stored(WriteTool(d, p), x)
<1> DEFINE e == WriteTool(d, p)
           key == ToolId(c)
           new == ToolRow(d, p)
<1>1. /\ p.within \in Withins(c) /\ p.harness = c.harness /\ p.tool = c.tool
      /\ p.ended = c.ended
  BY RecordFacts DEF Types
<1>2. ToolId(p) = key
  BY <1>1 DEF ToolId
<1>3. /\ e.tools = Upsert(d.tools, key, new)
      /\ e.sessions = d.sessions /\ e.turns = d.turns /\ e.messages = d.messages
  BY <1>2, WriteToolFacts
<1>4. c \in Calls /\ c.type \in Leaves /\ MeantTurn(c) # Null
  BY MeantNotNull DEF Lawful, Leaves
<1>5. c.turn # Null => p.within = MeantTurn(c)
  <2> SUFFICES ASSUME c.turn # Null PROVE p.within = MeantTurn(c)
    OBVIOUS
  <2>1. p.within \in TurnRefs(c)
    BY <1>1, <1>4, WithinSaid
  <2>2. p.within # Null
    BY <2>1, <1>4, TurnRefsNotNull DEF Leaves, Children
  <2> QED BY <1>1, <2>2, FoundWithin DEF ToolKeys
<1>6. c.turn = Null => p.within = Null
  BY <1>1 DEF Withins
<1>7. key \in DOMAIN e.tools /\ e.tools[key] = new
  BY <1>3 DEF Upsert
<1>8. /\ c.turn # Null => new.within = MeantTurn(c)
      /\ c.ended # Null => new.ended = c.ended
  BY <1>1, <1>4, <1>5 DEF ToolRow, Coalesce
<1>9. key \in DOMAIN d.tools =>
        /\ p.within = Null => new.within = d.tools[key].within
        /\ p.ended = Null => new.ended = d.tools[key].ended
  BY <1>2 DEF ToolRow, Coalesce, Row, Has
<1> HIDE DEF e, key, new
<1>10. Stored(e, c)
  BY <1>7, <1>8 DEF Stored, Has, key
<1>11. ASSUME NEW x \in M, Stored(d, x) PROVE Stored(e, x)
  <2>1. CASE x.type = "tool" /\ ToolId(x) = key
    <3>1. /\ key \in DOMAIN d.tools
          /\ x.turn # Null => d.tools[key].within = MeantTurn(x)
          /\ x.ended # Null => d.tools[key].ended = x.ended
      BY <1>11, <2>1 DEF Stored, Has
    <3>2. c.tool = x.tool /\ c.harness = x.harness
      BY <2>1, MeantApart DEF key
    <3>3. c.session = x.session /\ Agree(c.turn, x.turn, Null) /\ Agree(c.ended, x.ended, Null)
      BY <2>1, <3>2 DEF Lawful, Compatible
    <3>4. x.turn # Null => new.within = MeantTurn(x)
      <4> SUFFICES ASSUME x.turn # Null PROVE new.within = MeantTurn(x)
        OBVIOUS
      <4>3. CASE c.turn = Null
        BY <1>6, <1>9, <3>1, <4>3
      <4>4. CASE c.turn # Null
        <5>1. c.turn = x.turn
          BY <3>3, <4>4 DEF Agree
        <5> QED BY <1>8, <3>2, <3>3, <4>4, <5>1, MeantApart
      <4> QED BY <4>3, <4>4
    <3>5. x.ended # Null => new.ended = x.ended
      BY <1>1, <1>8, <1>9, <3>1, <3>3 DEF Agree
    <3> QED BY <1>7, <2>1, <3>4, <3>5 DEF Stored, Has
  <2>2. CASE ~(x.type = "tool" /\ ToolId(x) = key)
    <3>1. x.type = "tool" => /\ ToolId(x) \in DOMAIN e.tools
                             /\ e.tools[ToolId(x)] = d.tools[ToolId(x)]
      BY <1>3, <1>11, <2>2 DEF Upsert, Stored, Has
    <3> QED BY <1>3, <1>11, <3>1 DEF Stored, Has
  <2> QED BY <2>1, <2>2
<1> QED BY <1>10, <1>11 DEF e
LEMMA WriteRight ==
  ASSUME NEW d, IsDb(d), NEW M, TablesRight(d, M), Lawful(M),
         NEW c \in M, NEW p \in Records(c), KeysHold(d, p)
  PROVE  /\ TablesRight(Write(d, p), M)
         /\ Stored(Write(d, p), c)
         /\ \A x \in M : Stored(d, x) => Stored(Write(d, p), x)
         /\ c.type = "session" => Meant(c) \in DOMAIN Write(d, p).sessions
         /\ c.type = "turn" => p.of = Meant(c) /\ MeantTurn(c) \in DOMAIN Write(d, p).turns
         /\ c.type = "plan" => MeantPlan(c) \in DOMAIN Write(d, p).plans
<1>1. c \in Calls /\ c.type \in Types /\ p.type = c.type
  BY ReportsAssumption, RecordFacts DEF Lawful
<1>2. CASE c.type = "harness"
  <2>1. Write(d, p) = WriteHarness(d, p)
    BY <1>1, <1>2 DEF Write
  <2> QED BY <1>2, <2>1, WriteHarnessRight DEF Stored
<1>3. CASE c.type = "session"
  <2>1. Write(d, p) = WriteSession(d, p) /\ p = SessionPayload(c)
    BY <1>1, <1>3, RecordFacts DEF Write
  <2>2. SessionId(p) = Meant(c) /\ p.started = c.started /\ p.ended = c.ended
    BY <2>1 DEF SessionPayload, SessionId, Meant
  <2>3. ASSUME NEW x \in M, x.type = "session", Meant(x) = SessionId(p)
        PROVE  AgreesWith(p, x)
    <3>1. x.session = c.session
      BY <2>2, <2>3, MeantApart
    <3> QED BY <1>3, <2>2, <2>3, <3>1 DEF AgreesWith, Lawful, Compatible
  <2>4. \A x \in M : Stored(d, x) => Stored(WriteSession(d, p), x)
    BY <2>3, WriteSessionStores
  <2>5. TablesRight(WriteSession(d, p), M) /\ Meant(c) \in DOMAIN WriteSession(d, p).sessions
    BY <1>3, <2>2, WriteSessionRight
  <2>6. Stored(WriteSession(d, p), c)
    BY <1>3, <2>1, WriteSessionStoresOwn
  <2> QED BY <1>3, <2>1, <2>4, <2>5, <2>6
<1>4. CASE c.type = "turn"
  <2>1. Write(d, p) = WriteTurn(d, p)
    BY <1>1, <1>4 DEF Write
  <2>2. /\ p.of \in Sessions(c) /\ p.turn = c.turn
        /\ p.started = c.started /\ p.ended = c.ended
    BY <1>1, <1>4, RecordFacts
  <2>3. p.of = Meant(c)
    <3>1. TurnKeys(d, p)
      BY <1>1, <1>4 DEF KeysHold
    <3>2. CASE TurnRef(FALSE, p.of, c.turn) \in DOMAIN d.turns
      BY <2>2, <3>2, FoundOwnTurn DEF TablesRight
    <3>3. CASE p.of \in DOMAIN d.sessions
      BY <2>2, <3>3, FoundSession DEF TablesRight
    <3> QED BY <2>2, <3>1, <3>2, <3>3 DEF TurnKeys, TurnId, Has
  <2>4. TurnId(p) = MeantTurn(c)
    BY <2>2, <2>3 DEF TurnId, MeantTurn
  <2>5. ASSUME NEW x \in M, x.type = "turn", MeantTurn(x) = TurnId(p)
        PROVE  AgreesWith(p, x)
    <3>1. x.session = c.session /\ x.turn = c.turn
      BY <2>4, <2>5, MeantApart
    <3> QED BY <1>4, <2>2, <2>5, <3>1 DEF AgreesWith, Lawful, Compatible
  <2>6. \A x \in M : Stored(d, x) => Stored(WriteTurn(d, p), x)
    BY <2>5, WriteTurnStores
  <2>7. TablesRight(WriteTurn(d, p), M) /\ MeantTurn(c) \in DOMAIN WriteTurn(d, p).turns
    BY <1>4, <2>4, WriteTurnRight DEF Children
  <2>8. Stored(WriteTurn(d, p), c)
    BY <1>4, <2>2, <2>4, WriteTurnStoresOwn
  <2> QED BY <1>4, <2>1, <2>3, <2>6, <2>7, <2>8
<1>5. CASE c.type = "plan"
  <2>1. Write(d, p) = WritePlan(d, p) /\ p = SubscriptionPayload(c)
    BY <1>1, <1>5, RecordFacts DEF Write
  <2>2. PlanId(p) = MeantPlan(c)
    BY <2>1 DEF SubscriptionPayload, PlanId, MeantPlan
  <2> QED BY <1>5, <2>1, <2>2, WritePlanRight DEF Stored
<1>6. CASE c.type = "message"
  <2>1. Write(d, p) = WriteMessage(d, p) /\ MessageKeys(d, p)
    BY <1>1, <1>6 DEF Write, KeysHold
  <2> QED BY <1>6, <2>1, WriteMessageRight, WriteMessageStores
<1>7. CASE c.type = "tool"
  <2>1. Write(d, p) = WriteTool(d, p) /\ ToolKeys(d, p)
    BY <1>1, <1>7 DEF Write, KeysHold
  <2> QED BY <1>7, <2>1, WriteToolRight, WriteToolStores DEF Lawful
<1>8. CASE c.type = "raw"
  <2>1. Write(d, p) = WriteRaw(d, p)
    BY <1>1, <1>8 DEF Write
  <2> DEFINE e == WriteRaw(d, p)
  <2>2. /\ e.sessions = d.sessions /\ e.turns = d.turns /\ e.plans = d.plans
        /\ e.messages = d.messages /\ e.tools = d.tools
    BY WriteRawFacts
  <2> HIDE DEF e
  <2>3. MessagesRight(e, M) /\ ToolsRight(e, M)
    BY <2>2, MoreParents
  <2>4. TablesRight(e, M)
    BY <2>2, <2>3 DEF TablesRight, SessionsRight, TurnsRight, PlansRight
  <2>5. Stored(e, c) /\ \A x \in M : Stored(d, x) => Stored(e, x)
    BY <1>8, <2>2 DEF Stored, Has
  <2> QED BY <1>8, <2>1, <2>4, <2>5 DEF e
<1> QED BY <1>1, <1>2, <1>3, <1>4, <1>5, <1>6, <1>7, <1>8 DEF Types

-----------------------------------------------------------------------------
(* The batch: what its maps say, and what a record does to it              *)

MapsRight(st, M) ==
  /\ \A r \in DOMAIN st.sessions :
       /\ st.sessions[r] \in DOMAIN st.db.sessions
       /\ \E c \in M : r = SessionRef(TRUE, c.harness, c.session) /\ st.sessions[r] = Meant(c)
  /\ \A r \in DOMAIN st.turns :
       /\ st.turns[r] \in DOMAIN st.db.turns
       /\ \E c \in M : /\ c.type \in Children
                       /\ \E o \in Sessions(c) : r = TurnRef(TRUE, o, c.turn)
                       /\ st.turns[r] = MeantTurn(c)
  /\ \A r \in DOMAIN st.plans :
       /\ st.plans[r] \in DOMAIN st.db.plans
       /\ \E c \in M : /\ c.type = "plan"
                       /\ r = PlanRef(TRUE, c.harness, c.plan)
                       /\ st.plans[r] = MeantPlan(c)

LEMMA SessionMap ==
  ASSUME NEW st, NEW M, MapsRight(st, M), NEW c, NEW r \in Sessions(c)
  PROVE  /\ r \in DOMAIN st.sessions => st.sessions[r] = Meant(c)
         /\ SessionOf(st, r) \in Sessions(c)
         /\ r \in DOMAIN st.sessions \/ r = Meant(c) => SessionOf(st, r) = Meant(c)
<1>1. ASSUME r \in DOMAIN st.sessions PROVE st.sessions[r] = Meant(c)
  <2>1. PICK e \in M : r = SessionRef(TRUE, e.harness, e.session) /\ st.sessions[r] = Meant(e)
    BY <1>1 DEF MapsRight
  <2>2. r = SessionRef(TRUE, c.harness, c.session)
    BY <2>1, Placeholders DEF Sessions, Meant
  <2>3. /\ r.harness = e.harness /\ r.session = e.session
        /\ r.harness = c.harness /\ r.session = c.session
    <3>1. r.harness = e.harness /\ r.session = e.session
      BY <2>1 DEF SessionRef
    <3>2. r.harness = c.harness /\ r.session = c.session
      BY <2>2 DEF SessionRef
    <3> QED BY <3>1, <3>2
  <2>4. e.harness = c.harness /\ e.session = c.session
    BY <2>3
  <2>5. Meant(e) = Meant(c)
    BY <2>4 DEF Meant
  <2> QED BY <2>1, <2>5
<1>2. Meant(c) \in Sessions(c)
  BY DEF Sessions
<1> QED BY <1>1, <1>2 DEF SessionOf, Row, Has

LEMMA TurnMap ==
  ASSUME NEW st, NEW M, MapsRight(st, M), M \subseteq Calls, NEW c, NEW r \in Withins(c)
  PROVE  TurnOf(st, r) \in Withins(c)
<1>1. ASSUME r \in DOMAIN st.turns PROVE st.turns[r] \in Withins(c)
  <2>1. PICK e \in M : /\ e.type \in Children
                       /\ \E o \in Sessions(e) : r = TurnRef(TRUE, o, e.turn)
                       /\ st.turns[r] = MeantTurn(e)
    BY <1>1 DEF MapsRight
  <2>2. PICK o \in Sessions(e) : r = TurnRef(TRUE, o, e.turn)
    BY <2>1
  <2>3. r \in TurnRefs(e)
    BY <2>2 DEF TurnRefs
  <2>4. r # Null
    BY <2>1, <2>3, TurnRefsNotNull
  <2>5. c.turn # Null /\ r \in TurnRefs(c)
    BY <2>4 DEF Withins
  <2>6. PICK q \in Sessions(c) : r = TurnRef(TRUE, q, c.turn)
    BY <2>2, <2>5, Placeholders DEF TurnRefs, MeantTurn
  <2>7. o = q /\ e.turn = c.turn
    <3>1. r.of = o /\ r.turn = e.turn
      BY <2>2 DEF TurnRef
    <3>2. r.of = q /\ r.turn = c.turn
      BY <2>6 DEF TurnRef
    <3> QED BY <3>1, <3>2
  <2>8. Meant(e) = Meant(c)
    <3>1. o.harness = e.harness /\ o.session = e.session
      BY DEF Sessions, Meant, SessionRef
    <3>2. q.harness = c.harness /\ q.session = c.session
      BY DEF Sessions, Meant, SessionRef
    <3> QED BY <2>7, <3>1, <3>2, MeantApart
  <2>9. st.turns[r] = MeantTurn(c)
    BY <2>1, <2>7, <2>8, MeantApart
  <2> QED BY <2>5, <2>9 DEF Withins, TurnRefs
<1> QED BY <1>1 DEF TurnOf, Row, Has

LEMMA PlanMap ==
  ASSUME NEW st, NEW M, MapsRight(st, M), M \subseteq Calls, NEW c, NEW r \in Payers(c)
  PROVE  PlanOf(st, r) \in Payers(c)
<1>1. ASSUME r \in DOMAIN st.plans PROVE st.plans[r] \in Payers(c)
  <2>1. PICK e \in M : /\ e.type = "plan" /\ r = PlanRef(TRUE, e.harness, e.plan)
                       /\ st.plans[r] = MeantPlan(e)
    BY <1>1 DEF MapsRight
  <2>2. r # Null
    BY <2>1, NullAssumption
  <2>3. c.plan # Null /\ r \in PlanRefs(c)
    BY <2>2 DEF Payers
  <2>4. r = PlanRef(TRUE, c.harness, c.plan)
    BY <2>1, <2>3, Placeholders DEF PlanRefs, MeantPlan
  <2>5. r.harness = e.harness /\ r.plan = e.plan
    BY <2>1 DEF PlanRef
  <2>6. r.harness = c.harness /\ r.plan = c.plan
    BY <2>4 DEF PlanRef
  <2>7. e.harness = c.harness /\ e.plan = c.plan
    BY <2>5, <2>6
  <2>8. MeantPlan(e) = MeantPlan(c)
    BY <2>7 DEF MeantPlan
  <2> QED BY <2>1, <2>3, <2>8 DEF Payers, PlanRefs
<1> QED BY <1>1 DEF PlanOf, Row, Has

\* A record whose references are looked up is still a record of its call.
LEMMA ResolveRight ==
  ASSUME NEW st, NEW M, MapsRight(st, M), Lawful(M), NEW c \in M, NEW p \in Records(c)
  PROVE  Resolve(st, p) \in Records(c)
<1>1. c.type \in Types /\ p.type = c.type /\ IsRecord(p) /\ p.harness = c.harness
  BY ReportsAssumption, RecordFacts DEF Lawful
<1>2. CASE c.type = "turn"
  <2>1. p.of \in Sessions(c) /\ p.turn = c.turn /\ p.started = c.started /\ p.ended = c.ended
    BY <1>1, <1>2, RecordFacts
  <2>2. Resolve(st, p) = [type |-> "turn", harness |-> c.harness,
                          of |-> SessionOf(st, p.of), turn |-> c.turn,
                          started |-> c.started, ended |-> c.ended]
    BY <1>1, <1>2, <2>1, ResolveFacts
  <2> QED BY <1>2, <2>1, <2>2, SessionMap, TurnRecord
<1>3. CASE c.type = "message"
  <2>1. /\ p.of \in Sessions(c) /\ p.within \in Withins(c) /\ p.paid \in Payers(c)
        /\ p.message = c.message /\ p.tokens = c.tokens
    BY <1>1, <1>3, RecordFacts
  <2>2. Resolve(st, p) = [type |-> "message", harness |-> c.harness,
                          of |-> SessionOf(st, p.of), within |-> TurnOf(st, p.within),
                          paid |-> PlanOf(st, p.paid), message |-> c.message,
                          tokens |-> c.tokens]
    BY <1>1, <1>3, <2>1, ResolveFacts
  <2>3. /\ SessionOf(st, p.of) \in Sessions(c) /\ TurnOf(st, p.within) \in Withins(c)
        /\ PlanOf(st, p.paid) \in Payers(c)
    BY <2>1, SessionMap, TurnMap, PlanMap DEF Lawful
  <2> QED BY <1>3, <2>2, <2>3, MessageRecord
<1>4. CASE c.type = "tool"
  <2>1. /\ p.of \in Sessions(c) /\ p.within \in Withins(c)
        /\ p.tool = c.tool /\ p.ended = c.ended
    BY <1>1, <1>4, RecordFacts
  <2>2. Resolve(st, p) = [type |-> "tool", harness |-> c.harness,
                          of |-> SessionOf(st, p.of), within |-> TurnOf(st, p.within),
                          tool |-> c.tool, ended |-> c.ended]
    BY <1>1, <1>4, <2>1, ResolveFacts
  <2>3. SessionOf(st, p.of) \in Sessions(c) /\ TurnOf(st, p.within) \in Withins(c)
    BY <2>1, SessionMap, TurnMap DEF Lawful
  <2> QED BY <1>4, <2>2, <2>3, ToolRecord
<1>5. CASE c.type \notin Children
  BY <1>1, <1>5, ResolveFacts
<1> QED BY <1>2, <1>3, <1>4, <1>5 DEF Children
BatchRight(st, M) == IsBatch(st) /\ TablesRight(st.db, M) /\ MapsRight(st, M)

StoresMore(d, e, M) == \A x \in M : Stored(d, x) => Stored(e, x)

LEMMA StoresMoreTransitive ==
  ASSUME NEW d, NEW e, NEW f, NEW M, StoresMore(d, e, M), StoresMore(e, f, M)
  PROVE  StoresMore(d, f, M)
BY DEF StoresMore

\* Maps stay right when rows are added.
LEMMA MoreRows ==
  ASSUME NEW st, NEW s, NEW M, MapsRight(st, M), Keeps(st.db, s.db),
         s.sessions = st.sessions, s.turns = st.turns, s.plans = st.plans
  PROVE  MapsRight(s, M)
BY DEF MapsRight, Keeps

LEMMA RepairSessionRight ==
  ASSUME NEW M, Lawful(M), NEW st, BatchRight(st, M),
         NEW c \in M, c.type \in Children, NEW r \in Sessions(c)
  PROVE  LET s == RepairSession(st, r) IN
         /\ BatchRight(s, M) /\ StoresMore(st.db, s.db, M)
         /\ SessionOf(s, r) = Meant(c)
<1> DEFINE s == RepairSession(st, r)
<1>1. IsBatch(s) /\ s.turns = st.turns /\ s.plans = st.plans /\ Keeps(st.db, s.db)
  BY RepairSessionFacts DEF BatchRight
<1>2. CASE s = st /\ (~r.spool \/ Has(st.sessions, r))
  <2>1. r \in DOMAIN st.sessions \/ r = Meant(c)
    <3>1. CASE r = SessionRef(TRUE, c.harness, c.session)
      <4>1. r.spool = TRUE
        BY <3>1 DEF SessionRef
      <4>2. r.spool
        BY <4>1
      <4> QED BY <1>2, <4>2 DEF Has
    <3> QED BY <3>1 DEF Sessions
  <2>2. SessionOf(st, r) = Meant(c)
    BY <2>1, SessionMap DEF BatchRight
  <2> QED BY <1>2, <2>2 DEF StoresMore
<1>3. CASE ~(s = st /\ (~r.spool \/ Has(st.sessions, r)))
  <2> DEFINE p == RepairedSession(r)
             h == WriteHarness(st.db, p)
             e == WriteSession(h, p)
  <2>1. /\ r.spool /\ ~Has(st.sessions, r)
        /\ s = [db |-> e, sessions |-> Upsert(st.sessions, r, SessionId(p)),
                turns |-> st.turns, plans |-> st.plans, ok |-> st.ok]
    BY <1>3, RepairSessionCases DEF BatchRight
  <2>2. r = SessionRef(TRUE, c.harness, c.session)
    <3>1. CASE r = Meant(c)
      <4>1. r.spool = FALSE
        BY <3>1 DEF Meant, SessionRef
      <4> QED BY <2>1, <4>1
    <3> QED BY <3>1 DEF Sessions
  <2>3. SessionId(p) = Meant(c) /\ p.started = 0 /\ p.ended = Null
    <3>1. r.harness = c.harness /\ r.session = c.session
      BY <2>2 DEF SessionRef
    <3> QED BY <3>1 DEF RepairedSession, SessionId, Meant
  <2> HIDE DEF p
  <2>4. IsDb(h) /\ TablesRight(h, M) /\ StoresMore(st.db, h, M)
    BY WriteHarnessFacts, WriteHarnessRight DEF BatchRight, IsBatch, StoresMore
  <2> HIDE DEF h
  <2>5. TablesRight(e, M) /\ Meant(c) \in DOMAIN e.sessions
    BY <2>3, <2>4, WriteSessionRight
  <2>6. StoresMore(h, e, M)
    <3>1. \A x : AgreesWith(p, x)
      BY <2>3 DEF AgreesWith, Agree
    <3> QED BY <2>4, <3>1, WriteSessionStores DEF StoresMore
  <2>7. StoresMore(st.db, e, M)
    BY <2>4, <2>6, StoresMoreTransitive
  <2> HIDE DEF e, s
  <2>8. s.db = e /\ s.sessions = Upsert(st.sessions, r, Meant(c))
    BY <2>1, <2>3
  <2>9. MapsRight(s, M)
    <3>1. ASSUME NEW q \in DOMAIN s.sessions
          PROVE  /\ s.sessions[q] \in DOMAIN s.db.sessions
                 /\ \E x \in M : /\ q = SessionRef(TRUE, x.harness, x.session)
                                 /\ s.sessions[q] = Meant(x)
      <4>1. CASE q = r
        BY <2>2, <2>5, <2>8, <4>1 DEF Upsert
      <4>2. CASE q # r
        <5>1. q \in DOMAIN st.sessions /\ s.sessions[q] = st.sessions[q]
          BY <2>8, <4>2 DEF Upsert
        <5> QED BY <1>1, <5>1 DEF BatchRight, MapsRight, Keeps
      <4> QED BY <4>1, <4>2
    <3> QED BY <1>1, <3>1 DEF BatchRight, MapsRight, Keeps
  <2>10. SessionOf(s, r) = Meant(c)
    BY <2>8 DEF SessionOf, Row, Has, Upsert
  <2> QED BY <1>1, <2>5, <2>7, <2>8, <2>9, <2>10 DEF s, BatchRight
<1> QED BY <1>2, <1>3

LEMMA RepairTurnRight ==
  ASSUME NEW M, Lawful(M), NEW st, BatchRight(st, M),
         NEW c \in M, c.type \in Leaves, NEW w \in Withins(c),
         RepairTurn(st, w, c.harness).ok
  PROVE  LET s == RepairTurn(st, w, c.harness) IN
         BatchRight(s, M) /\ StoresMore(st.db, s.db, M)
<1> DEFINE s == RepairTurn(st, w, c.harness)
           repaired == RepairSession(st, w.of)
           p == RepairedTurn(repaired, w, c.harness)
<1>1. IsBatch(s) /\ s.plans = st.plans /\ Keeps(st.db, s.db)
  BY RepairTurnFacts DEF BatchRight
<1>2. CASE s = st
  BY <1>2 DEF StoresMore
<1>3. CASE s # st
  <2>1. /\ w # Null /\ w.spool /\ TurnKeys(repaired.db, p)
        /\ s = [db |-> WriteTurn(repaired.db, p), sessions |-> repaired.sessions,
                turns |-> Upsert(repaired.turns, w, TurnId(p)),
                plans |-> repaired.plans, ok |-> repaired.ok]
    BY <1>3, RepairTurnCases, ThrowFacts DEF BatchRight
  <2>2. PICK o \in Sessions(c) : w = TurnRef(TRUE, o, c.turn)
    <3>1. CASE w = MeantTurn(c)
      <4>1. w.spool = FALSE
        BY <3>1 DEF MeantTurn, TurnRef
      <4> QED BY <2>1, <4>1
    <3> QED BY <2>1, <3>1 DEF Withins, TurnRefs
  <2>3. w.of = o /\ w.turn = c.turn
    BY <2>2 DEF TurnRef
  <2>4. c.type \in Children
    BY DEF Leaves, Children
  <2>5. /\ BatchRight(repaired, M) /\ StoresMore(st.db, repaired.db, M)
        /\ SessionOf(repaired, o) = Meant(c)
    BY <2>3, <2>4, RepairSessionRight
  <2>6. TurnId(p) = MeantTurn(c) /\ p.started = 0 /\ p.ended = Null
    BY <2>3, <2>5 DEF RepairedTurn, TurnId, MeantTurn
  <2> HIDE DEF p, repaired
  <2> DEFINE e == WriteTurn(repaired.db, p)
  <2>7. TablesRight(e, M) /\ MeantTurn(c) \in DOMAIN e.turns
    BY <2>4, <2>5, <2>6, WriteTurnRight DEF BatchRight, IsBatch
  <2>8. StoresMore(repaired.db, e, M)
    <3>1. \A x : AgreesWith(p, x)
      BY <2>6 DEF AgreesWith, Agree
    <3> QED BY <2>5, <3>1, WriteTurnStores DEF StoresMore, BatchRight, IsBatch
  <2>9. StoresMore(st.db, e, M)
    BY <2>5, <2>8, StoresMoreTransitive
  <2>10. Keeps(repaired.db, e)
    BY <2>5, TurnKeeps DEF BatchRight, IsBatch
  <2> HIDE DEF e, s
  <2>11. /\ s.db = e /\ s.sessions = repaired.sessions /\ s.plans = repaired.plans
         /\ s.turns = Upsert(repaired.turns, w, MeantTurn(c))
    BY <2>1, <2>6 DEF e
  <2>12. MapsRight(s, M)
    <3>1. ASSUME NEW q \in DOMAIN s.turns
          PROVE  /\ s.turns[q] \in DOMAIN s.db.turns
                 /\ \E x \in M : /\ x.type \in Children
                                 /\ \E y \in Sessions(x) : q = TurnRef(TRUE, y, x.turn)
                                 /\ s.turns[q] = MeantTurn(x)
      <4>1. CASE q = w
        BY <2>2, <2>4, <2>7, <2>11, <4>1 DEF Upsert
      <4>2. CASE q # w
        <5>1. q \in DOMAIN repaired.turns /\ s.turns[q] = repaired.turns[q]
          BY <2>11, <4>2 DEF Upsert
        <5> QED BY <2>5, <2>10, <2>11, <5>1 DEF BatchRight, MapsRight, Keeps
      <4> QED BY <4>1, <4>2
    <3>2. MapsRight(repaired, M)
      BY <2>5 DEF BatchRight
    <3>3. /\ DOMAIN repaired.db.sessions \subseteq DOMAIN s.db.sessions
          /\ DOMAIN repaired.db.plans \subseteq DOMAIN s.db.plans
      BY <2>10, <2>11 DEF Keeps
    <3>4. \A q \in DOMAIN s.sessions :
            /\ s.sessions[q] \in DOMAIN s.db.sessions
            /\ \E x \in M : q = SessionRef(TRUE, x.harness, x.session) /\ s.sessions[q] = Meant(x)
      BY <2>11, <3>2, <3>3 DEF MapsRight
    <3>5. \A q \in DOMAIN s.plans :
            /\ s.plans[q] \in DOMAIN s.db.plans
            /\ \E x \in M : /\ x.type = "plan"
                            /\ q = PlanRef(TRUE, x.harness, x.plan)
                            /\ s.plans[q] = MeantPlan(x)
      BY <2>11, <3>2, <3>3 DEF MapsRight
    <3> QED BY <3>1, <3>4, <3>5 DEF MapsRight
  <2> QED BY <1>1, <2>7, <2>9, <2>11, <2>12 DEF s, BatchRight
<1> QED BY <1>2, <1>3

LEMMA RepairRight ==
  ASSUME NEW M, Lawful(M), NEW st, BatchRight(st, M),
         NEW c \in M, NEW p \in Records(c), Repair(st, p).ok
  PROVE  BatchRight(Repair(st, p), M) /\ StoresMore(st.db, Repair(st, p).db, M)
<1> DEFINE parent == IF p.type \in Children THEN RepairSession(st, p.of) ELSE st
           s == Repair(st, p)
<1>1. c.type \in Types /\ p.type = c.type /\ p.harness = c.harness
  BY ReportsAssumption, RecordFacts DEF Lawful
<1>2. BatchRight(parent, M) /\ StoresMore(st.db, parent.db, M)
  <2>1. CASE p.type \in Children
    <3>1. p.of \in Sessions(c)
      BY <1>1, <2>1, RecordFacts DEF Children
    <3> QED BY <1>1, <2>1, <3>1, RepairSessionRight
  <2>2. CASE p.type \notin Children
    BY <2>2 DEF StoresMore
  <2> QED BY <2>1, <2>2
<1>3. s = IF p.type \in Leaves THEN RepairTurn(parent, p.within, p.harness) ELSE parent
  BY DEF Repair
<1> HIDE DEF parent
<1>4. CASE p.type \in Leaves
  <2>1. p.within \in Withins(c)
    BY <1>1, <1>4, RecordFacts DEF Leaves
  <2>2. BatchRight(s, M) /\ StoresMore(parent.db, s.db, M)
    BY <1>1, <1>2, <1>3, <1>4, <2>1, RepairTurnRight
  <2> QED BY <1>2, <2>2, StoresMoreTransitive
<1>5. CASE p.type \notin Leaves
  BY <1>2, <1>3, <1>5
<1> QED BY <1>4, <1>5

LEMMA RememberRight ==
  ASSUME NEW M, Lawful(M), NEW st, BatchRight(st, M),
         NEW c \in M, NEW p \in Records(c), NEW r \in Records(c),
         c.type = "session" => Meant(c) \in DOMAIN st.db.sessions,
         c.type = "turn" => r.of = Meant(c) /\ MeantTurn(c) \in DOMAIN st.db.turns,
         c.type = "plan" => MeantPlan(c) \in DOMAIN st.db.plans
  PROVE  BatchRight(Remember(st, p, r), M)
<1> DEFINE s == Remember(st, p, r)
<1>1. IsBatch(s) /\ s.db = st.db
  BY RememberFacts DEF BatchRight
<1>2. /\ c.type \in Types
      /\ p.type = c.type /\ p.harness = c.harness /\ r.harness = c.harness
  BY ReportsAssumption, RecordFacts DEF Lawful
<1>3. IsBatch(st) /\ TablesRight(st.db, M) /\ MapsRight(st, M)
  BY DEF BatchRight
<1>4. MapsRight(s, M)
  <2>1. CASE c.type = "session"
    <3> DEFINE q == SessionRef(TRUE, c.harness, c.session)
    <3>1. p.session = c.session
      BY <1>2, <2>1, RecordFacts DEF SessionPayload
    <3>2. SessionId(p) = Meant(c)
      BY <1>2, <3>1 DEF SessionId, Meant
    <3>3. s = [st EXCEPT !.sessions = Upsert(@, q, Meant(c))]
      BY <1>2, <2>1, <3>1, <3>2 DEF Remember
    <3>4. /\ s.sessions = Upsert(st.sessions, q, Meant(c))
          /\ s.turns = st.turns /\ s.plans = st.plans
      BY <1>3, <3>3 DEF IsBatch
    <3> HIDE DEF s, q
    <3>5. ASSUME NEW k \in DOMAIN s.sessions
          PROVE  /\ s.sessions[k] \in DOMAIN s.db.sessions
                 /\ \E x \in M : /\ k = SessionRef(TRUE, x.harness, x.session)
                                 /\ s.sessions[k] = Meant(x)
      <4>1. CASE k = q
        BY <1>1, <2>1, <3>4, <4>1 DEF Upsert, q
      <4>2. CASE k # q
        <5>1. k \in DOMAIN st.sessions /\ s.sessions[k] = st.sessions[k]
          BY <3>4, <4>2 DEF Upsert
        <5> QED BY <1>1, <1>3, <5>1 DEF MapsRight
      <4> QED BY <4>1, <4>2
    <3> QED BY <1>1, <1>3, <3>4, <3>5 DEF MapsRight
  <2>2. CASE c.type = "turn"
    <3> DEFINE q == TurnRef(TRUE, p.of, c.turn)
    <3>1. p.of \in Sessions(c) /\ p.turn = c.turn /\ r.turn = c.turn
      BY <1>2, <2>2, RecordFacts
    <3>2. TurnId(r) = MeantTurn(c)
      BY <2>2, <3>1 DEF TurnId, MeantTurn
    <3>3. s = [st EXCEPT !.turns = Upsert(@, q, MeantTurn(c))]
      BY <1>2, <2>2, <3>1, <3>2 DEF Remember
    <3>4. /\ s.turns = Upsert(st.turns, q, MeantTurn(c))
          /\ s.sessions = st.sessions /\ s.plans = st.plans
      BY <1>3, <3>3 DEF IsBatch
    <3>5. c.type \in Children
      BY <2>2 DEF Children
    <3> HIDE DEF s, q
    <3>6. ASSUME NEW k \in DOMAIN s.turns
          PROVE  /\ s.turns[k] \in DOMAIN s.db.turns
                 /\ \E x \in M : /\ x.type \in Children
                                 /\ \E o \in Sessions(x) : k = TurnRef(TRUE, o, x.turn)
                                 /\ s.turns[k] = MeantTurn(x)
      <4>1. CASE k = q
        BY <1>1, <2>2, <3>1, <3>4, <3>5, <4>1 DEF Upsert, q
      <4>2. CASE k # q
        <5>1. k \in DOMAIN st.turns /\ s.turns[k] = st.turns[k]
          BY <3>4, <4>2 DEF Upsert
        <5> QED BY <1>1, <1>3, <5>1 DEF MapsRight
      <4> QED BY <4>1, <4>2
    <3> QED BY <1>1, <1>3, <3>4, <3>6 DEF MapsRight
  <2>3. CASE c.type = "plan"
    <3> DEFINE q == PlanRef(TRUE, c.harness, c.plan)
    <3>1. p.plan = c.plan
      BY <1>2, <2>3, RecordFacts DEF SubscriptionPayload
    <3>2. PlanId(p) = MeantPlan(c)
      BY <1>2, <3>1 DEF PlanId, MeantPlan
    <3>3. s = [st EXCEPT !.plans = Upsert(@, q, MeantPlan(c))]
      BY <1>2, <2>3, <3>1, <3>2 DEF Remember
    <3>4. /\ s.plans = Upsert(st.plans, q, MeantPlan(c))
          /\ s.turns = st.turns /\ s.sessions = st.sessions
      BY <1>3, <3>3 DEF IsBatch
    <3> HIDE DEF s, q
    <3>5. ASSUME NEW k \in DOMAIN s.plans
          PROVE  /\ s.plans[k] \in DOMAIN s.db.plans
                 /\ \E x \in M : /\ x.type = "plan"
                                 /\ k = PlanRef(TRUE, x.harness, x.plan)
                                 /\ s.plans[k] = MeantPlan(x)
      <4>1. CASE k = q
        BY <1>1, <2>3, <3>4, <4>1 DEF Upsert, q
      <4>2. CASE k # q
        <5>1. k \in DOMAIN st.plans /\ s.plans[k] = st.plans[k]
          BY <3>4, <4>2 DEF Upsert
        <5> QED BY <1>1, <1>3, <5>1 DEF MapsRight
      <4> QED BY <4>1, <4>2
    <3> QED BY <1>1, <1>3, <3>4, <3>5 DEF MapsRight
  <2>4. CASE c.type \notin {"session", "turn", "plan"}
    <3>1. s = st
      BY <1>2, <2>4 DEF Remember
    <3> QED BY <1>3, <3>1
  <2> QED BY <2>1, <2>2, <2>3, <2>4
<1> QED BY <1>1, <1>3, <1>4 DEF BatchRight

\* A record that is applied stores its call, and takes nothing from another.
LEMMA ApplyRight ==
  ASSUME NEW M, Lawful(M), NEW st, BatchRight(st, M),
         NEW c \in M, NEW p \in Records(c), Apply(st, p).ok
  PROVE  LET s == Apply(st, p) IN
         /\ BatchRight(s, M) /\ Keeps(st.db, s.db)
         /\ StoresMore(st.db, s.db, M) /\ Stored(s.db, c)
<1> DEFINE s == Repair(st, p)
           r == Resolve(s, p)
           w == [db |-> Write(s.db, r), sessions |-> s.sessions, turns |-> s.turns,
                 plans |-> s.plans, ok |-> s.ok]
<1>1. IsRecord(p) /\ IsBatch(st)
  BY ReportsAssumption, RecordFacts DEF Lawful, BatchRight
<1>2. /\ s.ok /\ KeysHold(s.db, r) /\ IsBatch(w) /\ Keeps(s.db, w.db)
      /\ Apply(st, p) = Remember(w, p, r)
  BY <1>1, ApplyCases
<1>3. BatchRight(s, M) /\ StoresMore(st.db, s.db, M)
  BY <1>2, RepairRight
<1>4. r \in Records(c)
  BY <1>3, ResolveRight DEF BatchRight
<1>5. w.db = Write(s.db, r) /\ w.sessions = s.sessions /\ w.turns = s.turns /\ w.plans = s.plans
  OBVIOUS
<1> HIDE DEF w, r, s
<1>6. IsDb(s.db) /\ TablesRight(s.db, M) /\ MapsRight(s, M)
  BY <1>3 DEF BatchRight, IsBatch
<1>7. /\ TablesRight(w.db, M) /\ Stored(w.db, c) /\ StoresMore(s.db, w.db, M)
      /\ c.type = "session" => Meant(c) \in DOMAIN w.db.sessions
      /\ c.type = "turn" => r.of = Meant(c) /\ MeantTurn(c) \in DOMAIN w.db.turns
      /\ c.type = "plan" => MeantPlan(c) \in DOMAIN w.db.plans
  BY <1>2, <1>4, <1>5, <1>6, WriteRight DEF StoresMore
<1>8. BatchRight(w, M)
  BY <1>2, <1>5, <1>6, <1>7, MoreRows DEF BatchRight
<1>9. BatchRight(Remember(w, p, r), M)
  BY <1>4, <1>7, <1>8, RememberRight
<1>10. Remember(w, p, r).db = w.db
  BY <1>2, RememberFacts
<1>11. Keeps(st.db, Apply(st, p).db)
  BY <1>1, ApplyKeeps
<1> QED BY <1>2, <1>3, <1>7, <1>9, <1>10, <1>11, StoresMoreTransitive

-----------------------------------------------------------------------------
(* The inductive invariant: a call that was not lost is stored, or waits   *)
(* in a file, and the open transaction stores what its file has not left.  *)

InFile(c, f) == \E i \in DOMAIN f : f[i] \in Records(c)
Waits(S, d, c) == Stored(d, c) \/ \E f \in S : InFile(c, f)

MadeRecords == UNION {Records(c) : c \in made}

DbRight == IsDb(db) /\ TablesRight(db, made)

FilesRight ==
  /\ active \in Seq(MadeRecords)
  /\ \A f \in queue \cup failed : f \in Seq(MadeRecords) /\ f # <<>>
  /\ queue \cap failed = {} /\ again \subseteq queue

\* No call is in two files, one of them active.
FilesApart == \A f \in queue \cup failed, c \in made : InFile(c, f) => ~InFile(c, active)

Waiting == \A c \in made \ lost : Waits({active} \cup queue \cup failed, db, c)

TxRight ==
  tx # NoTx =>
    /\ tx = [file |-> tx.file, left |-> tx.left, batch |-> tx.batch]
    /\ tx.file \in queue /\ tx.left \in Seq(MadeRecords)
    /\ tx.batch.ok /\ BatchRight(tx.batch, made) /\ Keeps(db, tx.batch.db)
    /\ \A c \in made \ lost :
         Waits({tx.left, active} \cup failed \cup (queue \ {tx.file}), tx.batch.db, c)

WriterInv ==
  MadeRight /\ IdsRight /\ DbRight /\ FilesRight /\ FilesApart /\ Waiting /\ TxRight

\* A record is of one call.
LEMMA SessionsApart ==
  ASSUME NEW c, NEW e, NEW r \in Sessions(c), r \in Sessions(e)
  PROVE  c.session = e.session
<1>1. r.session = c.session
  BY DEF Sessions, Meant, SessionRef
<1>2. r.session = e.session
  BY DEF Sessions, Meant, SessionRef
<1> QED BY <1>1, <1>2

LEMMA WithinsApart ==
  ASSUME NEW c \in Calls, NEW e \in Calls, c.type \in Children, e.type \in Children,
         NEW w \in Withins(c), w \in Withins(e)
  PROVE  c.turn = e.turn
<1>1. c.turn # Null => w # Null /\ w.turn = c.turn
  <2>1. SUFFICES ASSUME c.turn # Null PROVE w # Null /\ w.turn = c.turn
    OBVIOUS
  <2>2. w \in TurnRefs(c)
    BY <2>1 DEF Withins
  <2> QED BY <2>2, TurnRefsNotNull DEF TurnRefs, MeantTurn, TurnRef
<1>2. e.turn # Null => w # Null /\ w.turn = e.turn
  <2>1. SUFFICES ASSUME e.turn # Null PROVE w # Null /\ w.turn = e.turn
    OBVIOUS
  <2>2. w \in TurnRefs(e)
    BY <2>1 DEF Withins
  <2> QED BY <2>2, TurnRefsNotNull DEF TurnRefs, MeantTurn, TurnRef
<1>3. (c.turn = Null => w = Null) /\ (e.turn = Null => w = Null)
  BY DEF Withins
<1> QED BY <1>1, <1>2, <1>3

LEMMA PayersApart ==
  ASSUME NEW c \in Calls, NEW e \in Calls, c.type = "message", e.type = "message",
         NEW q \in Payers(c), q \in Payers(e)
  PROVE  c.plan = e.plan
<1>1. c.plan # Null => q # Null /\ q.plan = c.plan
  <2>1. SUFFICES ASSUME c.plan # Null PROVE q # Null /\ q.plan = c.plan
    OBVIOUS
  <2>2. PICK spool \in BOOLEAN : q = PlanRef(spool, c.harness, c.plan)
    BY <2>1 DEF Payers, PlanRefs, MeantPlan
  <2>3. q # Null
    BY <2>2, NullAssumption
  <2> QED BY <2>2, <2>3 DEF PlanRef
<1>2. e.plan # Null => q # Null /\ q.plan = e.plan
  <2>1. SUFFICES ASSUME e.plan # Null PROVE q # Null /\ q.plan = e.plan
    OBVIOUS
  <2>2. PICK spool \in BOOLEAN : q = PlanRef(spool, e.harness, e.plan)
    BY <2>1 DEF Payers, PlanRefs, MeantPlan
  <2>3. q # Null
    BY <2>2, NullAssumption
  <2> QED BY <2>2, <2>3 DEF PlanRef
<1>3. (c.plan = Null => q = Null) /\ (e.plan = Null => q = Null)
  BY DEF Payers
<1> QED BY <1>1, <1>2, <1>3

LEMMA OneCall ==
  ASSUME NEW c \in Calls, NEW e \in Calls, Compatible(c, e),
         NEW p \in Records(c), p \in Records(e)
  PROVE  c = e
<1>1. c.type \in Types /\ e.type \in Types /\ c.type = p.type /\ e.type = p.type
  BY ReportsAssumption, RecordFacts
<1>2. Said(c) = Said(e)
  <2>1. CASE p.type = "harness"
    BY <1>1, <2>1, RecordFacts DEF HarnessPayload, Said
  <2>2. CASE p.type = "session"
    BY <1>1, <2>2, RecordFacts DEF SessionPayload, Said
  <2>3. CASE p.type = "turn"
    <3>1. /\ p.of \in Sessions(c) /\ p.of \in Sessions(e)
          /\ c.turn = e.turn /\ c.started = e.started /\ c.ended = e.ended
      BY <1>1, <2>3, RecordFacts
    <3>2. c.session = e.session
      BY <3>1, SessionsApart
    <3> QED BY <1>1, <2>3, <3>1, <3>2 DEF Said
  <2>4. CASE p.type = "plan"
    BY <1>1, <2>4, RecordFacts DEF SubscriptionPayload, Said
  <2>5. CASE p.type = "message"
    <3>1. /\ p.of \in Sessions(c) /\ p.of \in Sessions(e)
          /\ p.within \in Withins(c) /\ p.within \in Withins(e)
          /\ p.paid \in Payers(c) /\ p.paid \in Payers(e)
          /\ c.message = e.message /\ c.tokens = e.tokens
      BY <1>1, <2>5, RecordFacts
    <3>2. c.session = e.session /\ c.turn = e.turn /\ c.plan = e.plan
      BY <1>1, <2>5, <3>1, SessionsApart, WithinsApart, PayersApart DEF Children
    <3> QED BY <1>1, <2>5, <3>1, <3>2 DEF Said
  <2>6. CASE p.type = "tool"
    <3>1. /\ p.of \in Sessions(c) /\ p.of \in Sessions(e)
          /\ p.within \in Withins(c) /\ p.within \in Withins(e)
          /\ c.tool = e.tool /\ c.ended = e.ended
      BY <1>1, <2>6, RecordFacts
    <3>2. c.session = e.session /\ c.turn = e.turn
      BY <1>1, <2>6, <3>1, SessionsApart, WithinsApart DEF Children
    <3> QED BY <1>1, <2>6, <3>1, <3>2 DEF Said
  <2>7. CASE p.type = "raw"
    <3>1. Records(c) = {RawEventPayload(c)} /\ Records(e) = {RawEventPayload(e)}
      BY <1>1, <2>7 DEF Records
    <3>2. RawEventPayload(c).event = c.about /\ RawEventPayload(e).event = e.about
      BY DEF RawEventPayload
    <3> QED BY <1>1, <2>7, <3>1, <3>2 DEF Said
  <2> QED BY <1>1, <2>1, <2>2, <2>3, <2>4, <2>5, <2>6, <2>7 DEF Types
<1> QED BY <1>1, <1>2 DEF Compatible

\* What a call, made or not, does to the files that hold none of its records.
LEMMA InMoreFile ==
  ASSUME NEW c, NEW S, NEW f \in Seq(S), NEW p
  PROVE  InFile(c, Append(f, p)) <=> InFile(c, f) \/ p \in Records(c)
BY DEF InFile

LEMMA InTail ==
  ASSUME NEW c, NEW S, NEW f \in Seq(S), f # <<>>
  PROVE  InFile(c, f) <=> Head(f) \in Records(c) \/ InFile(c, Tail(f))
<1>1. ASSUME NEW i \in DOMAIN f, f[i] \in Records(c), i # 1
      PROVE  InFile(c, Tail(f))
  <2>1. i - 1 \in DOMAIN Tail(f) /\ Tail(f)[i - 1] = f[i]
    BY <1>1
  <2> QED BY <1>1, <2>1 DEF InFile
<1>2. ASSUME NEW i \in DOMAIN Tail(f), Tail(f)[i] \in Records(c)
      PROVE  InFile(c, f)
  <2>1. i + 1 \in DOMAIN f /\ f[i + 1] = Tail(f)[i]
    BY <1>2
  <2> QED BY <1>2, <2>1 DEF InFile
<1>3. Head(f) = f[1] /\ 1 \in DOMAIN f
  OBVIOUS
<1>4. InFile(c, f) => f[1] \in Records(c) \/ InFile(c, Tail(f))
  BY <1>1 DEF InFile
<1>5. InFile(c, Tail(f)) => InFile(c, f)
  BY <1>2 DEF InFile
<1> QED BY <1>3, <1>4, <1>5 DEF InFile

LEMMA MoreWaits ==
  ASSUME NEW S, NEW T, NEW d, NEW e, NEW M, StoresMore(d, e, M), NEW c \in M,
         Waits(S, d, c), \A f \in S : InFile(c, f) => \E g \in T : InFile(c, g)
  PROVE  Waits(T, e, c)
BY DEF Waits, StoresMore

LEMMA MoreBatch ==
  ASSUME NEW st, NEW M, BatchRight(st, M), NEW N, M \subseteq N
  PROVE  BatchRight(st, N)
<1>1. IsBatch(st) /\ TablesRight(st.db, N)
  BY MoreCalls DEF BatchRight
<1>2. MapsRight(st, M)
  BY DEF BatchRight
<1>3. /\ \A r \in DOMAIN st.sessions :
           /\ st.sessions[r] \in DOMAIN st.db.sessions
           /\ \E c \in N : /\ r = SessionRef(TRUE, c.harness, c.session)
                           /\ st.sessions[r] = Meant(c)
  BY <1>2 DEF MapsRight
<1>4. \A r \in DOMAIN st.turns :
        /\ st.turns[r] \in DOMAIN st.db.turns
        /\ \E c \in N : /\ c.type \in Children
                        /\ \E o \in Sessions(c) : r = TurnRef(TRUE, o, c.turn)
                        /\ st.turns[r] = MeantTurn(c)
  BY <1>2 DEF MapsRight
<1>5. \A r \in DOMAIN st.plans :
        /\ st.plans[r] \in DOMAIN st.db.plans
        /\ \E c \in N : /\ c.type = "plan"
                        /\ r = PlanRef(TRUE, c.harness, c.plan)
                        /\ st.plans[r] = MeantPlan(c)
  BY <1>2 DEF MapsRight
<1> QED BY <1>1, <1>3, <1>4, <1>5 DEF BatchRight, MapsRight

LEMMA MoreRecords ==
  ASSUME NEW S, NEW T, S \subseteq T, NEW f \in Seq(S)
  PROVE  f \in Seq(T)
OBVIOUS

LEMMA NewCall ==
  ASSUME WriterInv, NEW c \in Calls, Due(c)
  PROVE  /\ c \notin made /\ c.type \in Types
         /\ \A f \in {active} \cup queue \cup failed : ~InFile(c, f)
<1>1. /\ c \notin made /\ c.type \in Types
      /\ \A x, y \in made \cup {c} : Compatible(x, y)
  BY DueFacts DEF WriterInv
<1>2. ASSUME NEW f \in {active} \cup queue \cup failed, NEW i \in DOMAIN f, f[i] \in Records(c)
      PROVE  FALSE
  <2>1. f \in Seq(MadeRecords)
    BY DEF WriterInv, FilesRight
  <2>2. f[i] \in MadeRecords
    BY <1>2, <2>1
  <2>3. PICK e \in made : f[i] \in Records(e)
    BY <2>2 DEF MadeRecords
  <2>4. e \in Calls /\ Compatible(c, e)
    BY <1>1 DEF WriterInv, MadeRight
  <2> QED BY <1>1, <1>2, <2>3, <2>4, OneCall
<1> QED BY <1>1, <1>2 DEF InFile

LEMMA MadeGrows ==
  ASSUME WriterInv, NEW c \in Calls, Due(c), made' = made \cup {c},
         lost' \in {lost, lost \cup {c}}
  PROVE  MadeRight' /\ Lawful(made') /\ Payload(c) \in Records(c)
<1>1. MadeRight /\ IdsRight
  BY DEF WriterInv
<1>2. \A x, y \in made' : Compatible(x, y)
  BY <1>1, DueFacts
<1>3. /\ Payload(c) \in Records(c)
      /\ c.type \in Children => \E e \in made : e.type = "session" /\ e.session = c.session
  BY <1>1, PayloadRight
<1>4. made' \subseteq Calls /\ lost' \subseteq made'
  BY <1>1 DEF MadeRight
<1>5. \A x \in made' : x.type \in Children =>
        \E e \in made' : e.type = "session" /\ e.session = x.session
  BY <1>1, <1>3 DEF MadeRight
<1> QED BY <1>2, <1>3, <1>4, <1>5 DEF MadeRight, Lawful

LEMMA IdsGrow ==
  ASSUME WriterInv, NEW c \in Calls, Due(c), made' = made \cup {c}, NEW spooled \in BOOLEAN,
         Keep(c, Answer(Payload(c), spooled)),
         ~spooled /\ c.type = "turn" => Payload(c).of = Meant(c)
  PROVE  IdsRight'
<1> DEFINE answer == Answer(Payload(c), spooled)
<1>1. MadeRight /\ IdsRight
  BY DEF WriterInv
<1>2. c.type \in Types /\ Payload(c) \in Records(c)
  BY <1>1, DueFacts, PayloadRight
<1>3. \A n \in Named(c) : Identifies(n, answer, c)
  BY <1>2, AnswerRight
<1> HIDE DEF answer
<1>4. CASE ids' = [n \in DOMAIN ids \cup Named(c) |-> IF n \in Named(c) THEN answer ELSE ids[n]]
  <2>1. ASSUME NEW n \in DOMAIN ids' PROVE \E x \in made' : Identifies(n, ids'[n], x)
    <3>1. CASE n \in Named(c)
      BY <1>3, <1>4, <3>1
    <3>2. CASE n \notin Named(c)
      BY <1>1, <1>4, <3>2 DEF IdsRight
    <3> QED BY <3>1, <3>2
  <2> QED BY <2>1 DEF IdsRight
<1>5. CASE UNCHANGED ids
  BY <1>1, <1>5 DEF IdsRight
<1> QED BY <1>4, <1>5 DEF Keep, answer

LEMMA FilesStay ==
  ASSUME WriterInv, NEW c \in Calls, Due(c), made' = made \cup {c},
         UNCHANGED <<active, queue, failed, again>>
  PROVE  FilesRight' /\ FilesApart'
<1>1. MadeRecords \subseteq MadeRecords'
  BY DEF MadeRecords
<1>2. FilesRight'
  BY <1>1, MoreRecords DEF WriterInv, FilesRight
<1>3. FilesApart'
  BY NewCall DEF WriterInv, FilesApart
<1> QED BY <1>2, <1>3

LEMMA LiveStep ==
  ASSUME WriterInv, NEW c \in Calls, RecordLive(c)
  PROVE  WriterInv' /\ Keeps(db, db')
<1> DEFINE p == Payload(c)
<1>1. /\ Due(c) /\ tx = NoTx /\ KeysHold(db, p) /\ db' = Write(db, p)
      /\ Keep(c, Answer(p, FALSE)) /\ made' = made \cup {c}
      /\ UNCHANGED <<lost, active, queue, failed, tx, again>>
  BY DEF RecordLive, spoolVars
<1>2. MadeRight' /\ Lawful(made') /\ p \in Records(c)
  BY <1>1, MadeGrows
<1>3. IsDb(db) /\ TablesRight(db, made')
  BY <1>1, MoreCalls DEF WriterInv, DbRight
<1>4. c.type \in Types /\ p.type = c.type
  BY <1>1, <1>2, NewCall, RecordFacts
<1>5. IsDb(db') /\ Keeps(db, db')
  BY <1>1, <1>3, <1>4, WriteKeeps
<1> HIDE DEF p
<1>6. /\ TablesRight(db', made') /\ Stored(db', c) /\ StoresMore(db, db', made')
      /\ c.type = "turn" => p.of = Meant(c)
  BY <1>1, <1>2, <1>3, WriteRight DEF StoresMore
<1>7. IdsRight'
  BY <1>1, <1>6, IdsGrow DEF p
<1>8. FilesRight' /\ FilesApart'
  BY <1>1, FilesStay
<1>9. Waiting'
  <2>1. ASSUME NEW x \in made' \ lost', x # c
        PROVE  Waits({active} \cup queue \cup failed, db', x)
    <3>1. x \in made \ lost
      BY <1>1, <2>1
    <3> QED BY <1>1, <1>6, <3>1, MoreWaits DEF WriterInv, Waiting
  <2> QED BY <1>1, <1>6, <2>1 DEF Waiting, Waits
<1>10. TxRight'
  BY <1>1 DEF TxRight, NoTx
<1> QED BY <1>2, <1>5, <1>6, <1>7, <1>8, <1>9, <1>10 DEF WriterInv, DbRight

LEMMA ThrowStep ==
  ASSUME WriterInv, NEW c \in Calls, RecordThrows(c)
  PROVE  WriterInv'
<1>1. /\ Due(c) /\ tx = NoTx /\ made' = made \cup {c} /\ lost' = lost \cup {c}
      /\ UNCHANGED <<db, ids, active, queue, failed, tx, again>>
  BY DEF RecordThrows, spoolVars
<1>2. MadeRight'
  BY <1>1, MadeGrows
<1>3. IdsRight'
  BY <1>1 DEF WriterInv, IdsRight
<1>4. DbRight'
  BY <1>1, MoreCalls DEF WriterInv, DbRight
<1>5. FilesRight' /\ FilesApart'
  BY <1>1, FilesStay
<1>6. Waiting'
  BY <1>1 DEF WriterInv, Waiting
<1>7. TxRight'
  BY <1>1 DEF TxRight, NoTx
<1> QED BY <1>2, <1>3, <1>4, <1>5, <1>6, <1>7 DEF WriterInv

LEMMA SpoolStep ==
  ASSUME WriterInv, NEW c \in Calls, RecordSpool(c)
  PROVE  WriterInv'
<1> DEFINE p == Payload(c)
<1>1. /\ Due(c) /\ active' = Append(active, p) /\ Keep(c, Answer(p, TRUE))
      /\ made' = made \cup {c} /\ UNCHANGED <<db, lost, queue, failed, tx, again>>
  BY DEF RecordSpool
<1>2. MadeRight' /\ Lawful(made') /\ p \in Records(c)
  BY <1>1, MadeGrows
<1>3. IdsRight'
  BY <1>1, IdsGrow
<1> HIDE DEF p
<1>4. DbRight'
  BY <1>1, MoreCalls DEF WriterInv, DbRight
<1>5. MadeRecords \subseteq MadeRecords' /\ p \in MadeRecords'
  BY <1>1, <1>2 DEF MadeRecords
<1>6. active \in Seq(MadeRecords) /\ active' \in Seq(MadeRecords')
  BY <1>1, <1>5, MoreRecords DEF WriterInv, FilesRight
<1>7. FilesRight'
  BY <1>1, <1>5, <1>6, MoreRecords DEF WriterInv, FilesRight
<1>8. \A x : InFile(x, active') <=> InFile(x, active) \/ p \in Records(x)
  BY <1>1, <1>6, InMoreFile
<1>9. FilesApart'
  <2>1. ASSUME NEW f \in queue \cup failed, NEW x \in made', InFile(x, f), InFile(x, active')
        PROVE  FALSE
    <3>1. x \in made /\ x \in Calls /\ Compatible(x, c)
      BY <1>1, <1>2, <2>1, NewCall DEF Lawful
    <3>2. ~InFile(x, active)
      BY <2>1, <3>1 DEF WriterInv, FilesApart
    <3>3. p \in Records(x)
      BY <1>8, <2>1, <3>2
    <3>4. x = c
      BY <1>2, <3>1, <3>3, OneCall
    <3> QED BY <1>1, <3>1, <3>4, NewCall
  <2> QED BY <1>1, <2>1 DEF FilesApart
<1>10. ASSUME NEW S, NEW d, NEW x \in made', Waits(S \cup {active}, d, x) \/ x = c
       PROVE  Waits(S \cup {active'}, d, x)
  BY <1>2, <1>8, <1>10 DEF Waits
<1>11. \A x \in made' \ lost' : x = c \/ x \in made \ lost
  BY <1>1
<1>12. Waiting'
  <2>1. ASSUME NEW x \in made' \ lost'
        PROVE  Waits((queue \cup failed) \cup {active'}, db, x)
    <3>1. {active} \cup queue \cup failed = (queue \cup failed) \cup {active}
      OBVIOUS
    <3> QED BY <1>10, <1>11, <3>1 DEF WriterInv, Waiting
  <2>2. {active'} \cup queue \cup failed = (queue \cup failed) \cup {active'}
    OBVIOUS
  <2> QED BY <1>1, <2>1, <2>2 DEF Waiting
<1>13. TxRight'
  <2>1. SUFFICES ASSUME tx # NoTx PROVE TxRight'
    BY <1>1 DEF TxRight, NoTx
  <2>2. /\ tx = [file |-> tx.file, left |-> tx.left, batch |-> tx.batch]
        /\ tx.file \in queue /\ tx.left \in Seq(MadeRecords)
        /\ tx.batch.ok /\ BatchRight(tx.batch, made) /\ Keeps(db, tx.batch.db)
        /\ \A x \in made \ lost :
             Waits({tx.left, active} \cup failed \cup (queue \ {tx.file}), tx.batch.db, x)
    BY <2>1 DEF WriterInv, TxRight
  <2>3. BatchRight(tx.batch, made')
    BY <1>1, <2>2, MoreBatch
  <2>4. tx.left \in Seq(MadeRecords')
    BY <1>5, <2>2, MoreRecords
  <2> DEFINE rest == {tx.left} \cup failed \cup (queue \ {tx.file})
  <2>5. ASSUME NEW x \in made' \ lost'
        PROVE  Waits({tx.left, active'} \cup failed \cup (queue \ {tx.file}), tx.batch.db, x)
    <3>1. {tx.left, active} \cup failed \cup (queue \ {tx.file}) = rest \cup {active}
      OBVIOUS
    <3>2. {tx.left, active'} \cup failed \cup (queue \ {tx.file}) = rest \cup {active'}
      OBVIOUS
    <3> QED BY <1>10, <1>11, <2>2, <3>1, <3>2
  <2> QED BY <1>1, <2>2, <2>3, <2>4, <2>5 DEF TxRight
<1> QED BY <1>2, <1>3, <1>4, <1>7, <1>9, <1>12, <1>13 DEF WriterInv

\* The active file is no closed one: its calls are in no other.
LEMMA ActiveApart ==
  ASSUME FilesRight, FilesApart, active # <<>>
  PROVE  active \notin queue \cup failed
<1>1. 1 \in DOMAIN active /\ active[1] \in MadeRecords
  BY DEF FilesRight
<1>2. PICK c \in made : active[1] \in Records(c)
  BY <1>1 DEF MadeRecords
<1>3. InFile(c, active)
  BY <1>1, <1>2 DEF InFile
<1> QED BY <1>3 DEF FilesApart

LEMMA CloseStep ==
  ASSUME WriterInv, CloseFile
  PROVE  WriterInv'
<1>1. /\ active # <<>> /\ queue' = queue \cup {active} /\ active' = <<>>
      /\ UNCHANGED <<db, ids, made, lost, failed, tx, again>>
  BY DEF CloseFile, harnessVars
<1>2. active \notin queue \cup failed
  BY <1>1, ActiveApart DEF WriterInv
<1>3. MadeRight' /\ IdsRight' /\ DbRight'
  BY <1>1 DEF WriterInv, MadeRight, IdsRight, DbRight
<1>4. MadeRecords' = MadeRecords
  BY <1>1 DEF MadeRecords
<1>5. FilesRight'
  BY <1>1, <1>2, <1>4 DEF WriterInv, FilesRight
<1>6. \A c : ~InFile(c, active')
  BY <1>1 DEF InFile
<1>7. FilesApart'
  BY <1>6 DEF FilesApart
<1>8. Waiting'
  <2>1. {active} \cup queue \cup failed \subseteq {active'} \cup queue' \cup failed'
    BY <1>1
  <2> QED BY <1>1, <2>1 DEF WriterInv, Waiting, Waits
<1>9. TxRight'
  <2>1. SUFFICES ASSUME tx # NoTx PROVE TxRight'
    BY <1>1 DEF TxRight, NoTx
  <2>2. /\ tx = [file |-> tx.file, left |-> tx.left, batch |-> tx.batch]
        /\ tx.file \in queue /\ tx.left \in Seq(MadeRecords)
        /\ tx.batch.ok /\ BatchRight(tx.batch, made) /\ Keeps(db, tx.batch.db)
        /\ \A x \in made \ lost :
             Waits({tx.left, active} \cup failed \cup (queue \ {tx.file}), tx.batch.db, x)
    BY <2>1 DEF WriterInv, TxRight
  <2>3. {tx.left, active} \cup failed \cup (queue \ {tx.file})
          \subseteq {tx.left, active'} \cup failed \cup (queue' \ {tx.file})
    BY <1>1, <1>2, <2>2
  <2>4. \A x \in made' \ lost' :
          Waits({tx.left, active'} \cup failed \cup (queue' \ {tx.file}), tx.batch.db, x)
    BY <1>1, <2>2, <2>3 DEF Waits
  <2> QED BY <1>1, <1>4, <2>2, <2>4 DEF TxRight
<1> QED BY <1>3, <1>5, <1>7, <1>8, <1>9 DEF WriterInv

LEMMA BeginStep ==
  ASSUME WriterInv, NEW f \in queue, Begin(f)
  PROVE  WriterInv'
<1>1. /\ tx' = [file |-> f, left |-> f, batch |-> StartBatch(db)]
      /\ UNCHANGED <<db, ids, made, lost, active, queue, failed, again>>
  BY DEF Begin, harnessVars, spoolVars
<1>2. MadeRight' /\ IdsRight' /\ DbRight' /\ FilesRight' /\ FilesApart' /\ Waiting'
  BY <1>1 DEF WriterInv, MadeRight, IdsRight, DbRight, FilesRight, FilesApart, Waiting,
              MadeRecords
<1>3. /\ StartBatch(db).db = db /\ StartBatch(db).ok
      /\ IsBatch(StartBatch(db)) /\ MapsRight(StartBatch(db), made)
  BY DEF WriterInv, DbRight, StartBatch, IsBatch, MapsRight, NoRows
<1>4. BatchRight(StartBatch(db), made) /\ Keeps(db, StartBatch(db).db)
  BY <1>3, KeepsSelf DEF WriterInv, DbRight, BatchRight
<1>5. \A x \in made \ lost : Waits({f, active} \cup failed \cup (queue \ {f}), db, x)
  <2>1. {active} \cup queue \cup failed = {f, active} \cup failed \cup (queue \ {f})
    OBVIOUS
  <2> QED BY <2>1 DEF WriterInv, Waiting
<1>6. f \in Seq(MadeRecords) /\ MadeRecords' = MadeRecords
  BY <1>1 DEF WriterInv, FilesRight, MadeRecords
<1>7. TxRight'
  BY <1>1, <1>3, <1>4, <1>5, <1>6 DEF TxRight
<1> QED BY <1>2, <1>7 DEF WriterInv

LEMMA OpenFacts ==
  ASSUME WriterInv, tx # NoTx
  PROVE  /\ tx = [file |-> tx.file, left |-> tx.left, batch |-> tx.batch]
         /\ tx.file \in queue /\ tx.left \in Seq(MadeRecords)
         /\ tx.batch.ok /\ BatchRight(tx.batch, made) /\ Keeps(db, tx.batch.db)
         /\ \A c \in made \ lost :
              Waits({tx.left, active} \cup failed \cup (queue \ {tx.file}), tx.batch.db, c)
BY DEF WriterInv, TxRight

LEMMA ApplyStep ==
  ASSUME WriterInv, ApplyNext
  PROVE  WriterInv'
<1> DEFINE p == Head(tx.left)
           batch == Apply(tx.batch, p)
<1>1. /\ tx.left # <<>> /\ UNCHANGED <<db, ids, made, lost, active>>
      /\ \/ /\ batch.ok /\ tx' = [tx EXCEPT !.left = Tail(@), !.batch = batch]
            /\ UNCHANGED <<queue, failed, again>>
         \/ /\ ~batch.ok /\ tx' = NoTx
            /\ queue' = queue \ {tx.file} /\ failed' = failed \cup {tx.file}
            /\ again' = again \ {tx.file}
  BY DEF ApplyNext, harnessVars
<1>2. tx # NoTx
  BY <1>1 DEF NoTx
<1>3. /\ tx = [file |-> tx.file, left |-> tx.left, batch |-> tx.batch]
      /\ tx.file \in queue /\ tx.left \in Seq(MadeRecords)
      /\ tx.batch.ok /\ BatchRight(tx.batch, made) /\ Keeps(db, tx.batch.db)
      /\ \A c \in made \ lost :
           Waits({tx.left, active} \cup failed \cup (queue \ {tx.file}), tx.batch.db, c)
  BY <1>2, OpenFacts
<1>4. MadeRight' /\ IdsRight' /\ DbRight' /\ MadeRecords' = MadeRecords
  BY <1>1 DEF WriterInv, MadeRight, IdsRight, DbRight, MadeRecords
<1>5. CASE batch.ok
  <2>1. /\ tx' = [file |-> tx.file, left |-> Tail(tx.left), batch |-> batch]
        /\ UNCHANGED <<queue, failed, again>>
    BY <1>1, <1>3, <1>5
  <2>2. p \in MadeRecords /\ Tail(tx.left) \in Seq(MadeRecords)
    BY <1>1, <1>3
  <2>3. Lawful(made)
    BY DEF WriterInv, MadeRight, Lawful
  <2>4. ASSUME NEW c \in made, p \in Records(c)
        PROVE  /\ BatchRight(batch, made) /\ Keeps(tx.batch.db, batch.db)
               /\ StoresMore(tx.batch.db, batch.db, made) /\ Stored(batch.db, c)
    BY <1>3, <1>5, <2>3, <2>4, ApplyRight
  <2>5. /\ BatchRight(batch, made) /\ Keeps(tx.batch.db, batch.db)
        /\ StoresMore(tx.batch.db, batch.db, made)
    BY <2>2, <2>4 DEF MadeRecords
  <2>6. Keeps(db, batch.db)
    BY <1>3, <2>5, KeepsTransitive
  <2> HIDE DEF batch
  <2>7. ASSUME NEW c \in made \ lost
        PROVE  Waits({Tail(tx.left), active} \cup failed \cup (queue \ {tx.file}), batch.db, c)
    <3>1. CASE p \in Records(c)
      BY <2>4, <3>1 DEF Waits
    <3>2. CASE p \notin Records(c)
      <4>1. InFile(c, tx.left) => InFile(c, Tail(tx.left))
        BY <1>1, <1>3, <3>2, InTail
      <4> DEFINE S == {tx.left, active} \cup failed \cup (queue \ {tx.file})
                 T == {Tail(tx.left), active} \cup failed \cup (queue \ {tx.file})
      <4>2. \A f \in S : InFile(c, f) => \E g \in T : InFile(c, g)
        BY <4>1
      <4>3. Waits(S, tx.batch.db, c)
        BY <1>3
      <4> HIDE DEF S, T
      <4>4. Waits(T, batch.db, c)
        BY <2>5, <4>2, <4>3, MoreWaits
      <4> QED BY <4>4 DEF T
    <3> QED BY <3>1, <3>2
  <2>8. TxRight'
    BY <1>1, <1>3, <1>4, <1>5, <2>1, <2>2, <2>5, <2>6, <2>7 DEF TxRight
  <2>9. FilesRight' /\ FilesApart' /\ Waiting'
    BY <1>1, <1>4, <2>1 DEF WriterInv, FilesRight, FilesApart, Waiting
  <2> QED BY <1>4, <2>8, <2>9 DEF WriterInv
<1>6. CASE ~batch.ok
  <2> HIDE DEF batch
  <2>1. /\ tx' = NoTx /\ queue' = queue \ {tx.file} /\ failed' = failed \cup {tx.file}
        /\ again' = again \ {tx.file}
    BY <1>1, <1>6
  <2>2. queue' \cup failed' = queue \cup failed
    BY <1>3, <2>1
  <2>3. FilesRight'
    BY <1>1, <1>4, <2>1, <2>2 DEF WriterInv, FilesRight
  <2>4. FilesApart'
    BY <1>1, <2>2 DEF WriterInv, FilesApart
  <2>5. Waiting'
    <3>1. {active'} \cup queue' \cup failed' = {active} \cup queue \cup failed
      BY <1>1, <2>2
    <3> QED BY <1>1, <3>1 DEF WriterInv, Waiting
  <2>6. TxRight'
    BY <2>1 DEF TxRight, NoTx
  <2> QED BY <1>4, <2>3, <2>4, <2>5, <2>6 DEF WriterInv
<1> QED BY <1>5, <1>6

LEMMA CommitStep ==
  ASSUME WriterInv, CommitFile
  PROVE  WriterInv' /\ Keeps(db, db')
<1>1. /\ tx # NoTx /\ tx.left = <<>> /\ db' = tx.batch.db /\ tx' = NoTx
      /\ UNCHANGED <<ids, made, lost, active, failed>>
      /\ \/ queue' = queue \ {tx.file} /\ again' = again \ {tx.file}
         \/ again' = again \cup {tx.file} /\ UNCHANGED queue
  BY DEF CommitFile, harnessVars
<1>2. /\ tx.file \in queue
      /\ BatchRight(tx.batch, made) /\ Keeps(db, tx.batch.db)
      /\ \A c \in made \ lost :
           Waits({tx.left, active} \cup failed \cup (queue \ {tx.file}), tx.batch.db, c)
  BY <1>1, OpenFacts
<1>3. MadeRight' /\ IdsRight' /\ MadeRecords' = MadeRecords
  BY <1>1 DEF WriterInv, MadeRight, IdsRight, MadeRecords
<1>4. DbRight'
  BY <1>1, <1>2 DEF DbRight, BatchRight, IsBatch
<1>5. queue' \subseteq queue /\ queue \ {tx.file} \subseteq queue'
  BY <1>1
<1>6. FilesRight'
  BY <1>1, <1>2, <1>3, <1>5 DEF WriterInv, FilesRight
<1>7. FilesApart'
  BY <1>1, <1>5 DEF WriterInv, FilesApart
<1>8. Waiting'
  <2>1. ASSUME NEW c \in made \ lost
        PROVE  Waits({active'} \cup queue' \cup failed', db', c)
    <3>1. ~InFile(c, tx.left)
      BY <1>1 DEF InFile
    <3>2. Stored(db', c) \/ \E f \in {tx.left, active} \cup failed \cup (queue \ {tx.file}) :
                              InFile(c, f)
      BY <1>1, <1>2 DEF Waits
    <3> QED BY <1>1, <1>5, <3>1, <3>2 DEF Waits
  <2> QED BY <1>1, <2>1 DEF Waiting
<1>9. TxRight'
  BY <1>1 DEF TxRight, NoTx
<1> QED BY <1>1, <1>2, <1>3, <1>4, <1>6, <1>7, <1>8, <1>9 DEF WriterInv

LEMMA AbortStep ==
  ASSUME WriterInv, Abort
  PROVE  WriterInv'
<1>1. tx' = NoTx /\ UNCHANGED <<db, ids, made, lost, active, queue, failed, again>>
  BY DEF Abort, harnessVars, spoolVars
<1>2. MadeRight' /\ IdsRight' /\ DbRight' /\ FilesRight' /\ FilesApart' /\ Waiting'
  BY <1>1 DEF WriterInv, MadeRight, IdsRight, DbRight, FilesRight, FilesApart, Waiting,
              MadeRecords
<1>3. TxRight'
  BY <1>1 DEF TxRight, NoTx
<1> QED BY <1>2, <1>3 DEF WriterInv

LEMMA Start == Init => WriterInv
<1> SUFFICES ASSUME Init PROVE WriterInv
  OBVIOUS
<1>1. MadeRight /\ IdsRight
  BY DEF Init, MadeRight, IdsRight, NoRows
<1>2. DbRight
  BY DEF Init, DbRight, IsDb, EmptyDb, NoRows, TablesRight, SessionsRight, TurnsRight,
         PlansRight, MessagesRight, ToolsRight
<1>3. FilesRight /\ FilesApart /\ Waiting /\ TxRight
  BY DEF Init, FilesRight, FilesApart, Waiting, TxRight, NoTx
<1> QED BY <1>1, <1>2, <1>3 DEF WriterInv

\* Every step keeps the invariant, and what is known of a session or a turn.
LEMMA Step ==
  ASSUME WriterInv, [Next]_vars
  PROVE  WriterInv' /\ Keeps(db, db')
<1>1. ASSUME NEW c \in Calls, RecordLive(c) PROVE WriterInv' /\ Keeps(db, db')
  BY <1>1, LiveStep
<1>2. ASSUME NEW c \in Calls, RecordThrows(c) PROVE WriterInv' /\ Keeps(db, db')
  BY <1>2, ThrowStep, KeepsSelf DEF RecordThrows
<1>3. ASSUME NEW c \in Calls, RecordSpool(c) PROVE WriterInv' /\ Keeps(db, db')
  BY <1>3, SpoolStep, KeepsSelf DEF RecordSpool
<1>4. CASE CloseFile
  BY <1>4, CloseStep, KeepsSelf DEF CloseFile
<1>5. ASSUME NEW f \in queue, Begin(f) PROVE WriterInv' /\ Keeps(db, db')
  BY <1>5, BeginStep, KeepsSelf DEF Begin
<1>6. CASE ApplyNext
  BY <1>6, ApplyStep, KeepsSelf DEF ApplyNext
<1>7. CASE CommitFile
  BY <1>7, CommitStep
<1>8. CASE Abort
  BY <1>8, AbortStep, KeepsSelf DEF Abort
<1>9. CASE UNCHANGED vars
  <2>1. UNCHANGED <<db, ids, made, lost, active, queue, failed, tx, again>>
    BY <1>9 DEF vars, harnessVars, spoolVars
  <2>2. MadeRight' /\ IdsRight' /\ DbRight' /\ FilesRight' /\ FilesApart' /\ Waiting' /\ TxRight'
    BY <2>1 DEF WriterInv, MadeRight, IdsRight, DbRight, FilesRight, FilesApart, Waiting,
                TxRight, MadeRecords, NoTx
  <2> QED BY <2>1, <2>2, KeepsSelf DEF WriterInv
<1> QED BY <1>1, <1>2, <1>3, <1>4, <1>5, <1>6, <1>7, <1>8, <1>9 DEF Next

-----------------------------------------------------------------------------

\* The writers and the drains keep the invariant, whatever is reported, in
\* whatever order the files are drained (writer.ts, drain-engine.ts).
THEOREM Invariant == Spec => []WriterInv
<1>1. Init => WriterInv
  BY Start
<1>2. WriterInv /\ [Next]_vars => WriterInv'
  BY Step
<1> QED BY <1>1, <1>2, PTL DEF Spec

\* The tables, the ids and the files only name what the harness named.
THEOREM TypeCorrect == Spec => []TypeOK
<1>1. WriterInv => TypeOK
  <2> SUFFICES ASSUME WriterInv PROVE TypeOK
    OBVIOUS
  <2>1. MadeRight /\ IdsRight /\ TablesRight(db, made)
    BY DEF WriterInv, DbRight
  <2>2. lost \subseteq made /\ made \subseteq Calls
    BY <2>1 DEF MadeRight
  <2>3. DOMAIN ids \subseteq UNION {Named(c) : c \in Calls}
    <3>1. ASSUME NEW n \in DOMAIN ids PROVE \E c \in Calls : n \in Named(c)
      <4>1. PICK c \in made : Identifies(n, ids[n], c)
        BY <2>1 DEF IdsRight
      <4>2. n \in Named(c)
        BY <4>1 DEF Identifies, Named
      <4> QED BY <2>2, <4>2
    <3> QED BY <3>1
  <2>4. ASSUME NEW k \in DOMAIN db.sessions
        PROVE  \E c \in Calls : c.type = "session" /\ k = Meant(c)
    <3>1. PICK c \in made : c.type \in Children \cup {"session"} /\ k = Meant(c)
      BY <2>1 DEF TablesRight, SessionsRight
    <3>2. PICK e \in made : e.type = "session" /\ e.session = c.session
      BY <2>1, <3>1 DEF MadeRight
    <3>3. Meant(e) = Meant(c)
      BY <2>1, <3>2, MeantApart DEF MadeRight, Compatible
    <3> QED BY <2>2, <3>1, <3>2, <3>3
  <2>5. ASSUME NEW k \in DOMAIN db.messages
        PROVE  \E c \in Calls : c.type = "message" /\ k = MessageId(c)
    <3>1. PICK c \in OfMessage(made, k) : TRUE
      BY <2>1 DEF TablesRight, MessagesRight
    <3> QED BY <2>2, <3>1 DEF OfMessage
  <2>6. again \subseteq queue /\ queue \cap failed = {}
    BY DEF WriterInv, FilesRight
  <2>7. tx # NoTx => tx.file \in queue
    BY OpenFacts
  <2> QED BY <2>2, <2>3, <2>4, <2>5, <2>6, <2>7 DEF TypeOK
<1> QED BY <1>1, Invariant, PTL

\* When all is drained and nothing was quarantined or thrown, every session,
\* turn and tool call holds what was reported of it and every message is in its
\* turn, in whatever order the reports were drained (drain-engine.ts:21-29,
\* 92-134).  A message's tokens are those drained last.
THEOREM OrderIsForgiven == Spec => []OrderForgiven
<1>1. WriterInv => OrderForgiven
  <2> SUFFICES ASSUME WriterInv, Settled, NEW c \in made PROVE Stored(db, c)
    BY DEF OrderForgiven
  <2>1. active = <<>> /\ {active} \cup queue \cup failed = {active} /\ c \in made \ lost
    BY DEF Settled
  <2>2. Waits({active}, db, c)
    BY <2>1 DEF WriterInv, Waiting
  <2> QED BY <2>1, <2>2 DEF Waits, InFile
<1> QED BY <1>1, Invariant, PTL

\* A message or a tool call belongs to the session, the turn and the plan the
\* harness meant, and these have rows, whatever placeholders, lookups and
\* repairs it went through (drain-engine.ts: resolveOrRepairSession,
\* resolveOrRepairTurn).
LEMMA SameThing ==
  ASSUME MadeRight, NEW c \in made, NEW k
  PROVE  /\ c.type = "message" /\ k = MessageId(c) =>
              /\ OfMessage(made, k) \subseteq Same(c)
              /\ \A e \in OfMessage(made, k) : Meant(e) = Meant(c)
         /\ c.type = "tool" /\ k = ToolId(c) =>
              /\ OfTool(made, k) \subseteq Same(c)
              /\ \A e \in OfTool(made, k) : Meant(e) = Meant(c)
<1>1. ASSUME c.type = "message", k = MessageId(c), NEW e \in OfMessage(made, k)
      PROVE  e \in Same(c) /\ Meant(e) = Meant(c)
  <2>1. e \in made /\ e.type = "message" /\ MessageId(e) = MessageId(c)
    BY <1>1 DEF OfMessage
  <2>2. e.harness = c.harness /\ e.message = c.message
    BY <2>1, MeantApart
  <2>3. e.about = c.about /\ e.session = c.session
    BY <1>1, <2>1, <2>2 DEF MadeRight, Compatible
  <2> QED BY <1>1, <2>1, <2>2, <2>3, MeantApart DEF Same
<1>2. ASSUME c.type = "tool", k = ToolId(c), NEW e \in OfTool(made, k)
      PROVE  e \in Same(c) /\ Meant(e) = Meant(c)
  <2>1. e \in made /\ e.type = "tool" /\ ToolId(e) = ToolId(c)
    BY <1>2 DEF OfTool
  <2>2. e.harness = c.harness /\ e.tool = c.tool
    BY <2>1, MeantApart
  <2>3. e.about = c.about /\ e.session = c.session
    BY <1>2, <2>1, <2>2 DEF MadeRight, Compatible
  <2> QED BY <1>2, <2>1, <2>2, <2>3, MeantApart DEF Same
<1> QED BY <1>1, <1>2

THEOREM RowsAttributed == Spec => []Attributed
<1>1. WriterInv => Attributed
  <2> SUFFICES ASSUME WriterInv, NEW c \in made
               PROVE
    /\ c.type = "message" /\ Has(db.messages, MessageId(c)) =>
         LET row == db.messages[MessageId(c)] IN
           /\ row.of = Meant(c) /\ Has(db.sessions, row.of)
           /\ row.within # Null => /\ \E e \in Same(c) : row.within = MeantTurn(e)
                                   /\ Has(db.turns, row.within)
           /\ row.paid # Null => /\ \E e \in Same(c) : row.paid = MeantPlan(e)
                                 /\ Has(db.plans, row.paid)
    /\ c.type = "tool" /\ Has(db.tools, ToolId(c)) =>
         LET row == db.tools[ToolId(c)] IN
           /\ row.of = Meant(c) /\ Has(db.sessions, row.of)
           /\ row.within # Null => /\ \E e \in Same(c) : row.within = MeantTurn(e)
                                   /\ Has(db.turns, row.within)
    BY DEF Attributed
  <2>1. MadeRight /\ MessagesRight(db, made) /\ ToolsRight(db, made)
    BY DEF WriterInv, DbRight, TablesRight
  <2>2. ASSUME c.type = "message", Has(db.messages, MessageId(c))
        PROVE  LET row == db.messages[MessageId(c)] IN
               /\ row.of = Meant(c) /\ Has(db.sessions, row.of)
               /\ row.within # Null => /\ \E e \in Same(c) : row.within = MeantTurn(e)
                                       /\ Has(db.turns, row.within)
               /\ row.paid # Null => /\ \E e \in Same(c) : row.paid = MeantPlan(e)
                                     /\ Has(db.plans, row.paid)
    <3> DEFINE k == MessageId(c)
    <3>1. k \in DOMAIN db.messages
      BY <2>2 DEF Has
    <3> HIDE DEF k
    <3>2. /\ \E e \in OfMessage(made, k) : LinkedSession(db, db.messages[k], e)
          /\ LinkedTurn(db, db.messages[k], OfMessage(made, k))
          /\ LinkedPlan(db, db.messages[k], OfMessage(made, k))
      BY <2>1, <3>1 DEF MessagesRight
    <3>3. /\ OfMessage(made, k) \subseteq Same(c)
          /\ \A e \in OfMessage(made, k) : Meant(e) = Meant(c)
      BY <2>1, <2>2, SameThing DEF k
    <3>4. /\ db.messages[k].of = Meant(c) /\ db.messages[k].of \in DOMAIN db.sessions
      BY <3>2, <3>3 DEF LinkedSession
    <3> QED BY <3>2, <3>3, <3>4 DEF LinkedTurn, LinkedPlan, Has, k
  <2>3. ASSUME c.type = "tool", Has(db.tools, ToolId(c))
        PROVE  LET row == db.tools[ToolId(c)] IN
               /\ row.of = Meant(c) /\ Has(db.sessions, row.of)
               /\ row.within # Null => /\ \E e \in Same(c) : row.within = MeantTurn(e)
                                       /\ Has(db.turns, row.within)
    <3> DEFINE k == ToolId(c)
    <3>1. k \in DOMAIN db.tools
      BY <2>3 DEF Has
    <3> HIDE DEF k
    <3>2. /\ \E e \in OfTool(made, k) : LinkedSession(db, db.tools[k], e)
          /\ LinkedTurn(db, db.tools[k], OfTool(made, k))
      BY <2>1, <3>1 DEF ToolsRight
    <3>3. /\ OfTool(made, k) \subseteq Same(c)
          /\ \A e \in OfTool(made, k) : Meant(e) = Meant(c)
      BY <2>1, <2>3, SameThing DEF k
    <3>4. db.tools[k].of = Meant(c) /\ db.tools[k].of \in DOMAIN db.sessions
      BY <3>2, <3>3 DEF LinkedSession
    <3> QED BY <3>2, <3>3, <3>4 DEF LinkedTurn, Has, k
  <2> QED BY <2>2, <2>3
<1> QED BY <1>1, Invariant, PTL

\* No step takes back a start, an end or a directory that is known.
THEOREM NothingIsForgotten == Spec => NothingForgotten
<1>1. WriterInv /\ [Next]_vars =>
        [/\ \A k \in DOMAIN db.sessions :
              LET old == db.sessions[k]
                  new == db'.sessions[k]
              IN /\ old.started # 0 => new.started # 0
                 /\ old.ended # Null => new.ended # Null
                 /\ old.cwd # Null => new.cwd # Null
         /\ \A k \in DOMAIN db.turns :
              /\ db.turns[k].started # 0 => db'.turns[k].started # 0
              /\ db.turns[k].ended # Null => db'.turns[k].ended # Null]_vars
  BY Step DEF Keeps, Known
<1> QED BY <1>1, Invariant, PTL DEF Spec, NothingForgotten

-----------------------------------------------------------------------------
(* A file drained twice                                                    *)

\* The tables are functions from their keys, and their rows have columns.
IsHarness(row) == row = [version |-> row.version]
IsSession(row) == row = [cwd |-> row.cwd, started |-> row.started, ended |-> row.ended]
IsTurn(row) == row = [started |-> row.started, ended |-> row.ended]
IsPlan(row) == row = [used |-> row.used]
IsMessage(row) ==
  row = [of |-> row.of, within |-> row.within, tokens |-> row.tokens, paid |-> row.paid]
IsTool(row) == row = [of |-> row.of, within |-> row.within, ended |-> row.ended]

IsTable(table) == table = [k \in DOMAIN table |-> table[k]]
Harnesses(table) == IsTable(table) /\ \A k \in DOMAIN table : IsHarness(table[k])
SessionRows(table) == IsTable(table) /\ \A k \in DOMAIN table : IsSession(table[k])
TurnRows(table) == IsTable(table) /\ \A k \in DOMAIN table : IsTurn(table[k])
Plans(table) == IsTable(table) /\ \A k \in DOMAIN table : IsPlan(table[k])
MessageRows(table) == IsTable(table) /\ \A k \in DOMAIN table : IsMessage(table[k])
ToolRows(table) == IsTable(table) /\ \A k \in DOMAIN table : IsTool(table[k])

Shaped(d) ==
  /\ IsDb(d) /\ Harnesses(d.harnesses) /\ SessionRows(d.sessions) /\ TurnRows(d.turns)
  /\ Plans(d.plans) /\ MessageRows(d.messages) /\ ToolRows(d.tools)

\* No row goes away.
Grows(d, e) ==
  /\ DOMAIN d.harnesses \subseteq DOMAIN e.harnesses
  /\ DOMAIN d.sessions \subseteq DOMAIN e.sessions
  /\ DOMAIN d.turns \subseteq DOMAIN e.turns
  /\ DOMAIN d.plans \subseteq DOMAIN e.plans
  /\ DOMAIN d.messages \subseteq DOMAIN e.messages
  /\ DOMAIN d.tools \subseteq DOMAIN e.tools

LEMMA GrowsTransitive ==
  ASSUME NEW d, NEW e, NEW f, Grows(d, e), Grows(e, f)
  PROVE  Grows(d, f)
BY DEF Grows

LEMMA UpsertShaped ==
  ASSUME NEW table, NEW key, NEW row
  PROVE  LET new == Upsert(table, key, row) IN
         /\ DOMAIN table \subseteq DOMAIN new
         /\ Harnesses(table) /\ IsHarness(row) => Harnesses(new)
         /\ SessionRows(table) /\ IsSession(row) => SessionRows(new)
         /\ TurnRows(table) /\ IsTurn(row) => TurnRows(new)
         /\ Plans(table) /\ IsPlan(row) => Plans(new)
         /\ MessageRows(table) /\ IsMessage(row) => MessageRows(new)
         /\ ToolRows(table) /\ IsTool(row) => ToolRows(new)
<1> DEFINE new == Upsert(table, key, row)
<1>1. IsTable(new) /\ DOMAIN table \subseteq DOMAIN new
  BY DEF IsTable, Upsert
<1>2. \A k \in DOMAIN new : new[k] = row \/ (k \in DOMAIN table /\ new[k] = table[k])
  BY DEF Upsert
<1> HIDE DEF new
<1> QED BY <1>1, <1>2
        DEF new, Harnesses, SessionRows, TurnRows, Plans, MessageRows, ToolRows

LEMMA WriteHarnessShaped ==
  ASSUME NEW d, Shaped(d), NEW p
  PROVE  Shaped(WriteHarness(d, p)) /\ Grows(d, WriteHarness(d, p))
<1> DEFINE e == WriteHarness(d, p)
           row == [version |-> p.version]
<1>1. /\ IsDb(e) /\ e.harnesses = Upsert(d.harnesses, p.harness, row)
      /\ e.sessions = d.sessions /\ e.turns = d.turns /\ e.plans = d.plans
      /\ e.messages = d.messages /\ e.tools = d.tools
  BY WriteHarnessFacts DEF Shaped
<1>2. IsHarness(row)
  BY DEF IsHarness
<1> HIDE DEF e, row
<1>3. Shaped(e) /\ Grows(d, e)
  BY <1>1, <1>2, UpsertShaped DEF Shaped, Grows
<1> QED BY <1>3 DEF e

LEMMA WriteSessionShaped ==
  ASSUME NEW d, Shaped(d), NEW p
  PROVE  Shaped(WriteSession(d, p)) /\ Grows(d, WriteSession(d, p))
<1> DEFINE e == WriteSession(d, p)
           row == SessionRow(d, p)
<1>1. /\ IsDb(e) /\ e.sessions = Upsert(d.sessions, SessionId(p), row)
      /\ e.harnesses = d.harnesses /\ e.turns = d.turns /\ e.plans = d.plans
      /\ e.messages = d.messages /\ e.tools = d.tools
  BY WriteSessionFacts DEF Shaped
<1>2. IsSession(row)
  BY DEF IsSession, SessionRow
<1> HIDE DEF e, row
<1>3. Shaped(e) /\ Grows(d, e)
  BY <1>1, <1>2, UpsertShaped DEF Shaped, Grows
<1> QED BY <1>3 DEF e

LEMMA WriteTurnShaped ==
  ASSUME NEW d, Shaped(d), NEW p
  PROVE  Shaped(WriteTurn(d, p)) /\ Grows(d, WriteTurn(d, p))
<1> DEFINE e == WriteTurn(d, p)
           row == TurnRow(d, p)
<1>1. /\ IsDb(e) /\ e.turns = Upsert(d.turns, TurnId(p), row)
      /\ e.harnesses = d.harnesses /\ e.sessions = d.sessions /\ e.plans = d.plans
      /\ e.messages = d.messages /\ e.tools = d.tools
  BY WriteTurnFacts DEF Shaped
<1>2. IsTurn(row)
  BY DEF IsTurn, TurnRow
<1> HIDE DEF e, row
<1>3. Shaped(e) /\ Grows(d, e)
  BY <1>1, <1>2, UpsertShaped DEF Shaped, Grows
<1> QED BY <1>3 DEF e

LEMMA WritePlanShaped ==
  ASSUME NEW d, Shaped(d), NEW p
  PROVE  Shaped(WritePlan(d, p)) /\ Grows(d, WritePlan(d, p))
<1> DEFINE e == WritePlan(d, p)
           row == [used |-> p.used]
<1>1. /\ IsDb(e) /\ e.plans = Upsert(d.plans, PlanId(p), row)
      /\ e.harnesses = d.harnesses /\ e.sessions = d.sessions /\ e.turns = d.turns
      /\ e.messages = d.messages /\ e.tools = d.tools
  BY WritePlanFacts DEF Shaped
<1>2. IsPlan(row)
  BY DEF IsPlan
<1> HIDE DEF e, row
<1>3. Shaped(e) /\ Grows(d, e)
  BY <1>1, <1>2, UpsertShaped DEF Shaped, Grows
<1> QED BY <1>3 DEF e

LEMMA WriteMessageShaped ==
  ASSUME NEW d, Shaped(d), NEW p
  PROVE  Shaped(WriteMessage(d, p)) /\ Grows(d, WriteMessage(d, p))
<1> DEFINE e == WriteMessage(d, p)
           row == MessageRow(d, p)
<1>1. /\ IsDb(e) /\ e.messages = Upsert(d.messages, MessageId(p), row)
      /\ e.harnesses = d.harnesses /\ e.sessions = d.sessions /\ e.turns = d.turns
      /\ e.plans = d.plans /\ e.tools = d.tools
  BY WriteMessageFacts DEF Shaped
<1>2. IsMessage(row)
  BY DEF IsMessage, MessageRow
<1> HIDE DEF e, row
<1>3. Shaped(e) /\ Grows(d, e)
  BY <1>1, <1>2, UpsertShaped DEF Shaped, Grows
<1> QED BY <1>3 DEF e

LEMMA WriteToolShaped ==
  ASSUME NEW d, Shaped(d), NEW p
  PROVE  Shaped(WriteTool(d, p)) /\ Grows(d, WriteTool(d, p))
<1> DEFINE e == WriteTool(d, p)
           row == ToolRow(d, p)
<1>1. /\ IsDb(e) /\ e.tools = Upsert(d.tools, ToolId(p), row)
      /\ e.harnesses = d.harnesses /\ e.sessions = d.sessions /\ e.turns = d.turns
      /\ e.plans = d.plans /\ e.messages = d.messages
  BY WriteToolFacts DEF Shaped
<1>2. IsTool(row)
  BY DEF IsTool, ToolRow
<1> HIDE DEF e, row
<1>3. Shaped(e) /\ Grows(d, e)
  BY <1>1, <1>2, UpsertShaped DEF Shaped, Grows
<1> QED BY <1>3 DEF e

LEMMA WriteShaped ==
  ASSUME NEW d, Shaped(d), NEW p, p.type \in Types
  PROVE  Shaped(Write(d, p)) /\ Grows(d, Write(d, p))
<1>1. CASE p.type = "harness"
  BY <1>1, WriteHarnessShaped DEF Write
<1>2. CASE p.type = "session"
  BY <1>2, WriteSessionShaped DEF Write
<1>3. CASE p.type = "turn"
  BY <1>3, WriteTurnShaped DEF Write
<1>4. CASE p.type = "plan"
  BY <1>4, WritePlanShaped DEF Write
<1>5. CASE p.type = "message"
  BY <1>5, WriteMessageShaped DEF Write
<1>6. CASE p.type = "tool"
  BY <1>6, WriteToolShaped DEF Write
<1>7. CASE p.type = "raw"
  <2>1. Write(d, p) = WriteRaw(d, p)
    BY <1>7 DEF Write
  <2>2. IsDb(d)
    BY DEF Shaped
  <2> QED BY <2>1, <2>2, WriteRawFacts DEF Shaped, Grows
<1> QED BY <1>1, <1>2, <1>3, <1>4, <1>5, <1>6, <1>7 DEF Types

\* Of a table when a file is drained again: each column of a row is still as
\* the first drain left it in the end, or as it was when the first drain had
\* come as far.
Between(now, first, end, columns) ==
  /\ DOMAIN now = DOMAIN end /\ DOMAIN first \subseteq DOMAIN end
  /\ \A k \in DOMAIN end : \A x \in columns :
       \/ now[k][x] = end[k][x]
       \/ k \in DOMAIN first /\ now[k][x] = first[k][x]

Replays(u, s, e) ==
  /\ Between(u.harnesses, s.harnesses, e.harnesses, {"version"})
  /\ Between(u.sessions, s.sessions, e.sessions, {"cwd", "started", "ended"})
  /\ Between(u.turns, s.turns, e.turns, {"started", "ended"})
  /\ Between(u.plans, s.plans, e.plans, {"used"})
  /\ Between(u.messages, s.messages, e.messages, {"of", "within", "tokens", "paid"})
  /\ Between(u.tools, s.tools, e.tools, {"of", "within", "ended"})

\* A write sets a column in both drains alike, or leaves it alone.
LEMMA BetweenUpsert ==
  ASSUME NEW U, NEW S, NEW E, NEW F, Between(U, S, E, F), NEW key \in DOMAIN E,
         NEW u, NEW s,
         \A x \in F : u[x] = s[x] \/ (u[x] = U[key][x] /\ (key \in DOMAIN S => s[x] = S[key][x]))
  PROVE  Between(Upsert(U, key, u), Upsert(S, key, s), E, F)
<1> DEFINE V == Upsert(U, key, u)
           T == Upsert(S, key, s)
<1>1. /\ DOMAIN V = DOMAIN U \cup {key} /\ V[key] = u
      /\ \A k \in DOMAIN U : k # key => V[k] = U[k]
      /\ DOMAIN T = DOMAIN S \cup {key} /\ T[key] = s
      /\ \A k \in DOMAIN S : k # key => T[k] = S[k]
  BY DEF Upsert
<1> HIDE DEF V, T
<1>2. DOMAIN V = DOMAIN E /\ DOMAIN T \subseteq DOMAIN E
  BY <1>1 DEF Between
<1>3. ASSUME NEW k \in DOMAIN E, NEW x \in F
      PROVE  V[k][x] = E[k][x] \/ (k \in DOMAIN T /\ V[k][x] = T[k][x])
  <2>1. U[k][x] = E[k][x] \/ (k \in DOMAIN S /\ U[k][x] = S[k][x])
    BY DEF Between
  <2>2. CASE k = key
    BY <1>1, <2>1, <2>2
  <2>3. CASE k # key
    BY <1>1, <2>1, <2>3 DEF Between
  <2> QED BY <2>2, <2>3
<1>4. Between(V, T, E, F)
  BY <1>2, <1>3 DEF Between
<1> QED BY <1>4 DEF V, T

LEMMA BetweenKeys ==
  ASSUME NEW U, NEW S, NEW E, NEW F, Between(U, S, E, F), NEW key, NEW row,
         DOMAIN Upsert(S, key, row) \subseteq DOMAIN E
  PROVE  key \in DOMAIN E /\ DOMAIN U = DOMAIN E
BY DEF Between, Upsert

LEMMA WriteHarnessReplays ==
  ASSUME NEW u, NEW s, NEW e, NEW p, IsDb(u), IsDb(s), Replays(u, s, e),
         Grows(WriteHarness(s, p), e)
  PROVE  Replays(WriteHarness(u, p), WriteHarness(s, p), e)
<1> DEFINE v == WriteHarness(u, p)
           t == WriteHarness(s, p)
           key == p.harness
           new == [version |-> p.version]
           row == [version |-> p.version]
           U == u.harnesses
           S == s.harnesses
<1>1. /\ v.harnesses = Upsert(U, key, new)
      /\ v.sessions = u.sessions /\ v.turns = u.turns /\ v.plans = u.plans
      /\ v.messages = u.messages /\ v.tools = u.tools
  BY WriteHarnessFacts
<1>2. /\ t.harnesses = Upsert(S, key, row)
      /\ t.sessions = s.sessions /\ t.turns = s.turns /\ t.plans = s.plans
      /\ t.messages = s.messages /\ t.tools = s.tools
  BY WriteHarnessFacts
<1>3. key \in DOMAIN e.harnesses /\ DOMAIN U = DOMAIN e.harnesses
  <2>1. Between(U, S, e.harnesses, {"version"})
    BY DEF Replays
  <2>2. DOMAIN t.harnesses \subseteq DOMAIN e.harnesses
    BY DEF Grows
  <2> HIDE DEF t, key, row, U, S
  <2> QED BY <1>2, <2>1, <2>2, BetweenKeys
<1>4. new.version = row.version \/ (new.version = U[key].version /\ (key \in DOMAIN S => row.version = S[key].version))
  OBVIOUS
<1> HIDE DEF v, t, key, new, row, U, S
<1>5. \A x \in {"version"} :
        new[x] = row[x] \/ (new[x] = U[key][x] /\ (key \in DOMAIN S => row[x] = S[key][x]))
  BY <1>4
<1>6. Between(U, S, e.harnesses, {"version"})
  BY DEF Replays, U, S
<1>7. Between(Upsert(U, key, new), Upsert(S, key, row), e.harnesses, {"version"})
  BY <1>3, <1>5, <1>6, BetweenUpsert
<1>8. Replays(v, t, e)
  BY <1>1, <1>2, <1>7 DEF Replays
<1> QED BY <1>8 DEF v, t

LEMMA WriteSessionReplays ==
  ASSUME NEW u, NEW s, NEW e, NEW p, IsDb(u), IsDb(s), Replays(u, s, e),
         Grows(WriteSession(s, p), e)
  PROVE  Replays(WriteSession(u, p), WriteSession(s, p), e)
<1> DEFINE v == WriteSession(u, p)
           t == WriteSession(s, p)
           key == SessionId(p)
           new == SessionRow(u, p)
           row == SessionRow(s, p)
           U == u.sessions
           S == s.sessions
<1>1. /\ v.sessions = Upsert(U, key, new)
      /\ v.harnesses = u.harnesses /\ v.turns = u.turns /\ v.plans = u.plans
      /\ v.messages = u.messages /\ v.tools = u.tools
  BY WriteSessionFacts
<1>2. /\ t.sessions = Upsert(S, key, row)
      /\ t.harnesses = s.harnesses /\ t.turns = s.turns /\ t.plans = s.plans
      /\ t.messages = s.messages /\ t.tools = s.tools
  BY WriteSessionFacts
<1>3. key \in DOMAIN e.sessions /\ DOMAIN U = DOMAIN e.sessions
  <2>1. Between(U, S, e.sessions, {"cwd", "started", "ended"})
    BY DEF Replays
  <2>2. DOMAIN t.sessions \subseteq DOMAIN e.sessions
    BY DEF Grows
  <2> HIDE DEF t, key, row, U, S
  <2> QED BY <1>2, <2>1, <2>2, BetweenKeys
<1>4. new.cwd = row.cwd \/ (new.cwd = U[key].cwd /\ (key \in DOMAIN S => row.cwd = S[key].cwd))
  BY <1>3 DEF SessionRow, Row, Has, Coalesce
<1>5. new.started = row.started \/ (new.started = U[key].started /\ (key \in DOMAIN S => row.started = S[key].started))
  BY <1>3 DEF SessionRow, Row, Has, NewTime
<1>6. new.ended = row.ended \/ (new.ended = U[key].ended /\ (key \in DOMAIN S => row.ended = S[key].ended))
  BY <1>3 DEF SessionRow, Row, Has, Coalesce
<1> HIDE DEF v, t, key, new, row, U, S
<1>7. \A x \in {"cwd", "started", "ended"} :
        new[x] = row[x] \/ (new[x] = U[key][x] /\ (key \in DOMAIN S => row[x] = S[key][x]))
  BY <1>4, <1>5, <1>6
<1>8. Between(U, S, e.sessions, {"cwd", "started", "ended"})
  BY DEF Replays, U, S
<1>9. Between(Upsert(U, key, new), Upsert(S, key, row), e.sessions, {"cwd", "started", "ended"})
  BY <1>3, <1>7, <1>8, BetweenUpsert
<1>10. Replays(v, t, e)
  BY <1>1, <1>2, <1>9 DEF Replays
<1> QED BY <1>10 DEF v, t

LEMMA WriteTurnReplays ==
  ASSUME NEW u, NEW s, NEW e, NEW p, IsDb(u), IsDb(s), Replays(u, s, e),
         Grows(WriteTurn(s, p), e)
  PROVE  Replays(WriteTurn(u, p), WriteTurn(s, p), e)
<1> DEFINE v == WriteTurn(u, p)
           t == WriteTurn(s, p)
           key == TurnId(p)
           new == TurnRow(u, p)
           row == TurnRow(s, p)
           U == u.turns
           S == s.turns
<1>1. /\ v.turns = Upsert(U, key, new)
      /\ v.harnesses = u.harnesses /\ v.sessions = u.sessions /\ v.plans = u.plans
      /\ v.messages = u.messages /\ v.tools = u.tools
  BY WriteTurnFacts
<1>2. /\ t.turns = Upsert(S, key, row)
      /\ t.harnesses = s.harnesses /\ t.sessions = s.sessions /\ t.plans = s.plans
      /\ t.messages = s.messages /\ t.tools = s.tools
  BY WriteTurnFacts
<1>3. key \in DOMAIN e.turns /\ DOMAIN U = DOMAIN e.turns
  <2>1. Between(U, S, e.turns, {"started", "ended"})
    BY DEF Replays
  <2>2. DOMAIN t.turns \subseteq DOMAIN e.turns
    BY DEF Grows
  <2> HIDE DEF t, key, row, U, S
  <2> QED BY <1>2, <2>1, <2>2, BetweenKeys
<1>4. new.started = row.started \/ (new.started = U[key].started /\ (key \in DOMAIN S => row.started = S[key].started))
  BY <1>3 DEF TurnRow, Row, Has, NewTime
<1>5. new.ended = row.ended \/ (new.ended = U[key].ended /\ (key \in DOMAIN S => row.ended = S[key].ended))
  BY <1>3 DEF TurnRow, Row, Has, Coalesce
<1> HIDE DEF v, t, key, new, row, U, S
<1>6. \A x \in {"started", "ended"} :
        new[x] = row[x] \/ (new[x] = U[key][x] /\ (key \in DOMAIN S => row[x] = S[key][x]))
  BY <1>4, <1>5
<1>7. Between(U, S, e.turns, {"started", "ended"})
  BY DEF Replays, U, S
<1>8. Between(Upsert(U, key, new), Upsert(S, key, row), e.turns, {"started", "ended"})
  BY <1>3, <1>6, <1>7, BetweenUpsert
<1>9. Replays(v, t, e)
  BY <1>1, <1>2, <1>8 DEF Replays
<1> QED BY <1>9 DEF v, t

LEMMA WritePlanReplays ==
  ASSUME NEW u, NEW s, NEW e, NEW p, IsDb(u), IsDb(s), Replays(u, s, e),
         Grows(WritePlan(s, p), e)
  PROVE  Replays(WritePlan(u, p), WritePlan(s, p), e)
<1> DEFINE v == WritePlan(u, p)
           t == WritePlan(s, p)
           key == PlanId(p)
           new == [used |-> p.used]
           row == [used |-> p.used]
           U == u.plans
           S == s.plans
<1>1. /\ v.plans = Upsert(U, key, new)
      /\ v.harnesses = u.harnesses /\ v.sessions = u.sessions /\ v.turns = u.turns
      /\ v.messages = u.messages /\ v.tools = u.tools
  BY WritePlanFacts
<1>2. /\ t.plans = Upsert(S, key, row)
      /\ t.harnesses = s.harnesses /\ t.sessions = s.sessions /\ t.turns = s.turns
      /\ t.messages = s.messages /\ t.tools = s.tools
  BY WritePlanFacts
<1>3. key \in DOMAIN e.plans /\ DOMAIN U = DOMAIN e.plans
  <2>1. Between(U, S, e.plans, {"used"})
    BY DEF Replays
  <2>2. DOMAIN t.plans \subseteq DOMAIN e.plans
    BY DEF Grows
  <2> HIDE DEF t, key, row, U, S
  <2> QED BY <1>2, <2>1, <2>2, BetweenKeys
<1>4. new.used = row.used \/ (new.used = U[key].used /\ (key \in DOMAIN S => row.used = S[key].used))
  OBVIOUS
<1> HIDE DEF v, t, key, new, row, U, S
<1>5. \A x \in {"used"} :
        new[x] = row[x] \/ (new[x] = U[key][x] /\ (key \in DOMAIN S => row[x] = S[key][x]))
  BY <1>4
<1>6. Between(U, S, e.plans, {"used"})
  BY DEF Replays, U, S
<1>7. Between(Upsert(U, key, new), Upsert(S, key, row), e.plans, {"used"})
  BY <1>3, <1>5, <1>6, BetweenUpsert
<1>8. Replays(v, t, e)
  BY <1>1, <1>2, <1>7 DEF Replays
<1> QED BY <1>8 DEF v, t

LEMMA WriteMessageReplays ==
  ASSUME NEW u, NEW s, NEW e, NEW p, IsDb(u), IsDb(s), Replays(u, s, e),
         Grows(WriteMessage(s, p), e)
  PROVE  Replays(WriteMessage(u, p), WriteMessage(s, p), e)
<1> DEFINE v == WriteMessage(u, p)
           t == WriteMessage(s, p)
           key == MessageId(p)
           new == MessageRow(u, p)
           row == MessageRow(s, p)
           U == u.messages
           S == s.messages
<1>1. /\ v.messages = Upsert(U, key, new)
      /\ v.harnesses = u.harnesses /\ v.sessions = u.sessions /\ v.turns = u.turns
      /\ v.plans = u.plans /\ v.tools = u.tools
  BY WriteMessageFacts
<1>2. /\ t.messages = Upsert(S, key, row)
      /\ t.harnesses = s.harnesses /\ t.sessions = s.sessions /\ t.turns = s.turns
      /\ t.plans = s.plans /\ t.tools = s.tools
  BY WriteMessageFacts
<1>3. key \in DOMAIN e.messages /\ DOMAIN U = DOMAIN e.messages
  <2>1. Between(U, S, e.messages, {"of", "within", "tokens", "paid"})
    BY DEF Replays
  <2>2. DOMAIN t.messages \subseteq DOMAIN e.messages
    BY DEF Grows
  <2> HIDE DEF t, key, row, U, S
  <2> QED BY <1>2, <2>1, <2>2, BetweenKeys
<1>4. new.of = row.of \/ (new.of = U[key].of /\ (key \in DOMAIN S => row.of = S[key].of))
  BY <1>3 DEF MessageRow, Row, Has
<1>5. new.within = row.within \/ (new.within = U[key].within /\ (key \in DOMAIN S => row.within = S[key].within))
  BY <1>3 DEF MessageRow, Row, Has, Coalesce
<1>6. new.tokens = row.tokens \/ (new.tokens = U[key].tokens /\ (key \in DOMAIN S => row.tokens = S[key].tokens))
  BY <1>3 DEF MessageRow, Row, Has
<1>7. new.paid = row.paid \/ (new.paid = U[key].paid /\ (key \in DOMAIN S => row.paid = S[key].paid))
  BY <1>3 DEF MessageRow, Row, Has
<1> HIDE DEF v, t, key, new, row, U, S
<1>8. \A x \in {"of", "within", "tokens", "paid"} :
        new[x] = row[x] \/ (new[x] = U[key][x] /\ (key \in DOMAIN S => row[x] = S[key][x]))
  BY <1>4, <1>5, <1>6, <1>7
<1>9. Between(U, S, e.messages, {"of", "within", "tokens", "paid"})
  BY DEF Replays, U, S
<1>10. Between(Upsert(U, key, new), Upsert(S, key, row), e.messages, {"of", "within", "tokens", "paid"})
  BY <1>3, <1>8, <1>9, BetweenUpsert
<1>11. Replays(v, t, e)
  BY <1>1, <1>2, <1>10 DEF Replays
<1> QED BY <1>11 DEF v, t

LEMMA WriteToolReplays ==
  ASSUME NEW u, NEW s, NEW e, NEW p, IsDb(u), IsDb(s), Replays(u, s, e),
         Grows(WriteTool(s, p), e)
  PROVE  Replays(WriteTool(u, p), WriteTool(s, p), e)
<1> DEFINE v == WriteTool(u, p)
           t == WriteTool(s, p)
           key == ToolId(p)
           new == ToolRow(u, p)
           row == ToolRow(s, p)
           U == u.tools
           S == s.tools
<1>1. /\ v.tools = Upsert(U, key, new)
      /\ v.harnesses = u.harnesses /\ v.sessions = u.sessions /\ v.turns = u.turns
      /\ v.plans = u.plans /\ v.messages = u.messages
  BY WriteToolFacts
<1>2. /\ t.tools = Upsert(S, key, row)
      /\ t.harnesses = s.harnesses /\ t.sessions = s.sessions /\ t.turns = s.turns
      /\ t.plans = s.plans /\ t.messages = s.messages
  BY WriteToolFacts
<1>3. key \in DOMAIN e.tools /\ DOMAIN U = DOMAIN e.tools
  <2>1. Between(U, S, e.tools, {"of", "within", "ended"})
    BY DEF Replays
  <2>2. DOMAIN t.tools \subseteq DOMAIN e.tools
    BY DEF Grows
  <2> HIDE DEF t, key, row, U, S
  <2> QED BY <1>2, <2>1, <2>2, BetweenKeys
<1>4. new.of = row.of \/ (new.of = U[key].of /\ (key \in DOMAIN S => row.of = S[key].of))
  BY <1>3 DEF ToolRow, Row, Has
<1>5. new.within = row.within \/ (new.within = U[key].within /\ (key \in DOMAIN S => row.within = S[key].within))
  BY <1>3 DEF ToolRow, Row, Has, Coalesce
<1>6. new.ended = row.ended \/ (new.ended = U[key].ended /\ (key \in DOMAIN S => row.ended = S[key].ended))
  BY <1>3 DEF ToolRow, Row, Has, Coalesce
<1> HIDE DEF v, t, key, new, row, U, S
<1>7. \A x \in {"of", "within", "ended"} :
        new[x] = row[x] \/ (new[x] = U[key][x] /\ (key \in DOMAIN S => row[x] = S[key][x]))
  BY <1>4, <1>5, <1>6
<1>8. Between(U, S, e.tools, {"of", "within", "ended"})
  BY DEF Replays, U, S
<1>9. Between(Upsert(U, key, new), Upsert(S, key, row), e.tools, {"of", "within", "ended"})
  BY <1>3, <1>7, <1>8, BetweenUpsert
<1>10. Replays(v, t, e)
  BY <1>1, <1>2, <1>9 DEF Replays
<1> QED BY <1>10 DEF v, t

\* A record is written again as it was written the first time.
LEMMA WriteReplays ==
  ASSUME NEW u, NEW s, NEW e, NEW p, p.type \in Types, IsDb(u), IsDb(s), Replays(u, s, e),
         Grows(Write(s, p), e)
  PROVE  Replays(Write(u, p), Write(s, p), e)
<1>1. CASE p.type = "harness"
  BY <1>1, WriteHarnessReplays DEF Write
<1>2. CASE p.type = "session"
  BY <1>2, WriteSessionReplays DEF Write
<1>3. CASE p.type = "turn"
  BY <1>3, WriteTurnReplays DEF Write
<1>4. CASE p.type = "plan"
  BY <1>4, WritePlanReplays DEF Write
<1>5. CASE p.type = "message"
  BY <1>5, WriteMessageReplays DEF Write
<1>6. CASE p.type = "tool"
  BY <1>6, WriteToolReplays DEF Write
<1>7. CASE p.type = "raw"
  <2>1. Write(u, p) = WriteRaw(u, p) /\ Write(s, p) = WriteRaw(s, p)
    BY <1>7 DEF Write
  <2> QED BY <2>1, WriteRawFacts DEF Replays
<1> QED BY <1>1, <1>2, <1>3, <1>4, <1>5, <1>6, <1>7 DEF Types

LEMMA KeysReplay ==
  ASSUME NEW u, NEW s, NEW e, NEW p, Replays(u, s, e)
  PROVE  KeysHold(s, p) => KeysHold(u, p)
<1>1. /\ DOMAIN s.harnesses \subseteq DOMAIN u.harnesses
      /\ DOMAIN s.sessions \subseteq DOMAIN u.sessions
      /\ DOMAIN s.turns \subseteq DOMAIN u.turns
      /\ DOMAIN s.plans \subseteq DOMAIN u.plans
      /\ DOMAIN s.messages \subseteq DOMAIN u.messages
      /\ DOMAIN s.tools \subseteq DOMAIN u.tools
  BY DEF Replays, Between
<1> QED BY <1>1 DEF KeysHold, SessionKeys, TurnKeys, MessageKeys, ToolKeys, Has

LEMMA TurnKeysReplay ==
  ASSUME NEW u, NEW s, NEW e, NEW p, Replays(u, s, e)
  PROVE  TurnKeys(s, p) => TurnKeys(u, p)
<1>1. /\ DOMAIN s.harnesses \subseteq DOMAIN u.harnesses
      /\ DOMAIN s.sessions \subseteq DOMAIN u.sessions
      /\ DOMAIN s.turns \subseteq DOMAIN u.turns
  BY DEF Replays, Between
<1> QED BY <1>1 DEF TurnKeys, Has

-----------------------------------------------------------------------------
(* The batches of the two drains                                           *)

BatchShaped(st) == IsBatch(st) /\ Shaped(st.db)

\* The second drain is where the first one was: it has the same maps.
Follows(v, s, e) ==
  /\ BatchShaped(v) /\ BatchShaped(s)
  /\ v.ok = s.ok /\ v.sessions = s.sessions /\ v.turns = s.turns /\ v.plans = s.plans
  /\ Replays(v.db, s.db, e)

LEMMA RepairSessionShaped ==
  ASSUME NEW st, BatchShaped(st), NEW ref
  PROVE  BatchShaped(RepairSession(st, ref)) /\ Grows(st.db, RepairSession(st, ref).db)
<1> DEFINE p == RepairedSession(ref)
           d == WriteHarness(st.db, p)
           e == WriteSession(d, p)
           s == RepairSession(st, ref)
<1>1. IsBatch(st) /\ Shaped(st.db)
  BY DEF BatchShaped
<1>2. IsBatch(s)
  BY <1>1, RepairSessionFacts
<1>3. Shaped(e) /\ Grows(st.db, e)
  <2>1. Shaped(d) /\ Grows(st.db, d)
    BY <1>1, WriteHarnessShaped
  <2>2. Shaped(e) /\ Grows(d, e)
    BY <2>1, WriteSessionShaped
  <2> HIDE DEF p, d, e
  <2> QED BY <2>1, <2>2, GrowsTransitive
<1>4. s = st \/ s.db = e
  BY <1>1, RepairSessionCases
<1> HIDE DEF e, s
<1>5. BatchShaped(s) /\ Grows(st.db, s.db)
  BY <1>1, <1>2, <1>3, <1>4 DEF BatchShaped, Grows
<1> QED BY <1>5 DEF s

LEMMA RepairSessionFollows ==
  ASSUME NEW v, NEW s, NEW e, Follows(v, s, e), NEW ref, Grows(RepairSession(s, ref).db, e)
  PROVE  Follows(RepairSession(v, ref), RepairSession(s, ref), e)
<1> DEFINE p == RepairedSession(ref)
           a == RepairSession(v, ref)
           b == RepairSession(s, ref)
           da == WriteHarness(v.db, p)
           dt == WriteHarness(s.db, p)
           ea == WriteSession(da, p)
           eb == WriteSession(dt, p)
<1>1. IsBatch(v) /\ IsBatch(s) /\ IsDb(v.db) /\ IsDb(s.db) /\ Shaped(s.db)
  BY DEF Follows, BatchShaped, IsBatch
<1>2. BatchShaped(a) /\ BatchShaped(b)
  BY RepairSessionShaped DEF Follows
<1>3. CASE ~ref.spool \/ Has(s.sessions, ref)
  <2>1. a = v /\ b = s
    BY <1>3 DEF RepairSession, Follows
  <2> QED BY <2>1
<1>4. CASE ~(~ref.spool \/ Has(s.sessions, ref))
  <2>1. a = [db |-> ea, sessions |-> Upsert(v.sessions, ref, SessionId(p)),
             turns |-> v.turns, plans |-> v.plans, ok |-> v.ok]
    BY <1>1, <1>4, RepairSessionCases DEF Follows
  <2>2. b = [db |-> eb, sessions |-> Upsert(s.sessions, ref, SessionId(p)),
             turns |-> s.turns, plans |-> s.plans, ok |-> s.ok]
    BY <1>1, <1>4, RepairSessionCases
  <2>3. Grows(eb, e)
    BY <2>2
  <2>4. Grows(dt, eb)
    BY <1>1, WriteHarnessShaped, WriteSessionShaped
  <2>5. Grows(dt, e)
    <3> HIDE DEF dt, eb
    <3> QED BY <2>3, <2>4, GrowsTransitive
  <2>6. Replays(da, dt, e)
    BY <1>1, <2>5, WriteHarnessReplays DEF Follows
  <2>7. IsDb(da) /\ IsDb(dt)
    BY <1>1, WriteHarnessFacts
  <2>8. Replays(ea, eb, e)
    <3> HIDE DEF da, dt
    <3> QED BY <2>3, <2>6, <2>7, WriteSessionReplays
  <2> HIDE DEF a, b, ea, eb, da, dt, p
  <2>9. Follows(a, b, e)
    BY <1>2, <2>1, <2>2, <2>8 DEF Follows
  <2> QED BY <2>9 DEF a, b
<1> QED BY <1>3, <1>4

\* When the repair of a turn does not throw.
NoTurnRepair(st, ref) == ref = Null \/ ~ref.spool \/ Has(st.turns, ref)

LEMMA RepairTurnWorks ==
  ASSUME NEW st, IsBatch(st), NEW ref, NEW h
  PROVE  LET repaired == RepairSession(st, ref.of)
             p == RepairedTurn(repaired, ref, h) IN
         /\ NoTurnRepair(st, ref) => RepairTurn(st, ref, h) = st
         /\ ~NoTurnRepair(st, ref) /\ RepairTurn(st, ref, h).ok =>
              Parses(ref) /\ TurnKeys(repaired.db, p)
         /\ ~NoTurnRepair(st, ref) /\ Parses(ref) /\ TurnKeys(repaired.db, p) =>
              RepairTurn(st, ref, h) =
                 [db |-> WriteTurn(repaired.db, p), sessions |-> repaired.sessions,
                  turns |-> Upsert(repaired.turns, ref, TurnId(p)),
                  plans |-> repaired.plans, ok |-> repaired.ok]
<1> DEFINE repaired == RepairSession(st, ref.of)
           p == RepairedTurn(repaired, ref, h)
           d == WriteTurn(repaired.db, p)
           t == Upsert(repaired.turns, ref, TurnId(p))
           result == [db |-> d, sessions |-> repaired.sessions, turns |-> t,
                      plans |-> repaired.plans, ok |-> repaired.ok]
<1>1. IsBatch(repaired)
  BY RepairSessionFacts
<1>2. CASE NoTurnRepair(st, ref)
  BY <1>2 DEF RepairTurn, NoTurnRepair
<1>3. CASE ~NoTurnRepair(st, ref) /\ ~Parses(ref)
  <2>1. RepairTurn(st, ref, h) = Throw(st)
    BY <1>3 DEF RepairTurn, NoTurnRepair
  <2> QED BY <1>3, <2>1, ThrowFacts
<1>4. CASE ~NoTurnRepair(st, ref) /\ Parses(ref)
  <2>1. RepairTurn(st, ref, h) =
          IF ~TurnKeys(repaired.db, p) THEN Throw(st)
          ELSE [repaired EXCEPT !.db = d, !.turns = t]
    BY <1>4 DEF RepairTurn, RepairedTurn, NoTurnRepair
  <2>2. ~Throw(st).ok
    BY ThrowFacts
  <2> HIDE DEF repaired, p, d, t
  <2>3. [repaired EXCEPT !.db = d, !.turns = t] = result
    BY <1>1, BatchExcept
  <2> HIDE DEF result
  <2>4. /\ RepairTurn(st, ref, h).ok => TurnKeys(repaired.db, p)
        /\ TurnKeys(repaired.db, p) => RepairTurn(st, ref, h) = result
    BY <2>1, <2>2, <2>3
  <2> QED BY <1>4, <2>4 DEF result, t, d, p, repaired
<1> QED BY <1>2, <1>3, <1>4

LEMMA RepairTurnShaped ==
  ASSUME NEW st, BatchShaped(st), NEW ref, NEW h
  PROVE  /\ BatchShaped(RepairTurn(st, ref, h)) /\ Grows(st.db, RepairTurn(st, ref, h).db)
<1> DEFINE repaired == RepairSession(st, ref.of)
           p == RepairedTurn(repaired, ref, h)
           e == WriteTurn(repaired.db, p)
           s == RepairTurn(st, ref, h)
<1>1. IsBatch(st) /\ Shaped(st.db)
  BY DEF BatchShaped
<1>2. IsBatch(s)
  BY <1>1, RepairTurnFacts
<1>3. Shaped(e) /\ Grows(st.db, e)
  <2>1. Shaped(repaired.db) /\ Grows(st.db, repaired.db)
    BY RepairSessionShaped DEF BatchShaped
  <2>2. Shaped(e) /\ Grows(repaired.db, e)
    BY <2>1, WriteTurnShaped
  <2> HIDE DEF repaired, p, e
  <2> QED BY <2>1, <2>2, GrowsTransitive
<1>4. s.db = st.db \/ s.db = e
  <2>1. Throw(st).db = st.db
    BY <1>1, ThrowFacts
  <2>2. s = st \/ s = Throw(st) \/ s.db = e
    BY <1>1, RepairTurnCases
  <2> HIDE DEF e, s
  <2> QED BY <2>1, <2>2
<1> HIDE DEF e, s
<1>5. BatchShaped(s) /\ Grows(st.db, s.db)
  BY <1>1, <1>2, <1>3, <1>4 DEF BatchShaped, Grows
<1> QED BY <1>5 DEF s

LEMMA RepairTurnFollows ==
  ASSUME NEW v, NEW s, NEW e, Follows(v, s, e), NEW ref, NEW h,
         RepairTurn(s, ref, h).ok, Grows(RepairTurn(s, ref, h).db, e)
  PROVE  Follows(RepairTurn(v, ref, h), RepairTurn(s, ref, h), e)
<1> DEFINE ra == RepairSession(v, ref.of)
           rb == RepairSession(s, ref.of)
           pa == RepairedTurn(ra, ref, h)
           p == RepairedTurn(rb, ref, h)
           ea == WriteTurn(ra.db, p)
           eb == WriteTurn(rb.db, p)
           a == RepairTurn(v, ref, h)
           b == RepairTurn(s, ref, h)
<1>1. IsBatch(v) /\ IsBatch(s)
  BY DEF Follows, BatchShaped
<1>2. BatchShaped(a) /\ BatchShaped(b)
  BY RepairTurnShaped DEF Follows
<1>3. NoTurnRepair(v, ref) = NoTurnRepair(s, ref)
  BY DEF NoTurnRepair, Follows
<1>4. CASE NoTurnRepair(s, ref)
  <2>1. a = v /\ b = s
    BY <1>1, <1>3, <1>4, RepairTurnWorks
  <2> QED BY <2>1
<1>5. CASE ~NoTurnRepair(s, ref)
  <2>1. Parses(ref) /\ TurnKeys(rb.db, p)
    BY <1>1, <1>5, RepairTurnWorks
  <2>2. b = [db |-> eb, sessions |-> rb.sessions, turns |-> Upsert(rb.turns, ref, TurnId(p)),
             plans |-> rb.plans, ok |-> rb.ok]
    BY <1>1, <1>5, <2>1, RepairTurnWorks
  <2>3. Grows(eb, e)
    BY <2>2
  <2>4. BatchShaped(rb)
    BY RepairSessionShaped DEF Follows
  <2>5. Grows(rb.db, eb)
    BY <2>4, WriteTurnShaped DEF BatchShaped
  <2>6. Grows(rb.db, e)
    <3> HIDE DEF rb, eb
    <3> QED BY <2>3, <2>5, GrowsTransitive
  <2>7. Follows(ra, rb, e)
    BY <2>6, RepairSessionFollows
  <2>8. pa = p
    BY <2>7 DEF RepairedTurn, SessionOf, Follows
  <2>9. TurnKeys(ra.db, pa)
    <3> HIDE DEF ra, rb, pa, p
    <3> QED BY <2>1, <2>7, <2>8, TurnKeysReplay DEF Follows
  <2>10. a = [db |-> WriteTurn(ra.db, pa), sessions |-> ra.sessions,
              turns |-> Upsert(ra.turns, ref, TurnId(pa)), plans |-> ra.plans, ok |-> ra.ok]
    BY <1>1, <1>3, <1>5, <2>1, <2>9, RepairTurnWorks
  <2> HIDE DEF ra, rb, pa, p, a, b
  <2>11. Replays(ea, eb, e)
    <3>1. IsDb(ra.db) /\ IsDb(rb.db) /\ Replays(ra.db, rb.db, e)
      BY <2>7 DEF Follows, BatchShaped, Shaped
    <3> QED BY <2>3, <3>1, WriteTurnReplays
  <2> HIDE DEF ea, eb
  <2>12. a = [db |-> ea, sessions |-> ra.sessions, turns |-> Upsert(ra.turns, ref, TurnId(p)),
              plans |-> ra.plans, ok |-> ra.ok]
    BY <2>8, <2>10 DEF ea
  <2>13. Follows(a, b, e)
    BY <1>2, <2>2, <2>7, <2>11, <2>12 DEF Follows
  <2> QED BY <2>13 DEF a, b
<1> QED BY <1>4, <1>5

LEMMA RepairShaped ==
  ASSUME NEW st, BatchShaped(st), NEW p
  PROVE  BatchShaped(Repair(st, p)) /\ Grows(st.db, Repair(st, p).db)
<1> DEFINE parent == IF p.type \in Children THEN RepairSession(st, p.of) ELSE st
           s == Repair(st, p)
<1>1. BatchShaped(parent) /\ Grows(st.db, parent.db)
  BY RepairSessionShaped DEF Grows
<1>2. s = IF p.type \in Leaves THEN RepairTurn(parent, p.within, p.harness) ELSE parent
  BY DEF Repair
<1> HIDE DEF parent, s
<1>3. CASE p.type \in Leaves
  <2>1. BatchShaped(s) /\ Grows(parent.db, s.db)
    BY <1>1, <1>2, <1>3, RepairTurnShaped
  <2>2. Grows(st.db, s.db)
    BY <1>1, <2>1, GrowsTransitive
  <2> QED BY <2>1, <2>2 DEF s
<1>4. CASE p.type \notin Leaves
  BY <1>1, <1>2, <1>4 DEF s
<1> QED BY <1>3, <1>4

LEMMA RepairFollows ==
  ASSUME NEW v, NEW s, NEW e, Follows(v, s, e), NEW p,
         Repair(s, p).ok, Grows(Repair(s, p).db, e)
  PROVE  Follows(Repair(v, p), Repair(s, p), e)
<1> DEFINE a == IF p.type \in Children THEN RepairSession(v, p.of) ELSE v
           b == IF p.type \in Children THEN RepairSession(s, p.of) ELSE s
           t == Repair(s, p)
           w == Repair(v, p)
<1>1. /\ w = IF p.type \in Leaves THEN RepairTurn(a, p.within, p.harness) ELSE a
      /\ t = IF p.type \in Leaves THEN RepairTurn(b, p.within, p.harness) ELSE b
  BY DEF Repair
<1>2. t.ok /\ Grows(t.db, e)
  OBVIOUS
<1>3. BatchShaped(b)
  BY RepairSessionShaped DEF Follows
<1>4. Grows(b.db, e)
  <2> HIDE DEF b, t
  <2>1. CASE p.type \in Leaves
    BY <1>1, <1>2, <1>3, <2>1, RepairTurnShaped, GrowsTransitive
  <2>2. CASE p.type \notin Leaves
    BY <1>1, <1>2, <2>2
  <2> QED BY <2>1, <2>2
<1>5. Follows(a, b, e)
  BY <1>4, RepairSessionFollows
<1> HIDE DEF a, b, t, w
<1>6. CASE p.type \in Leaves
  <2>1. Follows(w, t, e)
    BY <1>1, <1>2, <1>5, <1>6, RepairTurnFollows
  <2> QED BY <2>1 DEF t, w
<1>7. CASE p.type \notin Leaves
  BY <1>1, <1>5, <1>7 DEF t, w
<1> QED BY <1>6, <1>7

LEMMA ResolveFollows ==
  ASSUME NEW v, NEW s, NEW e, Follows(v, s, e), NEW p, IsRecord(p)
  PROVE  Resolve(v, p) = Resolve(s, p)
<1>1. /\ SessionOf(v, p.of) = SessionOf(s, p.of)
      /\ TurnOf(v, p.within) = TurnOf(s, p.within)
      /\ PlanOf(v, p.paid) = PlanOf(s, p.paid)
  BY DEF Follows, SessionOf, TurnOf, PlanOf
<1>2. CASE p.type = "turn"
  BY <1>1, <1>2, ResolveFacts
<1>3. CASE p.type = "message"
  BY <1>1, <1>3, ResolveFacts
<1>4. CASE p.type = "tool"
  BY <1>1, <1>4, ResolveFacts
<1>5. CASE p.type \notin Children
  BY <1>5, ResolveFacts
<1> QED BY <1>2, <1>3, <1>4, <1>5 DEF Children

LEMMA RememberMaps ==
  ASSUME NEW a, NEW b, IsBatch(a), IsBatch(b),
         a.sessions = b.sessions, a.turns = b.turns, a.plans = b.plans, NEW p, NEW r
  PROVE  /\ Remember(a, p, r).sessions = Remember(b, p, r).sessions
         /\ Remember(a, p, r).turns = Remember(b, p, r).turns
         /\ Remember(a, p, r).plans = Remember(b, p, r).plans
<1>1. CASE p.type = "session"
  BY <1>1 DEF Remember, IsBatch
<1>2. CASE p.type = "turn"
  BY <1>2 DEF Remember, IsBatch
<1>3. CASE p.type = "plan"
  BY <1>3 DEF Remember, IsBatch
<1>4. CASE p.type \notin {"session", "turn", "plan"}
  BY <1>4 DEF Remember
<1> QED BY <1>1, <1>2, <1>3, <1>4

LEMMA ApplyWorks ==
  ASSUME NEW st, IsBatch(st), NEW p, IsRecord(p)
  PROVE  LET s == Repair(st, p)
             r == Resolve(s, p) IN
         /\ Apply(st, p).ok => s.ok /\ KeysHold(s.db, r)
         /\ s.ok /\ KeysHold(s.db, r) =>
              Apply(st, p) = Remember([db |-> Write(s.db, r), sessions |-> s.sessions,
                                       turns |-> s.turns, plans |-> s.plans, ok |-> s.ok], p, r)
         /\ ~(s.ok /\ KeysHold(s.db, r)) => Apply(st, p) = Throw(s)
<1> DEFINE s == Repair(st, p)
           r == Resolve(s, p)
           w == [s EXCEPT !.db = Write(@, r)]
<1>1. IsBatch(s)
  BY RepairFacts
<1>2. Apply(st, p) = IF ~s.ok \/ ~KeysHold(s.db, r) THEN Throw(s) ELSE Remember(w, p, r)
  BY DEF Apply
<1>3. ~Throw(s).ok
  BY <1>1, ThrowFacts
<1> HIDE DEF s, r
<1>4. w = [db |-> Write(s.db, r), sessions |-> s.sessions, turns |-> s.turns,
           plans |-> s.plans, ok |-> s.ok]
  BY <1>1 DEF IsBatch
<1> QED BY <1>2, <1>3, <1>4 DEF r, s

LEMMA ApplyShaped ==
  ASSUME NEW st, BatchShaped(st), NEW p, IsRecord(p)
  PROVE  BatchShaped(Apply(st, p)) /\ Grows(st.db, Apply(st, p).db)
<1> DEFINE s == Repair(st, p)
           r == Resolve(s, p)
           d == Write(s.db, r)
           w == [db |-> d, sessions |-> s.sessions, turns |-> s.turns,
                 plans |-> s.plans, ok |-> s.ok]
<1>1. IsBatch(st)
  BY DEF BatchShaped
<1>2. IsBatch(s) /\ Shaped(s.db) /\ Grows(st.db, s.db)
  BY RepairShaped DEF BatchShaped
<1>3. Shaped(d) /\ Grows(s.db, d)
  <2>1. r.type \in Types
    BY ResolveFacts DEF IsRecord
  <2> HIDE DEF r, s
  <2> QED BY <1>2, <2>1, WriteShaped
<1>4. Apply(st, p) = Throw(s) \/ Apply(st, p) = Remember(w, p, r)
  BY <1>1, ApplyWorks
<1> HIDE DEF s, r, d
<1>5. CASE Apply(st, p) = Throw(s)
  BY <1>2, <1>5, ThrowFacts DEF BatchShaped
<1>6. CASE Apply(st, p) = Remember(w, p, r)
  <2>1. IsBatch(w) /\ w.db = d
    BY <1>3 DEF IsBatch, Shaped
  <2> HIDE DEF w
  <2>2. IsBatch(Apply(st, p)) /\ Apply(st, p).db = d
    BY <1>6, <2>1, RememberFacts
  <2>3. Grows(st.db, d)
    BY <1>2, <1>3, GrowsTransitive
  <2> QED BY <1>3, <2>2, <2>3 DEF BatchShaped
<1> QED BY <1>4, <1>5, <1>6

\* A record that was applied is applied again, and says the same.
LEMMA ApplyFollows ==
  ASSUME NEW v, NEW s, NEW e, Follows(v, s, e), NEW p, IsRecord(p),
         Apply(s, p).ok, Grows(Apply(s, p).db, e)
  PROVE  Follows(Apply(v, p), Apply(s, p), e)
<1> DEFINE a == Repair(v, p)
           b == Repair(s, p)
           r == Resolve(b, p)
           da == Write(a.db, r)
           dt == Write(b.db, r)
           wa == [db |-> da, sessions |-> a.sessions, turns |-> a.turns, plans |-> a.plans,
                  ok |-> a.ok]
           wb == [db |-> dt, sessions |-> b.sessions, turns |-> b.turns, plans |-> b.plans,
                  ok |-> b.ok]
           va == Apply(v, p)
           sb == Apply(s, p)
<1>1. IsBatch(v) /\ IsBatch(s)
  BY DEF Follows, BatchShaped
<1>2. BatchShaped(a) /\ BatchShaped(b)
  BY RepairShaped DEF Follows
<1>3. b.ok /\ KeysHold(b.db, r)
  BY <1>1, ApplyWorks
<1>4. sb = Remember(wb, p, r)
  BY <1>1, <1>3, ApplyWorks
<1>5. r.type \in Types
  BY ResolveFacts DEF IsRecord
<1>6. Shaped(da) /\ Shaped(dt) /\ Grows(b.db, dt)
  <2> HIDE DEF a, b, r
  <2> QED BY <1>2, <1>5, WriteShaped DEF BatchShaped
<1>7. IsBatch(wa) /\ IsBatch(wb) /\ wa.db = da /\ wb.db = dt
  <2> HIDE DEF a, b, r, da, dt
  <2> QED BY <1>6 DEF IsBatch, Shaped
<1>8. sb.db = dt
  <2> HIDE DEF wb, dt, r, sb
  <2> QED BY <1>4, <1>7, RememberFacts
<1>9. Grows(dt, e)
  <2> HIDE DEF dt
  <2> QED BY <1>8
<1>10. Grows(b.db, e)
  <2> HIDE DEF b, dt
  <2> QED BY <1>6, <1>9, GrowsTransitive
<1>11. Follows(a, b, e)
  BY <1>3, <1>10, RepairFollows
<1>12. Resolve(a, p) = r
  <2> HIDE DEF a, b
  <2> QED BY <1>11, ResolveFollows
<1>13. a.ok /\ KeysHold(a.db, r)
  <2> HIDE DEF a, b, r
  <2> QED BY <1>3, <1>11, KeysReplay DEF Follows
<1>14. va = Remember(wa, p, r)
  BY <1>1, <1>12, <1>13, ApplyWorks
<1>15. BatchShaped(va) /\ BatchShaped(sb)
  BY ApplyShaped DEF Follows
<1> HIDE DEF a, b, r, va, sb
<1>16. Replays(da, dt, e)
  <2>1. IsDb(a.db) /\ IsDb(b.db) /\ Replays(a.db, b.db, e)
    BY <1>2, <1>11 DEF Follows, BatchShaped, Shaped
  <2> QED BY <1>5, <1>9, <2>1, WriteReplays
<1> HIDE DEF da, dt
<1>17. /\ wa.ok = wb.ok /\ wa.sessions = wb.sessions /\ wa.turns = wb.turns
       /\ wa.plans = wb.plans
  BY <1>11 DEF Follows
<1> HIDE DEF wa, wb
<1>18. /\ va.sessions = sb.sessions /\ va.turns = sb.turns /\ va.plans = sb.plans
       /\ va.ok = sb.ok /\ va.db = da
  BY <1>4, <1>7, <1>14, <1>17, RememberMaps, RememberFacts
<1>19. Follows(va, sb, e)
  BY <1>8, <1>15, <1>16, <1>18 DEF Follows
<1> QED BY <1>19 DEF va, sb

-----------------------------------------------------------------------------
(* Whole files                                                             *)

\* Induction over the naturals, as a fact about a set of them.
Less == {ss \in Nat \X Nat : ss[1] < ss[2]}
LEMMA LessWF == IsWellFoundedOn(Less, Nat)
  BY NatLessThanWellFounded, Zenon DEF OpToRel, Less

LEMMA NatSetInduction ==
  ASSUME NEW S, 0 \in S, \A n \in Nat : n \in S => n + 1 \in S
  PROVE  Nat \subseteq S
<1> DEFINE T == {n \in Nat : n \notin S}
<1>1. SUFFICES ASSUME T # {} PROVE FALSE
  OBVIOUS
<1>2. PICK x \in T : \A y \in T : ~ (<<y, x>> \in Less)
  <2>1. T \subseteq Nat
    OBVIOUS
  <2> QED BY <1>1, <2>1, WFMin, LessWF
<1>3. \A y \in T : ~(y < x)
  BY <1>2 DEF Less
<1>4. x # 0
  OBVIOUS
<1>5. x - 1 \in Nat /\ x - 1 < x /\ x = (x - 1) + 1
  BY <1>4
<1>6. x - 1 \in S
  BY <1>3, <1>5
<1> QED BY <1>5, <1>6

\* The equation that defines the function in DrainBatch, up to a record.
DrainUpTo(start, f, m, u) ==
  u = [n \in 0 .. m |->
         IF n = 0 THEN StartBatch(start) ELSE Drained(u[n - 1], f[n])]

LEMMA DrainUpToExists ==
  ASSUME NEW start, NEW f, NEW n \in Nat
  PROVE  \E u : DrainUpTo(start, f, n, u)
<1> DEFINE first == StartBatch(start)
           S == {m \in Nat : \E u : DrainUpTo(start, f, m, u)}
<1>1. 0 \in S
  <2> DEFINE u == [i \in 0 .. 0 |-> first]
  <2>1. DrainUpTo(start, f, 0, u)
    BY DEF DrainUpTo
  <2> QED BY <2>1
<1>2. ASSUME NEW m \in Nat, m \in S PROVE m + 1 \in S
  <2>1. PICK u : DrainUpTo(start, f, m, u)
    BY <1>2
  <2> DEFINE last == Drained(u[m], f[m + 1])
             v == [i \in 0 .. m + 1 |-> IF i = m + 1 THEN last ELSE u[i]]
  <2>2. ASSUME NEW i \in 0 .. m + 1
        PROVE  v[i] = IF i = 0 THEN first ELSE Drained(v[i - 1], f[i])
    <3>1. CASE i = m + 1
      <4>1. v[i] = last /\ v[i - 1] = u[m] /\ i # 0 /\ i - 1 = m
        BY <3>1
      <4> QED BY <3>1, <4>1
    <3>2. CASE i # m + 1
      <4>1. i \in 0 .. m /\ v[i] = u[i]
        BY <3>2
      <4>2. i # 0 => v[i - 1] = u[i - 1]
        BY <4>1
      <4>3. u[i] = IF i = 0 THEN first ELSE Drained(u[i - 1], f[i])
        BY <2>1, <4>1 DEF DrainUpTo
      <4> QED BY <4>1, <4>2, <4>3
    <3> QED BY <3>1, <3>2
  <2>3. DrainUpTo(start, f, m + 1, v)
    BY <2>2 DEF DrainUpTo
  <2> QED BY <2>3
<1> HIDE DEF S
<1>3. Nat \subseteq S
  BY <1>1, <1>2, NatSetInduction
<1> QED BY <1>3 DEF S

\* A drain goes from record to record.
LEMMA DrainSteps ==
  ASSUME NEW f, Len(f) \in Nat, NEW start
  PROVE  \E u : /\ DrainBatch(start, f) = u[Len(f)]
                /\ u[0] = StartBatch(start)
                /\ \A n \in 0 .. Len(f) - 1 : u[n + 1] = Drained(u[n], f[n + 1])
<1> DEFINE u == CHOOSE v : DrainUpTo(start, f, Len(f), v)
<1>1. DrainUpTo(start, f, Len(f), u)
  BY DrainUpToExists
<1>2. DrainBatch(start, f) = u[Len(f)]
  BY DEF DrainBatch, DrainUpTo
<1> HIDE DEF u
<1>3. u[0] = StartBatch(start)
  BY <1>1 DEF DrainUpTo
<1>4. ASSUME NEW n \in 0 .. Len(f) - 1 PROVE u[n + 1] = Drained(u[n], f[n + 1])
  <2>1. n + 1 \in 0 .. Len(f) /\ n + 1 # 0 /\ (n + 1) - 1 = n
    OBVIOUS
  <2>2. u[n + 1] = IF n + 1 = 0 THEN StartBatch(start) ELSE Drained(u[(n + 1) - 1], f[n + 1])
    BY <1>1, <2>1 DEF DrainUpTo
  <2> QED BY <2>1, <2>2
<1> QED BY <1>2, <1>3, <1>4

LEMMA StartShaped ==
  ASSUME NEW d, Shaped(d)
  PROVE  /\ BatchShaped(StartBatch(d)) /\ StartBatch(d).db = d /\ StartBatch(d).ok
         /\ StartBatch(d).sessions = NoRows /\ StartBatch(d).turns = NoRows
         /\ StartBatch(d).plans = NoRows
BY DEF StartBatch, BatchShaped, IsBatch, Shaped

\* A drain only adds rows, and does not go on after it has thrown.
Later(s, t) == Grows(s.db, t.db) /\ (t.ok => s.ok)

LEMMA DrainedShaped ==
  ASSUME NEW st, BatchShaped(st), NEW p, IsRecord(p)
  PROVE  BatchShaped(Drained(st, p)) /\ Later(st, Drained(st, p))
<1>1. CASE st.ok
  BY <1>1, ApplyShaped DEF Drained, Later
<1>2. CASE ~st.ok
  BY <1>2 DEF Drained, Later, Grows
<1> QED BY <1>1, <1>2

LEMMA DrainGrows ==
  ASSUME NEW N \in Nat, NEW u, NEW f, \A n \in 1 .. N : IsRecord(f[n]), BatchShaped(u[0]),
         \A n \in 0 .. N - 1 : u[n + 1] = Drained(u[n], f[n + 1])
  PROVE  \A n \in 0 .. N : BatchShaped(u[n]) /\ Later(u[n], u[N])
<1> DEFINE S == {m \in Nat : m <= N => /\ BatchShaped(u[m])
                                       /\ \A n \in 0 .. m : Later(u[n], u[m])}
<1>1. 0 \in S
  BY DEF Later, Grows
<1>2. ASSUME NEW m \in Nat, m \in S PROVE m + 1 \in S
  <2>1. SUFFICES ASSUME m + 1 <= N
                 PROVE  BatchShaped(u[m + 1]) /\ \A n \in 0 .. m + 1 : Later(u[n], u[m + 1])
    OBVIOUS
  <2>2. BatchShaped(u[m]) /\ \A n \in 0 .. m : Later(u[n], u[m])
    BY <1>2, <2>1
  <2>3. u[m + 1] = Drained(u[m], f[m + 1]) /\ IsRecord(f[m + 1])
    BY <2>1
  <2>4. BatchShaped(u[m + 1]) /\ Later(u[m], u[m + 1])
    BY <2>2, <2>3, DrainedShaped
  <2>5. ASSUME NEW n \in 0 .. m + 1 PROVE Later(u[n], u[m + 1])
    <3>1. CASE n = m + 1
      BY <3>1 DEF Later, Grows
    <3>2. CASE n # m + 1
      BY <2>2, <2>4, <3>2, GrowsTransitive DEF Later
    <3> QED BY <3>1, <3>2
  <2> QED BY <2>4, <2>5
<1> HIDE DEF S
<1>3. N \in S
  BY <1>1, <1>2, NatSetInduction
<1>4. BatchShaped(u[N]) /\ \A n \in 0 .. N : Later(u[n], u[N])
  BY <1>3 DEF S
<1>5. ASSUME NEW n \in 0 .. N PROVE BatchShaped(u[n])
  <2>1. n \in S
    BY <1>1, <1>2, NatSetInduction
  <2> QED BY <2>1 DEF S
<1> QED BY <1>4, <1>5

\* The second drain follows the first from record to record.
LEMMA DrainFollows ==
  ASSUME NEW N \in Nat, NEW u, NEW v, NEW f, NEW start, Shaped(start),
         \A n \in 1 .. N : IsRecord(f[n]),
         u[0] = StartBatch(start), v[0] = StartBatch(u[N].db), u[N].ok,
         \A n \in 0 .. N - 1 : u[n + 1] = Drained(u[n], f[n + 1]),
         \A n \in 0 .. N - 1 : v[n + 1] = Drained(v[n], f[n + 1])
  PROVE  Follows(v[N], u[N], u[N].db)
<1> DEFINE e == u[N].db
           S == {m \in Nat : m <= N => Follows(v[m], u[m], e)}
<1>1. \A n \in 0 .. N : BatchShaped(u[n]) /\ Later(u[n], u[N])
  BY StartShaped, DrainGrows
<1>2. 0 \in S
  <2>1. Shaped(e) /\ Grows(u[0].db, e)
    BY <1>1 DEF BatchShaped, Later
  <2>2. /\ BatchShaped(v[0]) /\ v[0].db = e /\ v[0].ok
        /\ v[0].sessions = NoRows /\ v[0].turns = NoRows /\ v[0].plans = NoRows
    BY <2>1, StartShaped
  <2>3. /\ BatchShaped(u[0]) /\ u[0].ok
        /\ u[0].sessions = NoRows /\ u[0].turns = NoRows /\ u[0].plans = NoRows
    BY StartShaped
  <2> HIDE DEF e
  <2>4. Replays(e, u[0].db, e)
    BY <2>1 DEF Replays, Between, Grows
  <2>5. v[0].ok = u[0].ok
    BY <2>2, <2>3 DEF StartBatch
  <2>6. Follows(v[0], u[0], e)
    BY <2>2, <2>3, <2>4, <2>5 DEF Follows
  <2> QED BY <2>6
<1>3. ASSUME NEW m \in Nat, m \in S PROVE m + 1 \in S
  <2>1. SUFFICES ASSUME m + 1 <= N PROVE Follows(v[m + 1], u[m + 1], e)
    OBVIOUS
  <2>2. Follows(v[m], u[m], e)
    BY <1>3, <2>1
  <2>3. /\ u[m + 1] = Drained(u[m], f[m + 1]) /\ v[m + 1] = Drained(v[m], f[m + 1])
        /\ IsRecord(f[m + 1])
    BY <2>1
  <2>4. /\ Later(u[m + 1], u[N]) /\ Later(u[m], u[N])
    BY <1>1, <2>1
  <2>5. u[m].ok /\ u[m + 1].ok /\ Grows(u[m + 1].db, e)
    BY <2>4 DEF Later
  <2>6. v[m].ok
    BY <2>2, <2>5 DEF Follows
  <2>7. u[m + 1] = Apply(u[m], f[m + 1]) /\ v[m + 1] = Apply(v[m], f[m + 1])
    BY <2>3, <2>5, <2>6 DEF Drained
  <2> HIDE DEF e
  <2> QED BY <2>2, <2>3, <2>5, <2>7, ApplyFollows
<1> HIDE DEF S
<1>4. N \in S
  BY <1>2, <1>3, NatSetInduction
<1> QED BY <1>4 DEF S

\* Tables between the end and the end are those of the end.
LEMMA BetweenEnd ==
  ASSUME NEW A, NEW E, IsTable(A), IsTable(E), NEW F, Between(A, E, E, F),
         \A k \in DOMAIN E : (\A x \in F : A[k][x] = E[k][x]) => A[k] = E[k]
  PROVE  A = E
<1>1. DOMAIN A = DOMAIN E /\ \A k \in DOMAIN E : \A x \in F : A[k][x] = E[k][x]
  BY DEF Between
<1>2. \A k \in DOMAIN E : A[k] = E[k]
  BY <1>1
<1> QED BY <1>1, <1>2 DEF IsTable

LEMMA ReplayEnds ==
  ASSUME NEW a, NEW e, Shaped(a), Shaped(e), Replays(a, e, e)
  PROVE  Structured(a) = Structured(e)
<1>1. a.harnesses = e.harnesses
  <2> DEFINE A == a.harnesses
             E == e.harnesses
  <2>1. Between(A, E, E, {"version"})
    BY DEF Replays
  <2>2. Harnesses(A) /\ Harnesses(E)
    BY DEF Shaped
  <2> HIDE DEF A, E
  <2>3. ASSUME NEW k \in DOMAIN E, \A x \in {"version"} : A[k][x] = E[k][x]
        PROVE  A[k] = E[k]
    <3>1. IsHarness(A[k]) /\ IsHarness(E[k])
      BY <2>1, <2>2 DEF Harnesses, Between
    <3>2. A[k].version = E[k].version
      BY <2>3
    <3> QED BY <3>1, <3>2 DEF IsHarness
  <2>4. A = E
    BY <2>1, <2>2, <2>3, BetweenEnd DEF Harnesses
  <2> QED BY <2>4 DEF A, E
<1>2. a.sessions = e.sessions
  <2> DEFINE A == a.sessions
             E == e.sessions
  <2>1. Between(A, E, E, {"cwd", "started", "ended"})
    BY DEF Replays
  <2>2. SessionRows(A) /\ SessionRows(E)
    BY DEF Shaped
  <2> HIDE DEF A, E
  <2>3. ASSUME NEW k \in DOMAIN E, \A x \in {"cwd", "started", "ended"} : A[k][x] = E[k][x]
        PROVE  A[k] = E[k]
    <3>1. IsSession(A[k]) /\ IsSession(E[k])
      BY <2>1, <2>2 DEF SessionRows, Between
    <3>2. A[k].cwd = E[k].cwd /\ A[k].started = E[k].started /\ A[k].ended = E[k].ended
      BY <2>3
    <3> QED BY <3>1, <3>2 DEF IsSession
  <2>4. A = E
    BY <2>1, <2>2, <2>3, BetweenEnd DEF SessionRows
  <2> QED BY <2>4 DEF A, E
<1>3. a.turns = e.turns
  <2> DEFINE A == a.turns
             E == e.turns
  <2>1. Between(A, E, E, {"started", "ended"})
    BY DEF Replays
  <2>2. TurnRows(A) /\ TurnRows(E)
    BY DEF Shaped
  <2> HIDE DEF A, E
  <2>3. ASSUME NEW k \in DOMAIN E, \A x \in {"started", "ended"} : A[k][x] = E[k][x]
        PROVE  A[k] = E[k]
    <3>1. IsTurn(A[k]) /\ IsTurn(E[k])
      BY <2>1, <2>2 DEF TurnRows, Between
    <3>2. A[k].started = E[k].started /\ A[k].ended = E[k].ended
      BY <2>3
    <3> QED BY <3>1, <3>2 DEF IsTurn
  <2>4. A = E
    BY <2>1, <2>2, <2>3, BetweenEnd DEF TurnRows
  <2> QED BY <2>4 DEF A, E
<1>4. a.plans = e.plans
  <2> DEFINE A == a.plans
             E == e.plans
  <2>1. Between(A, E, E, {"used"})
    BY DEF Replays
  <2>2. Plans(A) /\ Plans(E)
    BY DEF Shaped
  <2> HIDE DEF A, E
  <2>3. ASSUME NEW k \in DOMAIN E, \A x \in {"used"} : A[k][x] = E[k][x]
        PROVE  A[k] = E[k]
    <3>1. IsPlan(A[k]) /\ IsPlan(E[k])
      BY <2>1, <2>2 DEF Plans, Between
    <3>2. A[k].used = E[k].used
      BY <2>3
    <3> QED BY <3>1, <3>2 DEF IsPlan
  <2>4. A = E
    BY <2>1, <2>2, <2>3, BetweenEnd DEF Plans
  <2> QED BY <2>4 DEF A, E
<1>5. a.messages = e.messages
  <2> DEFINE A == a.messages
             E == e.messages
  <2>1. Between(A, E, E, {"of", "within", "tokens", "paid"})
    BY DEF Replays
  <2>2. MessageRows(A) /\ MessageRows(E)
    BY DEF Shaped
  <2> HIDE DEF A, E
  <2>3. ASSUME NEW k \in DOMAIN E, \A x \in {"of", "within", "tokens", "paid"} : A[k][x] = E[k][x]
        PROVE  A[k] = E[k]
    <3>1. IsMessage(A[k]) /\ IsMessage(E[k])
      BY <2>1, <2>2 DEF MessageRows, Between
    <3>2. A[k].of = E[k].of /\ A[k].within = E[k].within /\ A[k].tokens = E[k].tokens /\ A[k].paid = E[k].paid
      BY <2>3
    <3> QED BY <3>1, <3>2 DEF IsMessage
  <2>4. A = E
    BY <2>1, <2>2, <2>3, BetweenEnd DEF MessageRows
  <2> QED BY <2>4 DEF A, E
<1>6. a.tools = e.tools
  <2> DEFINE A == a.tools
             E == e.tools
  <2>1. Between(A, E, E, {"of", "within", "ended"})
    BY DEF Replays
  <2>2. ToolRows(A) /\ ToolRows(E)
    BY DEF Shaped
  <2> HIDE DEF A, E
  <2>3. ASSUME NEW k \in DOMAIN E, \A x \in {"of", "within", "ended"} : A[k][x] = E[k][x]
        PROVE  A[k] = E[k]
    <3>1. IsTool(A[k]) /\ IsTool(E[k])
      BY <2>1, <2>2 DEF ToolRows, Between
    <3>2. A[k].of = E[k].of /\ A[k].within = E[k].within /\ A[k].ended = E[k].ended
      BY <2>3
    <3> QED BY <3>1, <3>2 DEF IsTool
  <2>4. A = E
    BY <2>1, <2>2, <2>3, BetweenEnd DEF ToolRows
  <2> QED BY <2>4 DEF A, E
<1>7. /\ Structured(a) = [harnesses |-> a.harnesses, sessions |-> a.sessions,
                          turns |-> a.turns, plans |-> a.plans, messages |-> a.messages,
                          tools |-> a.tools, raws |-> 0]
      /\ Structured(e) = [harnesses |-> e.harnesses, sessions |-> e.sessions,
                          turns |-> e.turns, plans |-> e.plans, messages |-> e.messages,
                          tools |-> e.tools, raws |-> 0]
  BY DEF Structured, Shaped, IsDb
<1> QED BY <1>1, <1>2, <1>3, <1>4, <1>5, <1>6, <1>7

\* Whatever tables a file of records is drained into: if it does not throw,
\* draining it again does not either, and changes nothing but raw_events.
LEMMA TwiceIsOnce ==
  ASSUME NEW d, Shaped(d), NEW f, Len(f) \in Nat, \A n \in 1 .. Len(f) : IsRecord(f[n]),
         DrainBatch(d, f).ok
  PROVE  LET once == DrainBatch(d, f)
             twice == DrainBatch(once.db, f)
         IN twice.ok /\ Structured(twice.db) = Structured(once.db)
<1> DEFINE N == Len(f)
           once == DrainBatch(d, f)
           twice == DrainBatch(once.db, f)
<1>1. PICK u : /\ once = u[N] /\ u[0] = StartBatch(d)
               /\ \A n \in 0 .. N - 1 : u[n + 1] = Drained(u[n], f[n + 1])
  BY DrainSteps
<1>2. PICK v : /\ twice = v[N] /\ v[0] = StartBatch(once.db)
               /\ \A n \in 0 .. N - 1 : v[n + 1] = Drained(v[n], f[n + 1])
  BY DrainSteps
<1>3. once.ok /\ N \in Nat /\ \A n \in 1 .. N : IsRecord(f[n])
  OBVIOUS
<1> HIDE DEF once, twice, N
<1>4. Follows(v[N], u[N], u[N].db)
  BY <1>1, <1>2, <1>3, DrainFollows
<1>5. Follows(twice, once, once.db)
  BY <1>1, <1>2, <1>4
<1>6. twice.ok /\ Structured(twice.db) = Structured(once.db)
  BY <1>3, <1>5, ReplayEnds DEF Follows, BatchShaped
<1> QED BY <1>6 DEF twice, once

-----------------------------------------------------------------------------
(* The tables keep their shape                                             *)

TablesShaped == Shaped(db) /\ (tx # NoTx => Shaped(tx.batch.db))

LEMMA PayloadRecord ==
  ASSUME WriterInv, NEW p \in MadeRecords
  PROVE  IsRecord(p)
<1>1. PICK c \in made : p \in Records(c)
  BY DEF MadeRecords
<1>2. c.type \in Types
  BY <1>1, ReportsAssumption DEF WriterInv, MadeRight
<1> QED BY <1>1, <1>2, RecordFacts

LEMMA StartTablesShaped == Init => TablesShaped
<1> SUFFICES ASSUME Init PROVE TablesShaped
  OBVIOUS
<1>1. tx = NoTx /\ db = EmptyDb
  BY DEF Init
<1>2. DOMAIN NoRows = {} /\ IsTable(NoRows)
  BY DEF NoRows, IsTable
<1>3. /\ IsDb(db) /\ db.harnesses = NoRows /\ db.sessions = NoRows /\ db.turns = NoRows
      /\ db.plans = NoRows /\ db.messages = NoRows /\ db.tools = NoRows
  BY <1>1 DEF EmptyDb, IsDb
<1>4. Shaped(db)
  BY <1>2, <1>3
     DEF Shaped, Harnesses, SessionRows, TurnRows, Plans, MessageRows, ToolRows
<1> QED BY <1>1, <1>4 DEF TablesShaped

LEMMA StepTablesShaped ==
  ASSUME WriterInv, TablesShaped, [Next]_vars
  PROVE  TablesShaped'
<1>1. ASSUME UNCHANGED db, tx' = tx \/ tx' = NoTx PROVE TablesShaped'
  BY <1>1 DEF TablesShaped, NoTx
<1>2. ASSUME NEW c \in Calls, RecordLive(c) PROVE TablesShaped'
  <2>1. db' = Write(db, Payload(c)) /\ tx = NoTx /\ tx' = tx
    BY <1>2 DEF RecordLive
  <2>2. Payload(c).type \in Types
    <3>1. c.type \in Types
      BY ReportsAssumption
    <3> QED BY <3>1 DEF Payload, Types, HarnessPayload, SessionPayload, TurnPayload,
                        LlmMessagePayload, SubscriptionPayload, ToolCallPayload, RawEventPayload
  <2> QED BY <2>1, <2>2, WriteShaped DEF TablesShaped, NoTx
<1>3. ASSUME NEW c \in Calls, RecordThrows(c) \/ RecordSpool(c) PROVE TablesShaped'
  BY <1>1, <1>3 DEF RecordThrows, RecordSpool
<1>4. CASE CloseFile
  BY <1>1, <1>4 DEF CloseFile
<1>5. ASSUME NEW f \in queue, Begin(f) PROVE TablesShaped'
  <2>1. UNCHANGED db /\ tx'.batch = StartBatch(db)
    BY <1>5 DEF Begin
  <2> QED BY <2>1 DEF TablesShaped, StartBatch
<1>6. CASE ApplyNext
  <2> DEFINE p == Head(tx.left)
             batch == Apply(tx.batch, p)
  <2>1. /\ tx.left # <<>> /\ UNCHANGED db
        /\ tx' = [tx EXCEPT !.left = Tail(@), !.batch = batch] \/ tx' = NoTx
    BY <1>6 DEF ApplyNext
  <2>2. tx # NoTx
    BY <2>1 DEF NoTx
  <2>3. /\ tx = [file |-> tx.file, left |-> tx.left, batch |-> tx.batch]
        /\ tx.left \in Seq(MadeRecords) /\ BatchRight(tx.batch, made)
    BY <2>2, OpenFacts
  <2>4. BatchShaped(tx.batch)
    BY <2>2, <2>3 DEF TablesShaped, BatchShaped, BatchRight
  <2>5. IsRecord(p)
    BY <2>1, <2>3, PayloadRecord
  <2>6. Shaped(batch.db)
    BY <2>4, <2>5, ApplyShaped DEF BatchShaped
  <2> HIDE DEF p, batch
  <2>7. tx' = NoTx \/ tx'.batch = batch
    BY <2>1, <2>3
  <2> QED BY <2>1, <2>6, <2>7 DEF TablesShaped, NoTx
<1>7. CASE CommitFile
  BY <1>7 DEF CommitFile, TablesShaped, NoTx
<1>8. CASE Abort
  BY <1>1, <1>8 DEF Abort
<1>9. CASE UNCHANGED vars
  BY <1>1, <1>9 DEF vars
<1> QED BY <1>2, <1>3, <1>4, <1>5, <1>6, <1>7, <1>8, <1>9 DEF Next

\* A closed file that is drained a second time right away, because its drainer
\* died before unlinking it, changes nothing but raw_events, whatever is in it
\* and whatever the tables hold (docs/schema.md: duplicate delivery).
THEOREM DuplicateDrainsHarmless == Spec => []ReplayAtOnce
<1>1. Init => TablesShaped
  BY StartTablesShaped
<1>2. WriterInv /\ TablesShaped /\ [Next]_vars => TablesShaped'
  BY StepTablesShaped
<1>3. WriterInv /\ TablesShaped => ReplayAtOnce
  <2> SUFFICES ASSUME WriterInv, TablesShaped, NEW f \in queue, DrainBatch(db, f).ok
               PROVE  LET once == DrainBatch(db, f)
                          twice == DrainBatch(once.db, f)
                      IN twice.ok /\ Structured(twice.db) = Structured(once.db)
    BY DEF ReplayAtOnce
  <2>1. f \in Seq(MadeRecords)
    BY DEF WriterInv, FilesRight
  <2>2. Len(f) \in Nat /\ \A n \in 1 .. Len(f) : IsRecord(f[n])
    BY <2>1, PayloadRecord
  <2> QED BY <2>2, TwiceIsOnce DEF TablesShaped
<1> QED BY <1>1, <1>2, <1>3, Invariant, PTL DEF Spec
=============================================================================
