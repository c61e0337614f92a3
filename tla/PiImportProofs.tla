---------------------------- MODULE PiImportProofs ----------------------------
(***************************************************************************)
(* What the importers of Pi's history guarantee for every number of files, *)
(* calls, runs and failures, and every legacy database: an API call comes  *)
(* out once and none goes missing, a live row stays what it is, a tool     *)
(* call follows its message, a dry run counts what the run would do, and   *)
(* an import that is run again adds nothing.                               *)
(***************************************************************************)
EXTENDS PiImport, FiniteSetTheorems, SequenceTheorems, NaturalsInduction,
        WellFoundedInduction, TLAPS

-----------------------------------------------------------------------------
(* The inductive invariant                                                 *)

ApiCalls == [named : BOOLEAN, costly : BOOLEAN, tokens : Tokens]
Ids == Nat \X {"response", "turn", "noid", "legacy"} \X Int
Rows == [id : Ids, session : Nat, turn : Nat, call : Int, by : {"live", "log", "legacy"}]
ToolRows == [call : Int, session : Nat, by : {"live", "log", "legacy"}]
Whats == {"import", "boundary", "zero", "cutoff", "replay"}
Decisions == [call : Nat, turn : Nat, what : Whats, row : Rows \cup {Null}]
Counts == [DOMAIN Zero -> 0 .. MaxCalls]

\* The calls of a file are in order, and no session has started before an
\* older one.
World ==
  /\ calls \in Seq(ApiCalls) /\ Len(calls) <= MaxCalls
  /\ log \in [Files -> Seq(DOMAIN calls)]
  /\ \A f \in Files : \A i \in DOMAIN log[f] : i <= log[f][i]
  /\ \A f \in Files : \A i, j \in DOMAIN log[f] : i < j => log[f][i] < log[f][j]
  /\ \A e, f \in Files : e < f /\ log[f] # <<>> => log[e] # <<>>

\* The file a call was made in.
First(c, f) == \A e \in Files : e < f => c \notin CallsOf(e)
\* A call with a provider id is known by the file it was made in; another one
\* by every file it is in.
Owned(c, f) == f \in Files /\ c \in CallsOf(f) /\ (calls[c].named => First(c, f))

Alike(c, d) == calls[c].tokens = calls[d].tokens

\* A row stands at the turn of its call in its file, and the live writer's own
\* id says which turn that is.
At(r) == r.turn + 1 \in DOMAIN log[r.session] /\ log[r.session][r.turn + 1] = r.call
OldId(r) == r.id = Synthesized(r.session, r.turn)

\* A row of a call: one that has been renamed has the id of a call like it,
\* which is known by the same file.
OwnRow(r) ==
  /\ r.by \in {"live", "log"} /\ Owned(r.call, r.session) /\ At(r)
  /\ \/ OldId(r)
     \/ r.id = NoId(r.session, r.call) /\ ~calls[r.call].named
     \/ \E c \in DOMAIN calls :
          calls[c].named /\ Alike(c, r.call) /\ Owned(c, r.session) /\ r.id = ResponseId(c)
LegacyRow(r) ==
  r.by = "legacy" /\ r.session = OfLegacy /\ r.call \in Int \ Nat /\ r.id = LegacyId(r.call)
RowOK(r) == r \in Rows /\ (OwnRow(r) \/ LegacyRow(r))

IdsUnique(table) == \A r, q \in table : r.id = q.id => r = q
Placed(r, places) == <<r.session, r.turn>> \in places /\ <<r.session, -1>> \in places
Stored ==
  /\ \A r \in rows : RowOK(r) /\ Placed(r, turns)
  /\ IdsUnique(rows)

ToolOK(t) ==
  /\ t \in ToolRows
  /\ \/ t.by \in {"live", "log"} /\ Owned(t.call, t.session)
     \/ t.by = "legacy" /\ t.session = OfLegacy /\ t.call \in Int \ Nat
Tooled ==
  /\ \A t \in tools : ToolOK(t)
  /\ \A t, u \in tools : t.call = u.call => t = u

\* A row in the spool: a call with a provider id is not in the database under
\* the id of an older writer.
Awaited(r) ==
  /\ r \in Rows /\ r.by = "live" /\ Owned(r.call, r.session) /\ At(r)
  /\ calls[r.call].named => r.id = ResponseId(r.call)
  /\ ~calls[r.call].named => OldId(r)
Spooled ==
  \A r \in pending :
    /\ Awaited(r)
    /\ calls[r.call].named => \A q \in rows : q.call = r.call => ~OldId(q)

RunRecords(inserted) ==
  [phase : {"idle", "read", "write"}, todo : SUBSET Files, file : Nat, until : Nat,
   dry : BOOLEAN, seen : SUBSET DOMAIN calls, seenTools : SUBSET DOMAIN calls,
   plan : Seq(Decisions), counts : Counts, seeded : SUBSET DOMAIN calls,
   covered : SUBSET DOMAIN calls, inserted : {inserted}, failed : BOOLEAN,
   stale : BOOLEAN, repeat : BOOLEAN]

\* Of the calls two files share, the run has seen those with provider ids.
Known(e, f) == \A c \in CallsOf(e) \cap CallsOf(f) : calls[c].named => c \in run.seen

\* A session that is left to read shares with the older ones only calls that
\* have been seen, or whose first session is left to read too.
Running ==
  /\ run \in RunRecords(run.inserted)
  /\ runs \in Nat /\ (run.phase # "idle" => runs # 0)
  /\ \A f \in run.todo : log[f] # <<>>
  /\ \A f \in run.todo, e \in Files : e < f => e \in run.todo \/ Known(e, f)
  /\ run.seen \subseteq run.covered \cup run.seeded

\* A call is about to be imported.
Ahead(c) ==
  run.phase = "write" /\
    \E i \in DOMAIN run.plan : run.plan[i].what = "import" /\ run.plan[i].call = c
Covered ==
  (~run.dry /\ ~run.failed) =>
    \A c \in run.covered \cap Plain :
      \/ IsZeroCostSkip(c) \/ IsCutoff(c, run.until) \/ c \in run.seeded
      \/ \E r \in rows : r.call = c
      \/ Ahead(c)

\* What a decision says, by a database that may have been drained into since:
\* a match has a row, and an import has none of its own.
Matched(d, f) ==
  /\ d.row \in Rows /\ RowOK(d.row) /\ d.row.session = f /\ Alike(d.row.call, d.call)
  /\ \E r \in rows : r.id = d.row.id /\ r.session = f /\ Alike(r.call, d.row.call)
Absent(c, f, stale) ==
  c \in Plain => \A r \in rows : r.call = c =>
    (calls[c].named => ~OldId(r)) /\ (r.session = f => stale)
DecisionOK(d, f, i, stale) ==
  /\ d \in Decisions /\ i \in DOMAIN log[f]
  /\ d.call = log[f][i] /\ d.turn = i - 1
  /\ d.what = "boundary" => Matched(d, f) /\ (calls[d.call].named => Owned(d.call, f))
  /\ d.what = "import" => Owned(d.call, f) /\ Absent(d.call, f, stale)

\* The decisions among the first ones that may count as boundary.
Boundaries(plan, m, n) ==
  {i \in 1 .. m : plan[i].what = "boundary" \/ (plan[i].what = "import" /\ i <= n)}

Planned ==
  run.phase = "write" =>
    /\ run.file \in Files
    /\ \A i \in DOMAIN run.plan : DecisionOK(run.plan[i], run.file, i, run.stale)
    /\ run.counts.imported = 0 /\ run.counts.canonical = 0 /\ run.counts.tools = 0
    /\ run.counts.boundary <= Cardinality(Boundaries(run.plan, Len(run.plan), 0))

IInv ==
  World /\ Stored /\ Tooled /\ Spooled /\ Running /\ Covered /\ Planned /\ OnceEach /\ ToolsFollow

-----------------------------------------------------------------------------
(* Ids                                                                     *)

\* An id tells what it was made of, and the four kinds are apart.
LEMMA IdFacts ==
  /\ \A c \in Int : ResponseId(c) \in Ids /\ LegacyId(c) \in Ids
  /\ \A f \in Nat, c \in Int : Synthesized(f, c) \in Ids /\ NoId(f, c) \in Ids
  /\ \A c, d : ResponseId(c) = ResponseId(d) => c = d
  /\ \A c, d : LegacyId(c) = LegacyId(d) => c = d
  /\ \A f, g, c, d : Synthesized(f, c) = Synthesized(g, d) => f = g /\ c = d
  /\ \A f, g, c, d : NoId(f, c) = NoId(g, d) => f = g /\ c = d
  /\ \A f, c, d : ResponseId(c) # Synthesized(f, d)
  /\ \A f, c, d : ResponseId(c) # NoId(f, d)
  /\ \A c, d : ResponseId(c) # LegacyId(d)
  /\ \A f, c, d : LegacyId(c) # Synthesized(f, d)
  /\ \A f, c, d : LegacyId(c) # NoId(f, d)
  /\ \A f, g, c, d : Synthesized(f, c) # NoId(g, d)
  /\ \A f \in Files : \A c : ~IsSynthesized(ResponseId(c), f) /\ ~IsSynthesized(LegacyId(c), f)
  BY DEF ResponseId, Synthesized, NoId, LegacyId, IsSynthesized, Ids, Files

-----------------------------------------------------------------------------
(* Pi goes on: calls are added, and files grow                             *)

\* What is there stays, and a call stays in the file it was made in.
Grown ==
  /\ DOMAIN calls \subseteq DOMAIN calls'
  /\ \A c \in DOMAIN calls : calls'[c] = calls[c]
  /\ \A f \in Files : \A i \in DOMAIN log[f] : i \in DOMAIN log'[f] /\ log'[f][i] = log[f][i]
  /\ \A f \in Files : \A c \in DOMAIN calls :
       c \in CallsOf(f) /\ First(c, f) => First(c, f)'

LEMMA WorldFacts ==
  ASSUME World
  PROVE  /\ DOMAIN calls = 1 .. Len(calls) /\ Len(calls) \in Nat /\ MaxCalls \in Nat
         /\ DOMAIN calls \subseteq Nat \ {0}
         /\ \A c \in DOMAIN calls : calls[c] \in ApiCalls
         /\ \A f \in Files : log[f] \in Seq(DOMAIN calls)
         /\ \A f \in Files : Len(log[f]) \in Nat /\ DOMAIN log[f] = 1 .. Len(log[f])
         /\ \A f \in Files : \A i \in DOMAIN log[f] : log[f][i] \in DOMAIN calls
         /\ \A f \in Files : CallsOf(f) \subseteq DOMAIN calls
         /\ \A f \in Files : Len(log[f]) <= Len(calls)
         /\ Files \subseteq Nat \ {0}
<1>1. DOMAIN calls = 1 .. Len(calls) /\ Len(calls) \in Nat /\ MaxCalls \in Nat
      /\ MaxFiles \in Nat
  BY BoundsAssumption DEF World
<1>2. \A f \in Files : log[f] \in Seq(DOMAIN calls)
  BY DEF World
<1>3. \A f \in Files : Len(log[f]) \in Nat /\ DOMAIN log[f] = 1 .. Len(log[f])
  BY <1>2
<1>4. \A f \in Files : \A i \in DOMAIN log[f] : log[f][i] \in DOMAIN calls
  BY <1>2
<1>5. \A c \in DOMAIN calls : calls[c] \in ApiCalls
  BY DEF World
<1>6. \A f \in Files : CallsOf(f) \subseteq DOMAIN calls
  BY <1>4 DEF CallsOf
<1>7. ASSUME NEW f \in Files PROVE Len(log[f]) <= Len(calls)
  <2>1. CASE Len(log[f]) = 0
    BY <1>1, <2>1
  <2>2. CASE Len(log[f]) # 0
    <3>1. Len(log[f]) \in DOMAIN log[f]
      BY <1>3, <2>2
    <3>2. Len(log[f]) <= log[f][Len(log[f])] /\ log[f][Len(log[f])] \in 1 .. Len(calls)
      BY <3>1, <1>1, <1>4 DEF World
    <3> QED BY <3>2, <1>1, <1>3
  <2> QED BY <2>1, <2>2
<1>8. DOMAIN calls \subseteq Nat \ {0} /\ Files \subseteq Nat \ {0}
  BY <1>1 DEF Files
<1> QED BY <1>1, <1>2, <1>3, <1>4, <1>5, <1>6, <1>7, <1>8

\* What is said of calls, rows and tool calls stays true, and a call that
\* none is like may only lose that.
LEMMA GrownKeeps ==
  ASSUME World, World', Grown
  PROVE  /\ \A f \in Files : CallsOf(f) \subseteq CallsOf(f)'
         /\ \A c, f : Owned(c, f) => Owned(c, f)'
         /\ \A c, d \in DOMAIN calls : Alike(c, d) => Alike(c, d)'
         /\ \A r : At(r) /\ r.session \in Files => At(r)'
         /\ \A r : RowOK(r) => RowOK(r)'
         /\ \A t : ToolOK(t) => ToolOK(t)'
         /\ \A r : Awaited(r) => Awaited(r)'
         /\ \A c \in DOMAIN calls : c \in Plain' => c \in Plain
<1>1. \A f \in Files : CallsOf(f) \subseteq DOMAIN calls
  BY WorldFacts
<1>2. \A f \in Files : CallsOf(f) \subseteq CallsOf(f)'
  BY DEF CallsOf, Grown
<1>3. \A c, f : Owned(c, f) => Owned(c, f)'
  BY <1>1, <1>2 DEF Owned, Grown
<1>4. \A c, d \in DOMAIN calls : Alike(c, d) => Alike(c, d)'
  BY DEF Alike, Grown
<1>5. \A r : At(r) /\ r.session \in Files => At(r)'
  BY DEF At, Grown
<1>6. ASSUME NEW r, OwnRow(r) PROVE OwnRow(r)'
  <2>2. r.session \in Files /\ r.call \in DOMAIN calls
    BY <1>1, <1>6 DEF OwnRow, Owned
  <2>1. Owned(r.call, r.session)' /\ r.by \in {"live", "log"} /\ At(r)'
    BY <1>3, <1>5, <1>6, <2>2 DEF OwnRow
  <2>3. calls'[r.call] = calls[r.call]
    BY <2>2 DEF Grown
  <2>4. CASE OldId(r)
    BY <2>1, <2>4 DEF OwnRow, OldId
  <2>5. CASE r.id = NoId(r.session, r.call) /\ ~calls[r.call].named
    BY <2>1, <2>3, <2>5 DEF OwnRow
  <2>6. CASE \E c \in DOMAIN calls :
               calls[c].named /\ Alike(c, r.call) /\ Owned(c, r.session) /\ r.id = ResponseId(c)
    <3>1. PICK c \in DOMAIN calls :
            calls[c].named /\ Alike(c, r.call) /\ Owned(c, r.session) /\ r.id = ResponseId(c)
      BY <2>6
    <3>2. c \in DOMAIN calls' /\ calls'[c].named /\ Alike(c, r.call)' /\ Owned(c, r.session)'
      BY <1>3, <1>4, <2>2, <3>1 DEF Grown
    <3> QED BY <2>1, <3>1, <3>2 DEF OwnRow
  <2> QED BY <1>6, <2>4, <2>5, <2>6 DEF OwnRow
<1>7. \A r : RowOK(r) => RowOK(r)'
  BY <1>6 DEF RowOK, LegacyRow
<1>8. \A t : ToolOK(t) => ToolOK(t)'
  BY <1>3 DEF ToolOK
<1>9. ASSUME NEW r, Awaited(r) PROVE Awaited(r)'
  <2>1. r.session \in Files /\ r.call \in DOMAIN calls
    BY <1>1, <1>9 DEF Awaited, Owned
  <2>2. calls'[r.call] = calls[r.call]
    BY <2>1 DEF Grown
  <2> QED BY <1>3, <1>5, <1>9, <2>1, <2>2 DEF Awaited, OldId
<1>10. \A c \in DOMAIN calls : c \in Plain' => c \in Plain
  BY DEF Plain, Grown
<1> QED BY <1>2, <1>3, <1>4, <1>5, <1>7, <1>8, <1>9, <1>10

\* Most steps leave Pi alone.
LEMMA NotGrown ==
  ASSUME World, UNCHANGED <<calls, log>>
  PROVE  World' /\ Grown
<1>1. World'
  BY DEF World, CallsOf
<1>2. Grown
  BY DEF Grown, First, CallsOf
<1> QED BY <1>1, <1>2

\* A call is added to a session.
Joins(f, e) ==
  calls' = Append(calls, e) /\ log' = [log EXCEPT ![f] = Append(@, Len(calls'))]

LEMMA CallGrows ==
  ASSUME World, NEW f \in Files, NEW e \in ApiCalls, NEW n, n = Len(calls) + 1,
         Len(calls) < MaxCalls, Follows(f), Joins(f, e)
  PROVE  /\ World' /\ Grown
         /\ \A g \in Files : CallsOf(g)' = CallsOf(g) \cup (IF g = f THEN {n} ELSE {})
         /\ Len(calls') = n /\ n \notin DOMAIN calls /\ n \in DOMAIN calls'
         /\ calls'[n] = e
         /\ log'[f] = Append(log[f], n)
         /\ \A g \in Files \ {f} : log'[g] = log[g]
         /\ First(n, f)' /\ Owned(n, f)'
<1> USE DEF Joins
<1>1. /\ DOMAIN calls = 1 .. Len(calls) /\ Len(calls) \in Nat /\ MaxCalls \in Nat
      /\ \A g \in Files : log[g] \in Seq(DOMAIN calls)
      /\ \A g \in Files : CallsOf(g) \subseteq DOMAIN calls
      /\ \A g \in Files : Len(log[g]) <= Len(calls)
      /\ \A g \in Files : Len(log[g]) \in Nat /\ DOMAIN log[g] = 1 .. Len(log[g])
      /\ \A g \in Files : \A i \in DOMAIN log[g] : log[g][i] \in DOMAIN calls
  BY WorldFacts
<1>2. /\ calls' \in Seq(ApiCalls) /\ Len(calls') = n /\ DOMAIN calls' = 1 .. n
      /\ calls'[n] = e /\ \A c \in DOMAIN calls : calls'[c] = calls[c]
  BY <1>1 DEF World
<1>3. /\ log'[f] = Append(log[f], n) /\ \A g \in Files \ {f} : log'[g] = log[g]
      /\ DOMAIN log' = Files
  BY <1>2 DEF World
<1>4. /\ DOMAIN log'[f] = DOMAIN log[f] \cup {Len(log[f]) + 1}
      /\ log'[f][Len(log[f]) + 1] = n
      /\ \A i \in DOMAIN log[f] : log'[f][i] = log[f][i]
      /\ log'[f] \in Seq(DOMAIN calls')
  <2>1. log[f] \in Seq(Nat) /\ n \in Nat /\ Len(log[f]) \in Nat
        /\ DOMAIN log[f] = 1 .. Len(log[f])
    BY <1>1
  <2>2. log[f] \in Seq(DOMAIN calls') /\ n \in DOMAIN calls'
    BY <1>1, <1>2
  <2>3. Append(log[f], n) \in Seq(DOMAIN calls')
    BY <2>2
  <2>4. Len(Append(log[f], n)) = Len(log[f]) + 1
        /\ DOMAIN Append(log[f], n) = 1 .. Len(log[f]) + 1
    BY <2>1
  <2>5. Append(log[f], n)[Len(log[f]) + 1] = n
        /\ \A i \in 1 .. Len(log[f]) : Append(log[f], n)[i] = log[f][i]
    BY <2>1
  <2>6. 1 .. Len(log[f]) + 1 = (1 .. Len(log[f])) \cup {Len(log[f]) + 1}
    BY <2>1
  <2> QED BY <1>3, <2>1, <2>3, <2>4, <2>5, <2>6
<1>5. \A g \in Files : CallsOf(g)' = CallsOf(g) \cup (IF g = f THEN {n} ELSE {})
  <2>1. CallsOf(f)' = CallsOf(f) \cup {n}
    BY <1>4 DEF CallsOf
  <2>2. \A g \in Files \ {f} : CallsOf(g)' = CallsOf(g)
    BY <1>3 DEF CallsOf
  <2> QED BY <2>1, <2>2
<1>6. n \notin DOMAIN calls /\ n = Len(calls) + 1 /\ n \in Nat
  BY <1>1
<1>7. World'
  <2>1. calls' \in Seq(ApiCalls) /\ Len(calls') <= MaxCalls
    BY <1>1, <1>2, <1>6
  <2>2. \A g \in Files : log'[g] \in Seq(DOMAIN calls')
    <3>1. \A g \in Files \ {f} : log'[g] \in Seq(DOMAIN calls')
      BY <1>1, <1>2, <1>3, <1>6
    <3> QED BY <1>4, <3>1
  <2>3. log' \in [Files -> Seq(DOMAIN calls')]
    BY <1>3, <2>2 DEF World
  <2>4. ASSUME NEW g \in Files, NEW i \in DOMAIN log'[g] PROVE i <= log'[g][i]
    <3>1. CASE g = f /\ i = Len(log[f]) + 1
      BY <1>1, <1>4, <1>6, <3>1
    <3>2. CASE ~(g = f /\ i = Len(log[f]) + 1)
      <4>1. i \in DOMAIN log[g] /\ log'[g][i] = log[g][i]
        BY <1>3, <1>4, <2>4, <3>2
      <4> QED BY <4>1 DEF World
    <3> QED BY <3>1, <3>2
  <2>5. ASSUME NEW g \in Files, NEW i \in DOMAIN log'[g], NEW j \in DOMAIN log'[g], i < j
        PROVE  log'[g][i] < log'[g][j]
    <3>1. CASE g = f /\ j = Len(log[f]) + 1
      <4>1. i \in DOMAIN log[f]
        BY <1>1, <1>4, <2>5, <3>1
      <4>2. log'[g][i] \in DOMAIN calls /\ log'[g][j] = n
        BY <1>1, <1>4, <3>1, <4>1
      <4>3. log'[g][i] \in 1 .. Len(calls)
        BY <1>1, <4>2
      <4>4. \A x \in 1 .. Len(calls) : x < n
        BY <1>1, <1>6
      <4> QED BY <4>2, <4>3, <4>4
    <3>2. CASE ~(g = f /\ j = Len(log[f]) + 1)
      <4>1. j \in DOMAIN log[g] /\ log'[g][j] = log[g][j]
        BY <1>3, <1>4, <2>5, <3>2
      <4>2. i \in DOMAIN log[g] /\ log'[g][i] = log[g][i]
        <5>1. CASE g = f
          BY <1>1, <1>4, <2>5, <4>1, <5>1
        <5>2. CASE g # f
          BY <1>3, <2>5, <5>2
        <5> QED BY <5>1, <5>2
      <4> QED BY <2>5, <4>1, <4>2 DEF World
    <3> QED BY <3>1, <3>2
  <2>6. ASSUME NEW d \in Files, NEW g \in Files, d < g, log'[g] # <<>> PROVE log'[d] # <<>>
    <3>0. log'[f] # <<>>
      BY <1>4
    <3>1. CASE d = f
      BY <3>0, <3>1
    <3>2. CASE d # f
      <4>1. log[d] # <<>>
        BY <1>3, <2>6, <3>2 DEF World, Follows
      <4> QED BY <1>3, <3>2, <4>1
    <3> QED BY <3>1, <3>2
  <2> QED BY <2>1, <2>3, <2>4, <2>5, <2>6 DEF World
<1>8. \A g \in Files, c \in DOMAIN calls : First(c, g) => First(c, g)'
  BY <1>5, <1>6 DEF First
<1>9. Grown
  <2>1. DOMAIN calls \subseteq DOMAIN calls' /\ \A c \in DOMAIN calls : calls'[c] = calls[c]
    BY <1>1, <1>2, <1>6
  <2>2. ASSUME NEW g \in Files, NEW i \in DOMAIN log[g]
        PROVE  i \in DOMAIN log'[g] /\ log'[g][i] = log[g][i]
    BY <1>3, <1>4
  <2> QED BY <1>8, <2>1, <2>2 DEF Grown
<1>10. First(n, f)' /\ Owned(n, f)'
  <2>1. First(n, f)'
    <3>1. ASSUME NEW d \in Files, d < f PROVE n \notin CallsOf(d)'
      <4>1. d # f
        BY <3>1 DEF Files
      <4> QED BY <1>1, <1>5, <1>6, <4>1
    <3> QED BY <3>1 DEF First
  <2> QED BY <1>5, <2>1 DEF Owned
<1> QED BY <1>2, <1>3, <1>5, <1>6, <1>7, <1>9, <1>10

\* A file starts with a copy of another's first calls.
LEMMA ForkGrows ==
  ASSUME World, NEW f \in Files, NEW g \in Files, NEW n \in DOMAIN log[f],
         Fork(f, g, n)
  PROVE  /\ World' /\ Grown
         /\ \A h \in Files \ {g} : log'[h] = log[h] /\ CallsOf(h)' = CallsOf(h)
         /\ calls' = calls
<1>1. /\ DOMAIN calls = 1 .. Len(calls)
      /\ \A h \in Files : log[h] \in Seq(DOMAIN calls)
      /\ \A h \in Files : Len(log[h]) \in Nat /\ DOMAIN log[h] = 1 .. Len(log[h])
      /\ \A h \in Files : \A i \in DOMAIN log[h] : log[h][i] \in DOMAIN calls
      /\ Files \subseteq Nat \ {0}
  BY WorldFacts
<1>2. f < g /\ log[g] = <<>> /\ Follows(g) /\ calls' = calls
  BY DEF Fork
<1>3. log' \in [Files -> Seq(DOMAIN calls)] /\ log'[g] = SubSeq(log[f], 1, n)
      /\ \A h \in Files \ {g} : log'[h] = log[h]
  <2>1. SubSeq(log[f], 1, n) \in Seq(DOMAIN calls)
    BY <1>1
  <2> QED BY <2>1 DEF Fork, World
<1>4. DOMAIN log'[g] = 1 .. n /\ \A i \in 1 .. n : log'[g][i] = log[f][i]
  BY <1>1, <1>3
<1>5. n \in Nat \ {0} /\ 1 .. n \subseteq DOMAIN log[f]
  BY <1>1
<1>6. \A h \in Files \ {g} : CallsOf(h)' = CallsOf(h)
  BY <1>3 DEF CallsOf
<1>7. CallsOf(g)' \subseteq CallsOf(f)
  BY <1>4, <1>5 DEF CallsOf
<1>8. DOMAIN log[g] = {}
  BY <1>2
<1>9. World'
  <2>1. \A h \in Files : \A i \in DOMAIN log'[h] : i <= log'[h][i]
    <3>1. \A i \in DOMAIN log'[g] : i <= log'[g][i]
      BY <1>4, <1>5 DEF World
    <3>2. \A h \in Files \ {g} : \A i \in DOMAIN log'[h] : i <= log'[h][i]
      BY <1>3 DEF World
    <3> QED BY <3>1, <3>2
  <2>2. \A h \in Files : \A i, j \in DOMAIN log'[h] : i < j => log'[h][i] < log'[h][j]
    <3>1. \A i, j \in DOMAIN log'[g] : i < j => log'[g][i] < log'[g][j]
      BY <1>4, <1>5 DEF World
    <3>2. \A h \in Files \ {g} : \A i, j \in DOMAIN log'[h] : i < j => log'[h][i] < log'[h][j]
      BY <1>3 DEF World
    <3> QED BY <3>1, <3>2
  <2>3. ASSUME NEW d \in Files, NEW h \in Files, d < h, log'[h] # <<>> PROVE log'[d] # <<>>
    <3>1. log'[g] # <<>>
      BY <1>4, <1>5
    <3>2. CASE d = g
      BY <3>1, <3>2
    <3>3. CASE d # g /\ h = g
      <4>1. log[d] # <<>>
        BY <1>2, <2>3, <3>3 DEF Follows
      <4> QED BY <1>3, <3>3, <4>1
    <3>4. CASE d # g /\ h # g
      BY <1>3, <2>3, <3>4 DEF World
    <3> QED BY <3>2, <3>3, <3>4
  <2> QED BY <1>2, <1>3, <2>1, <2>2, <2>3 DEF World
<1>10. Grown
  <2>1. ASSUME NEW h \in Files, NEW i \in DOMAIN log[h]
        PROVE  i \in DOMAIN log'[h] /\ log'[h][i] = log[h][i]
    BY <1>3, <1>8
  <2>2. ASSUME NEW h \in Files, NEW c \in CallsOf(h), First(c, h) PROVE First(c, h)'
    <3>1. ASSUME NEW d \in Files, d < h, c \in CallsOf(d)' PROVE FALSE
      <4>1. CASE d # g
        BY <1>6, <2>2, <3>1, <4>1 DEF First
      <4>2. CASE d = g
        <5>1. c \in CallsOf(f) /\ f < h
          BY <1>1, <1>2, <1>7, <3>1, <4>2
        <5> QED BY <2>2, <5>1 DEF First
      <4> QED BY <4>1, <4>2
    <3> QED BY <3>1 DEF First
  <2> QED BY <1>2, <2>1, <2>2 DEF Grown
<1> QED BY <1>2, <1>3, <1>6, <1>9, <1>10

-----------------------------------------------------------------------------
(* Induction and counting                                                  *)

\* Induction over the naturals, as a fact about a set of them.
Less == {ss \in Nat \X Nat : ss[1] < ss[2]}
LEMMA LessWF == IsWellFoundedOn(Less, Nat)
  BY NatLessThanWellFounded, Zenon DEF OpToRel, Less

\* A set of numbers that is not empty has a least one.
LEMMA LeastExists ==
  ASSUME NEW T, T \subseteq Nat, T # {}
  PROVE  \E x \in T : \A y \in T : x <= y
<1>1. PICK x \in T : \A y \in T : ~ (<<y, x>> \in Less)
  BY WFMin, LessWF
<1>2. ASSUME NEW y \in T PROVE x <= y
  <2>1. x \in Nat /\ y \in Nat
    OBVIOUS
  <2>2. ~(y < x)
    BY <1>1, <2>1 DEF Less
  <2> QED BY <2>1, <2>2
<1> QED BY <1>2

LEMMA NatSetInduction ==
  ASSUME NEW S, 0 \in S, \A n \in Nat : n \in S => n + 1 \in S
  PROVE  Nat \subseteq S
<1> DEFINE T == {n \in Nat : n \notin S}
<1>1. SUFFICES ASSUME T # {} PROVE FALSE
  OBVIOUS
<1>2. PICK x \in T : \A y \in T : x <= y
  <2>1. T \subseteq Nat
    OBVIOUS
  <2> QED BY <1>1, <2>1, LeastExists
<1>3. x # 0
  OBVIOUS
<1>4. x - 1 \in Nat /\ x - 1 < x /\ x = (x - 1) + 1
  BY <1>3
<1>5. x - 1 \in S
  BY <1>2, <1>4
<1> QED BY <1>4, <1>5

LEMMA ZeroKeys ==
  DOMAIN Zero = {"total", "imported", "replay", "zero", "boundary", "cutoff", "canonical", "tools"}
  BY DEF Zero

\* One is added to one of the counts.
LEMMA CountAdds ==
  ASSUME MaxCalls \in Nat, NEW counts \in Counts, NEW k \in DOMAIN Zero, counts[k] < MaxCalls
  PROVE  /\ Count(counts, k) \in Counts
         /\ Count(counts, k)[k] = counts[k] + 1
         /\ \A j \in DOMAIN Zero \ {k} : Count(counts, k)[j] = counts[j]
<1> DEFINE K == DOMAIN Zero
<1>1. counts \in [K -> 0 .. MaxCalls]
  BY DEF Counts
<1>2. counts[k] + 1 \in 0 .. MaxCalls
  BY <1>1
<1> HIDE DEF K
<1>3. k \in K
  BY DEF K
<1> DEFINE new == [counts EXCEPT ![k] = counts[k] + 1]
<1>4. new \in [K -> 0 .. MaxCalls] /\ new[k] = counts[k] + 1
      /\ \A j \in K \ {k} : new[j] = counts[j]
  BY <1>1, <1>2, <1>3
<1>5. Count(counts, k) = new
  BY DEF Count
<1> HIDE DEF new
<1> QED BY <1>4, <1>5 DEF Counts, K

LEMMA BoundariesFacts ==
  ASSUME NEW plan, NEW m \in Nat, NEW n
  PROVE  /\ IsFiniteSet(Boundaries(plan, m, n)) /\ Cardinality(Boundaries(plan, m, n)) \in Nat
         /\ Cardinality(Boundaries(plan, m, n)) <= m
<1>1. IsFiniteSet(1 .. m) /\ Cardinality(1 .. m) = m
  BY FS_Interval
<1>2. Boundaries(plan, m, n) \subseteq 1 .. m
  BY DEF Boundaries
<1>3. IsFiniteSet(Boundaries(plan, m, n)) /\ Cardinality(Boundaries(plan, m, n)) <= m
  BY <1>1, <1>2, FS_Subset
<1> QED BY <1>3, FS_CardinalityType

\* A larger set is larger by one at least if it has an element more.
LEMMA OneMore ==
  ASSUME NEW S, NEW T, IsFiniteSet(T), S \subseteq T
  PROVE  /\ Cardinality(S) <= Cardinality(T)
         /\ \A x \in T : x \notin S => Cardinality(S) + 1 <= Cardinality(T)
<1>1. IsFiniteSet(S) /\ Cardinality(S) <= Cardinality(T)
  BY FS_Subset
<1>2. ASSUME NEW x \in T, x \notin S PROVE Cardinality(S) + 1 <= Cardinality(T)
  <2>1. Cardinality(S \cup {x}) = Cardinality(S) + 1
    BY <1>1, <1>2, FS_AddElement
  <2>2. S \cup {x} \subseteq T
    BY <1>2
  <2>3. Cardinality(S \cup {x}) <= Cardinality(T)
    BY <2>2, FS_Subset
  <2> QED BY <2>1, <2>3
<1> QED BY <1>1, <1>2

-----------------------------------------------------------------------------
(* The decisions about a file                                              *)

\* The equation that defines the function in Decided, up to a call.
DecideUpTo(f, until, seen, m, u) ==
  u = [n \in 0 .. m |->
         IF n = 0 THEN [free |-> Existing(f), plan |-> <<>>, seen |-> seen, counts |-> Zero]
         ELSE Decide(u[n - 1], log[f][n], n - 1, until)]

LEMMA DecideUpToExists ==
  ASSUME NEW f, NEW until, NEW seen, NEW n \in Nat
  PROVE  \E u : DecideUpTo(f, until, seen, n, u)
<1> DEFINE start == [free |-> Existing(f), plan |-> <<>>, seen |-> seen, counts |-> Zero]
           S == {m \in Nat : \E u : DecideUpTo(f, until, seen, m, u)}
<1>1. 0 \in S
  <2> DEFINE u == [i \in 0 .. 0 |-> start]
  <2>1. DecideUpTo(f, until, seen, 0, u)
    BY DEF DecideUpTo
  <2> QED BY <2>1
<1>2. ASSUME NEW m \in Nat, m \in S PROVE m + 1 \in S
  <2>1. PICK u : DecideUpTo(f, until, seen, m, u)
    BY <1>2
  <2> DEFINE last == Decide(u[m], log[f][m + 1], m, until)
             v == [i \in 0 .. m + 1 |-> IF i = m + 1 THEN last ELSE u[i]]
  <2>2. ASSUME NEW i \in 0 .. m + 1
        PROVE  v[i] = IF i = 0 THEN start ELSE Decide(v[i - 1], log[f][i], i - 1, until)
    <3>1. CASE i = m + 1
      <4>1. v[i] = last /\ v[i - 1] = u[m] /\ i # 0 /\ i - 1 = m
        BY <3>1
      <4> QED BY <3>1, <4>1
    <3>2. CASE i # m + 1
      <4>1. i \in 0 .. m /\ v[i] = u[i]
        BY <3>2
      <4>2. i # 0 => v[i - 1] = u[i - 1]
        BY <4>1
      <4>3. u[i] = IF i = 0 THEN start ELSE Decide(u[i - 1], log[f][i], i - 1, until)
        BY <2>1, <4>1 DEF DecideUpTo
      <4> QED BY <4>1, <4>2, <4>3
    <3> QED BY <3>1, <3>2
  <2>3. DecideUpTo(f, until, seen, m + 1, v)
    BY <2>2 DEF DecideUpTo
  <2> QED BY <2>3
<1> HIDE DEF S
<1>3. Nat \subseteq S
  BY <1>1, <1>2, NatSetInduction
<1> QED BY <1>3 DEF S

\* The reasons for leaving a message out, and none for the others.
Justified(d, until, seen) ==
  /\ d.what = "zero" => IsZeroCostSkip(d.call)
  /\ d.what = "cutoff" => IsCutoff(d.call, until)
  /\ d.what = "replay" => IsReplay(d.call, seen)
  /\ d.what = "import" =>
       ~IsZeroCostSkip(d.call) /\ ~IsCutoff(d.call, until) /\ ~IsReplay(d.call, seen)

DecideRecords(f) ==
  [free : SUBSET Existing(f), plan : Seq(Decisions), seen : SUBSET DOMAIN calls, counts : Counts]

\* What holds after n decisions.
Deciding(st, f, until, seen, n) ==
  /\ st \in DecideRecords(f) /\ Len(st.plan) = n
  /\ \A i \in 1 .. n : DecisionOK(st.plan[i], f, i, FALSE) /\ Justified(st.plan[i], until, seen)
  /\ seen \subseteq st.seen /\ st.seen \subseteq seen \cup {log[f][i] : i \in 1 .. n}
  /\ \A i \in 1 .. n : calls[log[f][i]].named => log[f][i] \in st.seen
  /\ \A r \in Existing(f) : r \in st.free \/ \E i \in 1 .. n : Alike(r.call, log[f][i])
  /\ st.counts.imported = 0 /\ st.counts.canonical = 0 /\ st.counts.tools = 0
  /\ \A k \in DOMAIN Zero : st.counts[k] <= n
  /\ st.counts.boundary <= Cardinality(Boundaries(st.plan, n, 0))

\* Older sessions have been seen.
OldSeen(f, seen) ==
  \A e \in Files : e < f => \A c \in CallsOf(e) \cap CallsOf(f) : calls[c].named => c \in seen

LEMMA DecisionCounts ==
  ASSUME World, NEW counts \in Counts, NEW n \in Nat, n < MaxCalls,
         \A k \in DOMAIN Zero : counts[k] <= n,
         NEW what \in Whats,
         NEW new, new = IF what = "import" THEN Count(counts, "total")
                        ELSE Count(Count(counts, "total"), what)
  PROVE  /\ new \in Counts /\ \A k \in DOMAIN Zero : new[k] <= n + 1
         /\ new.imported = counts.imported /\ new.canonical = counts.canonical
         /\ new.tools = counts.tools
         /\ new.boundary = IF what = "boundary" THEN counts.boundary + 1 ELSE counts.boundary
<1> DEFINE one == Count(counts, "total")
<1>0. MaxCalls \in Nat
  BY WorldFacts
<1>1. "total" \in DOMAIN Zero /\ counts["total"] < MaxCalls
      /\ \A k \in DOMAIN Zero : counts[k] \in 0 .. MaxCalls
  BY <1>0, ZeroKeys DEF Counts
<1>2. /\ one \in Counts /\ one["total"] = counts["total"] + 1
      /\ \A j \in DOMAIN Zero \ {"total"} : one[j] = counts[j]
  BY <1>0, <1>1, CountAdds
<1>3. \A k \in DOMAIN Zero : one[k] <= n + 1 /\ counts[k] <= n + 1
  BY <1>1, <1>2
<1> HIDE DEF one
<1>4. CASE what = "import"
  <2>1. new = one
    BY <1>4 DEF one
  <2> QED BY <1>2, <1>3, <1>4, <2>1, ZeroKeys
<1>5. CASE what # "import"
  <2>1. new = Count(one, what)
    BY <1>5 DEF one
  <2>2. what \in DOMAIN Zero \ {"total", "imported", "canonical", "tools"}
    BY <1>5, ZeroKeys DEF Whats
  <2>3. one[what] = counts[what]
    BY <1>2, <2>2
  <2>4. one[what] < MaxCalls
    BY <2>2, <2>3, <1>1, <1>0
  <2>5. /\ new \in Counts /\ new[what] = one[what] + 1
        /\ \A j \in DOMAIN Zero \ {what} : new[j] = one[j]
    BY <1>0, <1>2, <2>1, <2>2, <2>4, CountAdds
  <2>6. new[what] <= n + 1
    BY <1>1, <2>2, <2>3, <2>5
  <2>7. \A k \in DOMAIN Zero : new[k] <= n + 1
    BY <1>3, <2>5, <2>6
  <2>8. /\ new.imported = counts.imported /\ new.canonical = counts.canonical
        /\ new.tools = counts.tools
    BY <1>2, <2>2, <2>5, ZeroKeys
  <2>9. new.boundary = IF what = "boundary" THEN counts.boundary + 1 ELSE counts.boundary
    BY <1>2, <2>2, <2>3, <2>5, ZeroKeys
  <2> QED BY <2>5, <2>7, <2>8, <2>9
<1> QED BY <1>4, <1>5

\* A decision that is right is added to the others.
LEMMA DecisionRight ==
  ASSUME World, NEW f \in Files, NEW until, NEW seen, NEW n \in Nat, n + 1 \in DOMAIN log[f],
         NEW c, c = log[f][n + 1],
         NEW st, Deciding(st, f, until, seen, n), NEW free, free \subseteq st.free,
         NEW what \in Whats, NEW row \in Rows \cup {Null},
         NEW d, d = [call |-> c, turn |-> n, what |-> what, row |-> row],
         DecisionOK(d, f, n + 1, FALSE), Justified(d, until, seen),
         (calls[c].named /\ what \notin {"import", "boundary", "cutoff"}) => c \in st.seen,
         \A r \in Existing(f) : r \in st.free => r \in free \/ Alike(r.call, c)
  PROVE  Deciding(Decision([st EXCEPT !.free = free], c, n, what, row), f, until, seen, n + 1)
<1> DEFINE st2 == [st EXCEPT !.free = free]
           new == Decision(st2, c, n, what, row)
           plan == Append(st.plan, d)
           seen2 == IF calls[c].named /\ what \in {"import", "boundary", "cutoff"}
                      THEN st.seen \cup {c} ELSE st.seen
           counts == IF what = "import" THEN Count(st.counts, "total")
                     ELSE Count(Count(st.counts, "total"), what)
<1>1. st \in DecideRecords(f) /\ Len(st.plan) = n
  BY DEF Deciding
<1>2. /\ st.free \subseteq Existing(f) /\ st.plan \in Seq(Decisions) /\ st.counts \in Counts
      /\ st.seen \subseteq DOMAIN calls
  BY <1>1 DEF DecideRecords
<1>3. st2 = [free |-> free, plan |-> st.plan, seen |-> st.seen, counts |-> st.counts]
      /\ st2 \in DecideRecords(f)
  BY <1>1, <1>2 DEF DecideRecords
<1>4. new = [free |-> free, plan |-> plan, seen |-> seen2, counts |-> counts]
  <2> DEFINE plan2 == Append(st2.plan, [call |-> c, turn |-> n, what |-> what, row |-> row])
             seen3 == IF calls[c].named /\ what \in {"import", "boundary", "cutoff"}
                        THEN st2.seen \cup {c} ELSE st2.seen
             counts2 == IF what = "import" THEN Count(st2.counts, "total")
                        ELSE Count(Count(st2.counts, "total"), what)
  <2> HIDE DEF st2
  <2>1. new = [st2 EXCEPT !.plan = plan2, !.seen = seen3, !.counts = counts2]
    BY DEF Decision
  <2> HIDE DEF plan2, seen3, counts2, new
  <2>2. new = [free |-> st2.free, plan |-> plan2, seen |-> seen3, counts |-> counts2]
    BY <1>3, <2>1 DEF DecideRecords
  <2>3. st2.free = free /\ st2.plan = st.plan /\ st2.seen = st.seen /\ st2.counts = st.counts
    BY <1>3
  <2>4. plan2 = plan /\ seen3 = seen2 /\ counts2 = counts
    BY <2>3 DEF plan2, seen3, counts2
  <2> QED BY <2>2, <2>3, <2>4
<1>5. c \in DOMAIN calls /\ n < MaxCalls /\ MaxCalls \in Nat
  <2>1. n + 1 <= Len(log[f]) /\ Len(log[f]) <= Len(calls) /\ Len(calls) <= MaxCalls
        /\ Len(calls) \in Nat /\ MaxCalls \in Nat /\ Len(log[f]) \in Nat
    BY WorldFacts DEF World
  <2>2. c \in DOMAIN calls
    BY WorldFacts
  <2> QED BY <2>1, <2>2
<1>6. /\ counts \in Counts /\ \A k \in DOMAIN Zero : counts[k] <= n + 1
      /\ counts.imported = 0 /\ counts.canonical = 0 /\ counts.tools = 0
      /\ counts.boundary = IF what = "boundary" THEN st.counts.boundary + 1
                           ELSE st.counts.boundary
  <2>1. \A k \in DOMAIN Zero : st.counts[k] <= n
    BY DEF Deciding
  <2>2. /\ counts \in Counts /\ \A k \in DOMAIN Zero : counts[k] <= n + 1
        /\ counts.imported = st.counts.imported /\ counts.canonical = st.counts.canonical
        /\ counts.tools = st.counts.tools
        /\ counts.boundary = IF what = "boundary" THEN st.counts.boundary + 1
                             ELSE st.counts.boundary
    BY <1>2, <1>5, <2>1, DecisionCounts
  <2> QED BY <2>2 DEF Deciding
<1>7. d \in Decisions
  BY DEF DecisionOK
<1> HIDE DEF st2, new, counts
<1>8. /\ plan \in Seq(Decisions) /\ Len(plan) = n + 1 /\ plan[n + 1] = d
      /\ \A i \in 1 .. n : plan[i] = st.plan[i]
  BY <1>1, <1>2, <1>7
<1> HIDE DEF plan
<1>9. \A i \in 1 .. n + 1 : i = n + 1 \/ i \in 1 .. n
  OBVIOUS
<1>10. seen2 = st.seen \/ seen2 = st.seen \cup {c}
  OBVIOUS
<1>11. calls[c].named => c \in seen2
  OBVIOUS
<1> HIDE DEF seen2
<1>12. \A i \in 1 .. n + 1 : DecisionOK(plan[i], f, i, FALSE) /\ Justified(plan[i], until, seen)
  <2>1. \A i \in 1 .. n : DecisionOK(plan[i], f, i, FALSE) /\ Justified(plan[i], until, seen)
    BY <1>8 DEF Deciding
  <2> QED BY <1>8, <1>9, <2>1
<1>13. seen \subseteq seen2 /\ seen2 \subseteq seen \cup {log[f][i] : i \in 1 .. n + 1}
  <2>1. {log[f][i] : i \in 1 .. n} \cup {c} \subseteq {log[f][i] : i \in 1 .. n + 1}
    OBVIOUS
  <2>2. seen \subseteq st.seen /\ st.seen \subseteq seen \cup {log[f][i] : i \in 1 .. n}
    BY DEF Deciding
  <2> QED BY <1>10, <2>1, <2>2
<1>14. \A i \in 1 .. n + 1 : calls[log[f][i]].named => log[f][i] \in seen2
  <2>1. \A i \in 1 .. n : calls[log[f][i]].named => log[f][i] \in st.seen
    BY DEF Deciding
  <2> QED BY <1>9, <1>10, <1>11, <2>1
<1>15. \A r \in Existing(f) : r \in free \/ \E i \in 1 .. n + 1 : Alike(r.call, log[f][i])
  <2>1. \A r \in Existing(f) : r \in st.free \/ \E i \in 1 .. n : Alike(r.call, log[f][i])
    BY DEF Deciding
  <2>2. n + 1 \in 1 .. n + 1 /\ 1 .. n \subseteq 1 .. n + 1
    OBVIOUS
  <2> QED BY <2>1, <2>2
<1>16. counts.boundary <= Cardinality(Boundaries(plan, n + 1, 0))
  <2> DEFINE S == Boundaries(st.plan, n, 0)
             T == Boundaries(plan, n + 1, 0)
  <2>1. S \subseteq T /\ n + 1 \notin S /\ (what = "boundary" => n + 1 \in T)
    BY <1>8 DEF Boundaries
  <2>2. IsFiniteSet(T) /\ IsFiniteSet(S) /\ Cardinality(T) \in Nat /\ Cardinality(S) \in Nat
    BY BoundariesFacts
  <2>3. st.counts.boundary <= Cardinality(S)
    BY DEF Deciding
  <2>4. st.counts.boundary \in Nat
    BY <1>2, <1>5, ZeroKeys DEF Counts
  <2> HIDE DEF S, T
  <2>5. Cardinality(S) <= Cardinality(T)
        /\ (what = "boundary" => Cardinality(S) + 1 <= Cardinality(T))
    BY <2>1, <2>2, OneMore
  <2> QED BY <1>6, <2>2, <2>3, <2>4, <2>5 DEF T
<1>17. new \in DecideRecords(f)
  <2>1. free \subseteq Existing(f) /\ seen2 \subseteq DOMAIN calls
    BY <1>2, <1>5, <1>10
  <2> QED BY <1>4, <1>6, <1>8, <2>1 DEF DecideRecords
<1>18. new.free = free /\ new.plan = plan /\ new.seen = seen2 /\ new.counts = counts
  BY <1>4
<1> HIDE DEF seen2
<1>19. Deciding(new, f, until, seen, n + 1)
  BY <1>6, <1>8, <1>12, <1>13, <1>14, <1>15, <1>16, <1>17, <1>18 DEF Deciding
<1> QED BY <1>19 DEF new, st2

\* A row of a file's own is a row of one of its calls.
LEMMA OwnRows ==
  ASSUME World, Stored, NEW r \in rows, r.session \in Files
  PROVE  OwnRow(r) /\ r.call \in CallsOf(r.session) /\ r.call \in DOMAIN calls /\ r.call \in Nat
<1>1. RowOK(r)
  BY DEF Stored
<1>2. r.session # OfLegacy
  BY DEF Files, OfLegacy
<1>3. OwnRow(r)
  BY <1>1, <1>2 DEF RowOK, LegacyRow
<1> QED BY <1>3, WorldFacts DEF OwnRow, Owned

\* So is the row of a call whatever its file.
LEMMA CallRows ==
  ASSUME World, Stored, NEW r \in rows, r.call \in Nat
  PROVE  OwnRow(r) /\ r.session \in Files /\ r.call \in CallsOf(r.session) /\ r.call \in DOMAIN calls
<1>1. RowOK(r)
  BY DEF Stored
<1>2. OwnRow(r)
  BY <1>1 DEF RowOK, LegacyRow
<1> QED BY <1>2, WorldFacts DEF OwnRow, Owned

\* Each message is decided rightly.
LEMMA DecideRight ==
  ASSUME World, Stored, NEW f \in Files, NEW until, NEW seen, OldSeen(f, seen),
         NEW n \in Nat, n + 1 \in DOMAIN log[f], NEW st, Deciding(st, f, until, seen, n)
  PROVE  Deciding(Decide(st, log[f][n + 1], n, until), f, until, seen, n + 1)
<1> DEFINE c == log[f][n + 1]
           match == {r \in st.free : Matches(r, c)}
           first == CHOOSE r \in match : \A q \in match : r.call <= q.call
           Deed(what, row) == [call |-> c, turn |-> n, what |-> what, row |-> row]
           Goal(new) == Deciding(new, f, until, seen, n + 1)
<1>1. c \in DOMAIN calls /\ c \in CallsOf(f) /\ c \in Nat
  BY WorldFacts DEF CallsOf
<1>2. st.free \subseteq Existing(f) /\ st \in DecideRecords(f) /\ [st EXCEPT !.free = st.free] = st
  BY DEF Deciding, DecideRecords
<1>3. \A what \in Whats, row \in Rows \cup {Null} : Deed(what, row) \in Decisions
  BY <1>1 DEF Decisions
<1>4. ASSUME NEW what \in Whats \ {"boundary", "import"}, Justified(Deed(what, Null), until, seen),
             (calls[c].named /\ what # "cutoff") => c \in st.seen
      PROVE  Goal(Decision(st, c, n, what, Null))
  <2> DEFINE d == Deed(what, Null)
  <2>1. d \in Decisions /\ d.call = c /\ d.turn = (n + 1) - 1 /\ d.what = what
    BY <1>3, <1>4
  <2>2. DecisionOK(d, f, n + 1, FALSE)
    BY <2>1, <1>4 DEF DecisionOK
  <2>3. what \in Whats /\ Null \in Rows \cup {Null} /\ c = log[f][n + 1]
    BY <1>4
  <2>4. Goal(Decision([st EXCEPT !.free = st.free], c, n, what, Null))
    BY <1>4, <2>2, <2>3, DecisionRight
  <2> QED BY <1>2, <2>4
<1>5. CASE IsZeroCostSkip(c)
  <2>1. Decide(st, c, n, until) = Decision(st, c, n, "zero", Null)
    BY <1>5 DEF Decide
  <2>2. Justified(Deed("zero", Null), until, seen) /\ ~calls[c].named
    BY <1>5 DEF Justified, IsZeroCostSkip
  <2>3. "zero" \in Whats \ {"boundary", "import"}
    BY DEF Whats
  <2>4. Goal(Decision(st, c, n, "zero", Null))
    BY <1>4, <2>2, <2>3
  <2> QED BY <2>1, <2>4
<1>6. CASE ~IsZeroCostSkip(c) /\ IsCutoff(c, until)
  <2>1. Decide(st, c, n, until) = Decision(st, c, n, "cutoff", Null)
    BY <1>6 DEF Decide
  <2>2. Justified(Deed("cutoff", Null), until, seen)
    BY <1>6 DEF Justified
  <2>3. "cutoff" \in Whats \ {"boundary", "import"}
    BY DEF Whats
  <2>4. Goal(Decision(st, c, n, "cutoff", Null))
    BY <1>4, <2>2, <2>3
  <2> QED BY <2>1, <2>4
<1>7. CASE ~IsZeroCostSkip(c) /\ ~IsCutoff(c, until) /\ IsReplay(c, st.seen)
  <2>1. Decide(st, c, n, until) = Decision(st, c, n, "replay", Null)
    BY <1>7 DEF Decide
  <2>2. c \in st.seen
    BY <1>7 DEF IsReplay
  <2>3. c \in seen
    <3> SUFFICES ASSUME c \notin seen PROVE FALSE
      OBVIOUS
    <3>1. PICK i \in 1 .. n : c = log[f][i]
      BY <2>2 DEF Deciding
    <3>2. log[f][i] < log[f][n + 1] /\ log[f][i] \in Nat
      <4>1. i \in DOMAIN log[f] /\ i < n + 1
        BY <3>1, WorldFacts
      <4> QED BY <4>1, WorldFacts DEF World
    <3> QED BY <1>1, <3>1, <3>2
  <2>4. Justified(Deed("replay", Null), until, seen)
    BY <1>7, <2>3 DEF Justified, IsReplay
  <2>5. "replay" \in Whats \ {"boundary", "import"}
    BY DEF Whats
  <2>6. Goal(Decision(st, c, n, "replay", Null))
    BY <1>4, <2>2, <2>4, <2>5
  <2> QED BY <2>1, <2>6
<1>8. CASE /\ ~IsZeroCostSkip(c) /\ ~IsCutoff(c, until) /\ ~IsReplay(c, st.seen)
           /\ match # {}
  <2>1. Decide(st, c, n, until) = Decision([st EXCEPT !.free = st.free \ {first}], c, n, "boundary", first)
    BY <1>8 DEF Decide
  <2>2. \A r \in match : r \in rows /\ r.session = f /\ r.call \in Nat /\ r.call \in DOMAIN calls
    BY <1>2, OwnRows DEF Existing
  <2>3. first \in match
    <3>1. PICK x \in {r.call : r \in match} : \A y \in {r.call : r \in match} : x <= y
      <4>1. {r.call : r \in match} \subseteq Nat /\ {r.call : r \in match} # {}
        BY <1>8, <2>2
      <4> HIDE DEF match
      <4> QED BY <4>1, LeastExists
    <3>2. \E r \in match : \A q \in match : r.call <= q.call
      BY <3>1
    <3> QED BY <3>2
  <2> HIDE DEF first
  <2>4. /\ first \in rows /\ first.session = f /\ RowOK(first) /\ first \in Rows
        /\ Alike(first.call, c)
    <3>1. Matches(first, c)
      BY <2>3
    <3> QED BY <2>2, <2>3, <3>1 DEF Stored, RowOK, Alike, Matches
  <2> DEFINE d == Deed("boundary", first)
  <2>5. "boundary" \in Whats
    BY DEF Whats
  <2>6. d \in Decisions /\ d.call = c /\ d.turn = (n + 1) - 1 /\ d.what = "boundary"
        /\ d.row = first
    BY <1>3, <2>4, <2>5
  <2>7. DecisionOK(d, f, n + 1, FALSE) /\ Justified(d, until, seen)
    <3> HIDE DEF d
    <3>1. Matched(d, f)
      <4>1. Alike(first.call, first.call)
        BY DEF Alike
      <4> QED BY <2>4, <2>6, <4>1 DEF Matched
    <3>2. calls[c].named => c \notin seen
      BY <1>8 DEF IsReplay, Deciding
    <3>3. calls[c].named => Owned(c, f)
      BY <1>1, <3>2 DEF First, OldSeen, Owned
    <3> QED BY <2>6, <3>1, <3>3 DEF DecisionOK, Justified
  <2>8. \A r \in Existing(f) : r \in st.free => r \in st.free \ {first} \/ Alike(r.call, c)
    BY <2>4
  <2>9. st.free \ {first} \subseteq st.free /\ first \in Rows \cup {Null} /\ c = log[f][n + 1]
    BY <2>4
  <2>10. Goal(Decision([st EXCEPT !.free = st.free \ {first}], c, n, "boundary", first))
    BY <2>5, <2>7, <2>8, <2>9, DecisionRight
  <2> QED BY <2>1, <2>10
<1>9. CASE /\ ~IsZeroCostSkip(c) /\ ~IsCutoff(c, until) /\ ~IsReplay(c, st.seen)
           /\ match = {}
  <2>1. Decide(st, c, n, until) = Decision(st, c, n, "import", Null)
    BY <1>9 DEF Decide
  <2> DEFINE d == Deed("import", Null)
  <2>2. "import" \in Whats
    BY DEF Whats
  <2>3. d \in Decisions /\ d.call = c /\ d.turn = (n + 1) - 1 /\ d.what = "import"
    BY <1>3, <2>2
  <2>4. Owned(c, f)
    <3>1. calls[c].named => c \notin seen
      BY <1>9 DEF IsReplay, Deciding
    <3>2. calls[c].named => First(c, f)
      BY <1>1, <3>1 DEF First, OldSeen
    <3> QED BY <1>1, <3>2 DEF Owned
  <2>5. ASSUME c \in Plain, NEW r \in rows, r.call = c, r.session = f PROVE FALSE
    <3>1. r \in Existing(f)
      BY <2>5 DEF Existing
    <3>2. r \notin st.free
      <4>1. Matches(r, c)
        BY <2>5 DEF Matches
      <4> QED BY <1>9, <4>1
    <3>3. PICK i \in 1 .. n : Alike(c, log[f][i])
      BY <2>5, <3>1, <3>2 DEF Deciding
    <3>4. i \in DOMAIN log[f] /\ i < n + 1
      BY <3>3, WorldFacts
    <3>5. log[f][i] < c /\ log[f][i] \in DOMAIN calls /\ log[f][i] \in Nat
      BY <3>4, WorldFacts DEF World
    <3> QED BY <1>1, <2>5, <3>3, <3>5 DEF Plain, Alike
  <2>6. Absent(c, f, FALSE)
    <3>1. ASSUME c \in Plain, NEW r \in rows, r.call = c, calls[c].named PROVE ~OldId(r)
      <4>1. OwnRow(r) /\ r.session \in Files /\ c \in CallsOf(r.session)
        BY <1>1, <3>1, CallRows
      <4>2. First(c, r.session) /\ First(c, f)
        BY <2>4, <3>1, <4>1 DEF OwnRow, Owned
      <4>3. r.session = f
        BY <1>1, <4>1, <4>2, WorldFacts DEF First
      <4> QED BY <2>5, <3>1, <4>3
    <3> QED BY <2>5, <3>1 DEF Absent
  <2>7. DecisionOK(d, f, n + 1, FALSE) /\ Justified(d, until, seen)
    <3> HIDE DEF d
    <3>1. ~IsReplay(c, seen)
      BY <1>9 DEF IsReplay, Deciding
    <3> QED BY <1>9, <2>3, <2>4, <2>6, <3>1 DEF DecisionOK, Justified
  <2>8. \A r \in Existing(f) : r \in st.free => r \in st.free \/ Alike(r.call, c)
    OBVIOUS
  <2>9. Goal(Decision([st EXCEPT !.free = st.free], c, n, "import", Null))
    <3>1. st.free \subseteq st.free /\ Null \in Rows \cup {Null} /\ c = log[f][n + 1]
      OBVIOUS
    <3> QED BY <2>2, <2>7, <2>8, <3>1, DecisionRight
  <2> QED BY <1>2, <2>1, <2>9
<1> QED BY <1>5, <1>6, <1>7, <1>8, <1>9

\* A call is at one turn of its session.
LEMMA SameTurn ==
  ASSUME World, NEW r, NEW q, At(r), At(q), r.session = q.session, r.call = q.call,
         q.session \in Files, r.turn \in Nat, q.turn \in Nat
  PROVE  r.turn = q.turn
<1>1. PICK l : l = log[q.session]
  OBVIOUS
<1>2. /\ r.turn + 1 \in DOMAIN l /\ q.turn + 1 \in DOMAIN l
      /\ l[r.turn + 1] = l[q.turn + 1] /\ l[q.turn + 1] \in Nat
  BY <1>1, WorldFacts DEF At
<1>3. \A i, j \in DOMAIN l : i < j => l[i] < l[j]
  BY <1>1 DEF World
<1>4. ~(r.turn < q.turn) /\ ~(q.turn < r.turn)
  BY <1>2, <1>3
<1> QED BY <1>4

\* What a file's decisions come to.
LEMMA DecidedRight ==
  ASSUME World, Stored, NEW f \in Files, NEW until, NEW seen, seen \subseteq DOMAIN calls,
         OldSeen(f, seen)
  PROVE  Deciding(Decided(f, until, seen), f, until, seen, Len(log[f]))
<1> DEFINE N == Len(log[f])
           u == CHOOSE v : DecideUpTo(f, until, seen, N, v)
           S == {n \in Nat : n <= N => Deciding(u[n], f, until, seen, n)}
<1>1. N \in Nat /\ DOMAIN log[f] = 1 .. N
  BY WorldFacts
<1>2. DecideUpTo(f, until, seen, N, u)
  BY <1>1, DecideUpToExists
<1>3. Decided(f, until, seen) = u[N]
  BY DEF Decided, DecideUpTo
<1> HIDE DEF u
<1>4. 0 \in S
  <2> DEFINE start == [free |-> Existing(f), plan |-> <<>>, seen |-> seen, counts |-> Zero]
  <2>1. u[0] = start
    BY <1>1, <1>2 DEF DecideUpTo
  <2>2. Zero \in Counts /\ \A k \in DOMAIN Zero : Zero[k] = 0
    <3>1. MaxCalls \in Nat
      BY WorldFacts
    <3> QED BY <3>1 DEF Zero, Counts
  <2>3. Cardinality(Boundaries(<<>>, 0, 0)) \in Nat
    BY BoundariesFacts
  <2>4. start \in DecideRecords(f)
    BY <2>2 DEF DecideRecords
  <2>5. Len(<<>>) = 0 /\ 1 .. 0 = {}
    OBVIOUS
  <2>6. Zero.imported = 0 /\ Zero.canonical = 0 /\ Zero.tools = 0 /\ Zero.boundary = 0
    BY DEF Zero
  <2>7. start.free = Existing(f) /\ start.plan = <<>> /\ start.seen = seen /\ start.counts = Zero
    OBVIOUS
  <2> HIDE DEF start
  <2>8. Deciding(start, f, until, seen, 0)
    BY <2>2, <2>3, <2>4, <2>5, <2>6, <2>7 DEF Deciding
  <2> QED BY <2>1, <2>8
<1>5. ASSUME NEW n \in Nat, n \in S PROVE n + 1 \in S
  <2>1. SUFFICES ASSUME n + 1 <= N PROVE Deciding(u[n + 1], f, until, seen, n + 1)
    OBVIOUS
  <2>2. Deciding(u[n], f, until, seen, n) /\ n + 1 \in 0 .. N /\ n + 1 \in DOMAIN log[f]
    BY <1>1, <1>5, <2>1
  <2>3. u[n + 1] = Decide(u[n], log[f][n + 1], n, until)
    <3>1. u[n + 1] = IF n + 1 = 0
                       THEN [free |-> Existing(f), plan |-> <<>>, seen |-> seen, counts |-> Zero]
                       ELSE Decide(u[(n + 1) - 1], log[f][n + 1], (n + 1) - 1, until)
      BY <1>2, <2>2 DEF DecideUpTo
    <3>2. (n + 1) - 1 = n /\ n + 1 # 0
      OBVIOUS
    <3> QED BY <3>1, <3>2
  <2> QED BY <2>2, <2>3, DecideRight
<1> HIDE DEF S
<1>6. N \in S
  BY <1>1, <1>4, <1>5, NatSetInduction
<1> QED BY <1>1, <1>3, <1>6 DEF S

-----------------------------------------------------------------------------
(* The writes of a session                                                 *)

\* The equation that defines the function in WrittenTo.
WriteUpTo(m, u) ==
  u = [i \in 0 .. m |->
         IF i = 0
           THEN [rows |-> rows, tools |-> tools, seenTools |-> run.seenTools, counts |-> run.counts]
           ELSE Written(u[i - 1], run.plan[i], run.file)]

LEMMA WriteUpToExists ==
  ASSUME NEW n \in Nat
  PROVE  \E u : WriteUpTo(n, u)
<1> DEFINE start == [rows |-> rows, tools |-> tools, seenTools |-> run.seenTools,
                     counts |-> run.counts]
           S == {m \in Nat : \E u : WriteUpTo(m, u)}
<1>1. 0 \in S
  <2> DEFINE u == [i \in 0 .. 0 |-> start]
  <2>1. WriteUpTo(0, u)
    BY DEF WriteUpTo
  <2> QED BY <2>1
<1>2. ASSUME NEW m \in Nat, m \in S PROVE m + 1 \in S
  <2>1. PICK u : WriteUpTo(m, u)
    BY <1>2
  <2> DEFINE last == Written(u[m], run.plan[m + 1], run.file)
             v == [i \in 0 .. m + 1 |-> IF i = m + 1 THEN last ELSE u[i]]
  <2>2. ASSUME NEW i \in 0 .. m + 1
        PROVE  v[i] = IF i = 0 THEN start ELSE Written(v[i - 1], run.plan[i], run.file)
    <3>1. CASE i = m + 1
      <4>1. v[i] = last /\ v[i - 1] = u[m] /\ i # 0
        BY <3>1
      <4> QED BY <3>1, <4>1
    <3>2. CASE i # m + 1
      <4>1. i \in 0 .. m /\ v[i] = u[i]
        BY <3>2
      <4>2. i # 0 => v[i - 1] = u[i - 1]
        BY <4>1
      <4>3. u[i] = IF i = 0 THEN start ELSE Written(u[i - 1], run.plan[i], run.file)
        BY <2>1, <4>1 DEF WriteUpTo
      <4> QED BY <4>1, <4>2, <4>3
    <3> QED BY <3>1, <3>2
  <2>3. WriteUpTo(m + 1, v)
    BY <2>2 DEF WriteUpTo
  <2> QED BY <2>3
<1> HIDE DEF S
<1>3. Nat \subseteq S
  BY <1>1, <1>2, NatSetInduction
<1> QED BY <1>3 DEF S

\* What may become of a row: a new id, of its own call if no call is like it.
Kept(r, q) ==
  /\ q.session = r.session /\ q.turn = r.turn /\ q.call = r.call /\ q.by = r.by
  /\ \/ q.id = r.id
     \/ (\E c : q.id = ResponseId(c)) /\ (r.call \in Plain => q.id = ResponseId(r.call))

\* Without imports there are as many rows as before.
AsMany(table, n) ==
  IsFiniteSet(rows) =>
    /\ IsFiniteSet(table)
    /\ (\A j \in 1 .. n : run.plan[j].what # "import") => Cardinality(table) = Cardinality(rows)

\* The row of an imported call.
Arrived(table, c) ==
  \E r \in table : r.call = c /\ (calls[c].named \/ r.session = run.file)

\* The rows after n writes.
RowsRight(table, n) ==
  /\ \A r \in table : RowOK(r) /\ Placed(r, turns \cup TurnsOf(run.file, Len(run.plan)))
  /\ IdsUnique(table)
  /\ \A r, q \in table : (r.call = q.call /\ r.call \in Plain /\ calls[r.call].named) => r = q
  /\ \A r \in rows : \E q \in table : Kept(r, q)
  /\ \A q \in table : OldId(q) => q \in rows
  /\ \A q \in table : Has(rows, q.id) \/ \E j \in 1 .. n :
       q.id = ResponseId(run.plan[j].call) \/ q.id = NoId(run.file, run.plan[j].call)
  /\ \A j \in 1 .. n : (run.plan[j].what = "import" /\ run.plan[j].call \in Plain) =>
       Arrived(table, run.plan[j].call)
  /\ AsMany(table, n)

\* The tool calls with them: the new ones have been seen.
ToolsRight(table, seen, now) ==
  /\ \A t \in table : ToolOK(t)
  /\ \A t, u \in table : t.call = u.call => t = u
  /\ \A t \in table : t.by = "log" => \E r \in now : r.session = t.session /\ Matches(r, t.call)
  /\ \A t \in table : t \in tools \/ t.call \in seen
  /\ tools \subseteq table /\ seen \subseteq DOMAIN calls

CountsRight(counts, n) ==
  /\ counts \in Counts
  /\ counts.imported <= n /\ counts.canonical <= n /\ counts.tools <= n
  /\ counts.boundary <= Cardinality(Boundaries(run.plan, Len(run.plan), n))

Writing(st, n) ==
  /\ st = [rows |-> st.rows, tools |-> st.tools, seenTools |-> st.seenTools, counts |-> st.counts]
  /\ RowsRight(st.rows, n) /\ ToolsRight(st.tools, st.seenTools, st.rows)
  /\ CountsRight(st.counts, n)

\* The decision that is carried out.
LEMMA PlanFacts ==
  ASSUME IInv, run.phase = "write"
  PROVE  /\ run.file \in Files /\ run.plan \in Seq(Decisions) /\ Len(run.plan) \in Nat
         /\ DOMAIN run.plan = 1 .. Len(run.plan) /\ Len(run.plan) <= MaxCalls
         /\ \A i \in DOMAIN run.plan : DecisionOK(run.plan[i], run.file, i, run.stale)
         /\ \A i \in DOMAIN run.plan :
              run.plan[i].call \in CallsOf(run.file) /\ run.plan[i].call \in DOMAIN calls
         /\ \A i, j \in DOMAIN run.plan : run.plan[i].call = run.plan[j].call => i = j
<1>1. run.file \in Files /\ \A i \in DOMAIN run.plan : DecisionOK(run.plan[i], run.file, i, run.stale)
  BY DEF IInv, Planned
<1>2. run.plan \in Seq(Decisions)
  BY DEF IInv, Running, RunRecords
<1>3. Len(run.plan) \in Nat /\ DOMAIN run.plan = 1 .. Len(run.plan)
  BY <1>2
<1>4. \A i \in DOMAIN run.plan :
        i \in DOMAIN log[run.file] /\ run.plan[i].call = log[run.file][i]
  BY <1>1 DEF DecisionOK
<1>5. World
  BY DEF IInv
<1>6. Len(run.plan) <= MaxCalls
  <2>1. CASE Len(run.plan) = 0
    BY <1>5, <2>1, WorldFacts
  <2>2. CASE Len(run.plan) # 0
    <3>1. Len(run.plan) \in DOMAIN log[run.file]
      BY <1>3, <1>4, <2>2
    <3>2. Len(run.plan) <= Len(log[run.file]) /\ Len(log[run.file]) <= Len(calls)
          /\ Len(calls) <= MaxCalls /\ Len(log[run.file]) \in Nat /\ Len(calls) \in Nat
          /\ MaxCalls \in Nat
      BY <1>1, <1>5, <3>1, WorldFacts DEF World
    <3> QED BY <1>3, <3>2
  <2> QED BY <2>1, <2>2
<1>7. \A i \in DOMAIN run.plan :
        run.plan[i].call \in CallsOf(run.file) /\ run.plan[i].call \in DOMAIN calls
  BY <1>1, <1>4, <1>5, WorldFacts DEF CallsOf
<1>8. ASSUME NEW i \in DOMAIN run.plan, NEW j \in DOMAIN run.plan,
             run.plan[i].call = run.plan[j].call
      PROVE  i = j
  <2>1. i \in DOMAIN log[run.file] /\ j \in DOMAIN log[run.file]
        /\ log[run.file][i] = log[run.file][j]
    BY <1>4, <1>8
  <2>2. /\ i < j => log[run.file][i] < log[run.file][j]
        /\ j < i => log[run.file][j] < log[run.file][i]
    BY <1>1, <1>5, <2>1 DEF World
  <2>3. log[run.file][i] \in Nat /\ i \in Nat /\ j \in Nat
    BY <1>1, <1>3, <1>5, <2>1, WorldFacts
  <2> QED BY <2>1, <2>2, <2>3
<1> QED BY <1>1, <1>2, <1>3, <1>6, <1>7, <1>8

\* A row and the one with its id, if that is not the provider's, are of one call.
LEMMA IdTells ==
  ASSUME World, NEW r, NEW q, RowOK(r), RowOK(q), r.id = q.id,
         NEW f \in Files, q.session = f, IsSynthesized(q.id, f)
  PROVE  OwnRow(r) /\ r.call = q.call /\ r.session = f /\ r.call \in DOMAIN calls
<1>1. f # OfLegacy
  BY DEF Files, OfLegacy
<1>2. OwnRow(q)
  BY <1>1 DEF RowOK, LegacyRow
<1>3. \A c : q.id # ResponseId(c) /\ q.id # LegacyId(c)
  BY IdFacts
<1>4. OwnRow(r)
  BY <1>3 DEF RowOK, LegacyRow
<1>5. CASE OldId(q)
  <2>1. q.id = Synthesized(f, q.turn) /\ log[f][q.turn + 1] = q.call
    BY <1>2, <1>5 DEF OldId, OwnRow, At
  <2>2. OldId(r)
    BY <1>3, <1>4, <2>1, IdFacts DEF OwnRow
  <2>3. r.session = f /\ r.turn = q.turn
    BY <2>1, <2>2, IdFacts DEF OldId
  <2> QED BY <1>4, <2>1, <2>3, WorldFacts DEF At, OwnRow, Owned
<1>6. CASE q.id = NoId(f, q.call)
  <2>1. r.id = NoId(r.session, r.call)
    BY <1>3, <1>4, <1>6, IdFacts DEF OwnRow, OldId
  <2> QED BY <1>4, <1>6, <2>1, IdFacts, WorldFacts DEF OwnRow, Owned
<1> QED BY <1>2, <1>3, <1>5, <1>6 DEF OwnRow

\* A row with the id of a message is of its call, or of one like it.
LEMMA IdOfMessage ==
  ASSUME World, NEW r, RowOK(r), NEW f \in Files, NEW c \in DOMAIN calls,
         r.id = HarnessMessageId(f, c)
  PROVE  /\ OwnRow(r) /\ Alike(c, r.call) /\ r.call \in DOMAIN calls
         /\ ~calls[c].named => r.call = c /\ r.session = f
         /\ c \in Plain => r.call = c
<1>1. OwnRow(r)
  BY IdFacts DEF RowOK, LegacyRow, HarnessMessageId
<1>2. r.call \in DOMAIN calls
  BY <1>1, WorldFacts DEF OwnRow, Owned
<1>3. CASE calls[c].named
  <2>1. r.id = ResponseId(c)
    BY <1>3 DEF HarnessMessageId
  <2>2. Alike(c, r.call)
    BY <1>1, <2>1, IdFacts DEF OwnRow, OldId
  <2>3. c \in Plain => r.call = c
    BY <1>2, <2>2 DEF Plain, Alike
  <2> QED BY <1>1, <1>2, <1>3, <2>2, <2>3
<1>4. CASE ~calls[c].named
  <2>1. r.id = NoId(f, c)
    BY <1>4 DEF HarnessMessageId
  <2>2. r.call = c /\ r.session = f
    BY <1>1, <2>1, IdFacts DEF OwnRow, OldId
  <2> QED BY <1>1, <1>2, <2>2 DEF Alike
<1> QED BY <1>3, <1>4

\* An image is finite, and as large where no two come to the same.
LEMMA FiniteImage ==
  ASSUME NEW S, IsFiniteSet(S), NEW g, DOMAIN g = S
  PROVE  /\ IsFiniteSet({g[x] : x \in S})
         /\ (\A x, y \in S : g[x] = g[y] => x = y) =>
              Cardinality({g[x] : x \in S}) = Cardinality(S)
<1> DEFINE h == [x \in S |-> g[x]]
           T == {g[x] : x \in S}
<1>1. h \in Surjection(S, T)
  BY DEF Surjection
<1>2. IsFiniteSet(T) /\ (Cardinality(T) = Cardinality(S) <=> h \in Injection(S, T))
  BY <1>1, FS_Surjection
<1>3. (\A x, y \in S : g[x] = g[y] => x = y) => h \in Injection(S, T)
  BY DEF Injection, IsInjective
<1> QED BY <1>2, <1>3

\* Renaming a row to the provider's id.
LEMMA RenameRight ==
  ASSUME IInv, run.phase = "write", NEW n \in Nat, n + 1 \in DOMAIN run.plan,
         NEW d, d = run.plan[n + 1], NEW R, RowsRight(R, n),
         d.what = "boundary", calls[d.call].named, IsSynthesized(d.row.id, run.file),
         ~Has(R, ResponseId(d.call)),
         NEW R2, R2 = {IF r.id = d.row.id THEN [r EXCEPT !.id = ResponseId(d.call)] ELSE r : r \in R}
  PROVE  RowsRight(R2, n + 1)
<1> DEFINE f == run.file
           New(r) == [r EXCEPT !.id = ResponseId(d.call)]
           To(r) == IF r.id = d.row.id THEN New(r) ELSE r
<1>0. R2 = {To(r) : r \in R}
  OBVIOUS
<1>1. /\ World /\ f \in Files /\ d.call \in DOMAIN calls /\ DecisionOK(d, f, n + 1, run.stale)
      /\ d.call \in Nat
  BY PlanFacts, WorldFacts DEF IInv
<1>2. Matched(d, f)
  BY <1>1 DEF DecisionOK
<1>3. \A r \in R : RowOK(r) /\ Placed(r, turns \cup TurnsOf(run.file, Len(run.plan)))
  BY DEF RowsRight
<1>4. ASSUME NEW r \in R, r.id = d.row.id
      PROVE  OwnRow(r) /\ r.call = d.row.call /\ r.session = f /\ r.call \in DOMAIN calls
             /\ Alike(d.call, r.call)
  <2>1. OwnRow(r) /\ r.call = d.row.call /\ r.session = f /\ r.call \in DOMAIN calls
    BY <1>1, <1>2, <1>3, <1>4, IdTells DEF Matched
  <2> QED BY <1>2, <2>1 DEF Matched, Alike
<1>5. ASSUME NEW r \in R
      PROVE  /\ New(r) \in Rows /\ New(r).id = ResponseId(d.call)
             /\ New(r).session = r.session /\ New(r).turn = r.turn
             /\ New(r).call = r.call /\ New(r).by = r.by
  <2>1. r \in Rows
    BY <1>3 DEF RowOK
  <2>2. ResponseId(d.call) \in Ids
    BY <1>1, IdFacts
  <2> QED BY <2>1, <2>2 DEF Rows
<1> HIDE DEF New
<1>6. \A r \in R : /\ To(r).session = r.session /\ To(r).turn = r.turn
                   /\ To(r).call = r.call /\ To(r).by = r.by
                   /\ To(r).id = r.id \/ (To(r).id = ResponseId(d.call) /\ r.id = d.row.id)
  BY <1>5
<1>7. \A r, q \in R : To(r).id = To(q).id => r = q
  <2>1. \A r, q \in R : r.id = q.id => r = q
    BY DEF RowsRight, IdsUnique
  <2>2. \A r \in R : r.id # ResponseId(d.call)
    BY DEF Has
  <2> QED BY <1>6, <2>1, <2>2
<1>8. ASSUME NEW r \in R PROVE RowOK(To(r))
  <2>1. CASE r.id = d.row.id
    <3> DEFINE q == New(r)
    <3>1. To(r) = q
      BY <2>1
    <3>2. /\ q \in Rows /\ q.id = ResponseId(d.call) /\ q.session = r.session
          /\ q.turn = r.turn /\ q.call = r.call /\ q.by = r.by
      BY <1>5
    <3>3. OwnRow(r) /\ Alike(d.call, r.call) /\ r.session = f
      BY <1>4, <2>1
    <3>4. q.by \in {"live", "log"} /\ Owned(q.call, q.session) /\ At(q)
      BY <3>2, <3>3 DEF OwnRow, At
    <3> HIDE DEF q
    <3>5. \E c \in DOMAIN calls :
            calls[c].named /\ Alike(c, q.call) /\ Owned(c, q.session) /\ q.id = ResponseId(c)
      <4>1. Owned(d.call, f)
        BY <1>1 DEF DecisionOK
      <4> HIDE DEF f
      <4> QED BY <1>1, <3>2, <3>3, <4>1
    <3>6. OwnRow(q)
      BY <3>4, <3>5 DEF OwnRow
    <3> QED BY <3>1, <3>2, <3>6 DEF RowOK
  <2>2. CASE r.id # d.row.id
    BY <1>3, <2>2
  <2> QED BY <2>1, <2>2
<1> HIDE DEF To
<1>9. \A r \in R2 : RowOK(r) /\ Placed(r, turns \cup TurnsOf(run.file, Len(run.plan)))
  BY <1>0, <1>3, <1>6, <1>8 DEF Placed
<1>10. IdsUnique(R2)
  BY <1>0, <1>7 DEF IdsUnique
<1>11. \A r, q \in R2 : (r.call = q.call /\ r.call \in Plain /\ calls[r.call].named) => r = q
  BY <1>0, <1>6 DEF RowsRight
<1>12. ASSUME NEW r \in rows PROVE \E q \in R2 : Kept(r, q)
  <2>1. PICK q \in R : Kept(r, q)
    BY DEF RowsRight
  <2>2. CASE To(q).id = q.id
    BY <1>0, <1>6, <2>1, <2>2 DEF Kept
  <2>3. CASE To(q).id = ResponseId(d.call) /\ q.id = d.row.id
    <3>1. q.id = r.id
      BY <2>1, <2>3, <1>1, IdFacts DEF Kept
    <3>2. r.call = q.call /\ Alike(d.call, q.call) /\ q.call \in DOMAIN calls
      BY <1>4, <2>1, <2>3 DEF Kept
    <3>3. r.call \in Plain => d.call = r.call
      BY <1>1, <3>2 DEF Plain, Alike
    <3>4. Kept(r, To(q))
      BY <1>6, <2>1, <2>3, <3>1, <3>3 DEF Kept
    <3> QED BY <1>0, <3>4
  <2> QED BY <1>6, <2>2, <2>3
<1>13. ASSUME NEW r \in R, OldId(To(r)) PROVE To(r) \in rows
  <2>1. To(r).id = Synthesized(To(r).session, To(r).turn)
    BY <1>13 DEF OldId
  <2>2. To(r).id # ResponseId(d.call)
    BY <2>1, IdFacts
  <2>3. To(r) = r
    BY <1>5, <2>2 DEF To
  <2> QED BY <1>13, <2>3 DEF RowsRight
<1>14. \A q \in R2 : Has(rows, q.id) \/ \E j \in 1 .. n + 1 :
         q.id = ResponseId(run.plan[j].call) \/ q.id = NoId(f, run.plan[j].call)
  <2>1. n + 1 \in 1 .. n + 1 /\ 1 .. n \subseteq 1 .. n + 1
    OBVIOUS
  <2>2. \A r \in R : Has(rows, r.id) \/ \E j \in 1 .. n :
          r.id = ResponseId(run.plan[j].call) \/ r.id = NoId(f, run.plan[j].call)
    BY DEF RowsRight
  <2> HIDE DEF f
  <2> QED BY <1>0, <1>6, <2>1, <2>2
<1>15. \A j \in 1 .. n + 1 : (run.plan[j].what = "import" /\ run.plan[j].call \in Plain) =>
         Arrived(R2, run.plan[j].call)
  <2>1. \A j \in 1 .. n + 1 : j = n + 1 \/ j \in 1 .. n
    OBVIOUS
  <2>2. \A j \in 1 .. n : (run.plan[j].what = "import" /\ run.plan[j].call \in Plain) =>
         Arrived(R, run.plan[j].call)
    BY DEF RowsRight
  <2>3. \A c : Arrived(R, c) => Arrived(R2, c)
    BY <1>0, <1>6 DEF Arrived
  <2> QED BY <2>1, <2>2, <2>3
<1>16. \A q \in R2 : OldId(q) => q \in rows
  BY <1>0, <1>13
<1>17. AsMany(R2, n + 1)
  <2>1. SUFFICES ASSUME IsFiniteSet(rows) PROVE AsMany(R2, n + 1)
    BY DEF AsMany
  <2>2. IsFiniteSet(R) /\ AsMany(R, n)
    BY <2>1 DEF RowsRight, AsMany
  <2> DEFINE g == [r \in R |-> To(r)]
  <2>3. \A p, q \in R : g[p] = g[q] => p = q
    BY <1>7
  <2>4. R2 = {g[r] : r \in R}
    BY <1>0
  <2> HIDE DEF g
  <2>5. IsFiniteSet(R2) /\ Cardinality(R2) = Cardinality(R)
    <3>1. DOMAIN g = R
      BY DEF g
    <3> QED BY <2>2, <2>3, <2>4, <3>1, FiniteImage
  <2>6. 1 .. n \subseteq 1 .. n + 1
    OBVIOUS
  <2> QED BY <2>1, <2>2, <2>5, <2>6 DEF AsMany
<1> QED BY <1>9, <1>10, <1>11, <1>12, <1>14, <1>15, <1>16, <1>17 DEF RowsRight

\* A decision that leaves the rows alone.
LEMMA StayRight ==
  ASSUME IInv, run.phase = "write", NEW n \in Nat, n + 1 \in DOMAIN run.plan,
         NEW d, d = run.plan[n + 1], NEW R, RowsRight(R, n),
         d.what = "import" => Has(R, HarnessMessageId(run.file, d.call))
  PROVE  RowsRight(R, n + 1)
<1>1. /\ World /\ run.file \in Files /\ d.call \in DOMAIN calls
  BY PlanFacts DEF IInv
<1>2. ASSUME d.what = "import", d.call \in Plain PROVE Arrived(R, d.call)
  <2>1. PICK r \in R : r.id = HarnessMessageId(run.file, d.call)
    BY <1>2 DEF Has
  <2>2. RowOK(r)
    BY DEF RowsRight
  <2>3. r.call = d.call /\ (~calls[d.call].named => r.session = run.file)
    BY <1>1, <1>2, <2>1, <2>2, IdOfMessage
  <2> QED BY <2>3 DEF Arrived
<1>3. \A j \in 1 .. n + 1 : j = n + 1 \/ j \in 1 .. n
  OBVIOUS
<1>4. 1 .. n \subseteq 1 .. n + 1
  OBVIOUS
<1>5. \A q \in R : Has(rows, q.id) \/ \E j \in 1 .. n + 1 :
        q.id = ResponseId(run.plan[j].call) \/ q.id = NoId(run.file, run.plan[j].call)
  BY <1>4 DEF RowsRight
<1>6. \A j \in 1 .. n + 1 : (run.plan[j].what = "import" /\ run.plan[j].call \in Plain) =>
         Arrived(R, run.plan[j].call)
  BY <1>2, <1>3 DEF RowsRight
<1>7. AsMany(R, n + 1)
  BY <1>4 DEF RowsRight, AsMany
<1> QED BY <1>5, <1>6, <1>7 DEF RowsRight

\* A row that is inserted.
LEMMA InsertRight ==
  ASSUME IInv, run.phase = "write", NEW n \in Nat, n + 1 \in DOMAIN run.plan,
         NEW d, d = run.plan[n + 1], NEW R, RowsRight(R, n), d.what = "import",
         NEW r, r = Row(HarnessMessageId(run.file, d.call), run.file, d.turn, d.call, "log"),
         ~Has(R, r.id)
  PROVE  RowsRight(R \cup {r}, n + 1)
<1> DEFINE f == run.file
           c == d.call
           R2 == R \cup {r}
<1>1. /\ World /\ f \in Files /\ c \in DOMAIN calls /\ DecisionOK(d, f, n + 1, run.stale)
      /\ c \in Nat /\ f \in Nat
  BY PlanFacts, WorldFacts DEF IInv
<1>2. /\ d.turn = n /\ Owned(c, f) /\ Absent(c, f, run.stale)
      /\ n + 1 \in DOMAIN log[f] /\ log[f][n + 1] = c
  BY <1>1 DEF DecisionOK
<1>3. /\ r.id = HarnessMessageId(f, c) /\ r.session = f /\ r.turn = n /\ r.call = c
      /\ r.by = "log" /\ r = [id |-> r.id, session |-> f, turn |-> n, call |-> c, by |-> "log"]
  BY <1>2 DEF Row
<1> HIDE DEF f, c
<1>4. r.id \in Ids
  <2>1. r.id = ResponseId(c) \/ r.id = NoId(f, c)
    BY <1>3 DEF HarnessMessageId
  <2> QED BY <1>1, <2>1, IdFacts
<1>5. r \in Rows
  BY <1>1, <1>3, <1>4 DEF Rows
<1>6. OwnRow(r)
  <2>0. At(r)
    BY <1>2, <1>3 DEF At
  <2>1. CASE calls[c].named
    <3>1. r.id = ResponseId(c) /\ Alike(c, r.call)
      BY <1>3, <2>1 DEF HarnessMessageId, Alike
    <3> QED BY <1>1, <1>2, <1>3, <2>0, <2>1, <3>1 DEF OwnRow
  <2>2. CASE ~calls[c].named
    <3>1. r.id = NoId(f, c)
      BY <1>3, <2>2 DEF HarnessMessageId
    <3> QED BY <1>2, <1>3, <2>0, <2>2, <3>1 DEF OwnRow
  <2> QED BY <2>1, <2>2
<1>7. Placed(r, turns \cup TurnsOf(run.file, Len(run.plan)))
  <2>1. n \in 0 .. Len(run.plan) - 1
    BY PlanFacts
  <2> QED BY <1>3, <2>1 DEF Placed, TurnsOf, f
<1>8. \A q \in R2 : RowOK(q) /\ Placed(q, turns \cup TurnsOf(run.file, Len(run.plan)))
  BY <1>5, <1>6, <1>7 DEF RowOK, RowsRight
<1>9. IdsUnique(R2)
  BY DEF RowsRight, IdsUnique, Has
<1>10. ASSUME NEW q \in R, q.call = c, c \in Plain, calls[c].named PROVE FALSE
  <2>1. RowOK(q)
    BY DEF RowsRight
  <2>2. OwnRow(q)
    BY <1>1, <1>10, <2>1 DEF RowOK, LegacyRow
  <2>3. ~OldId(q)
    <3>1. SUFFICES ASSUME OldId(q) PROVE FALSE
      OBVIOUS
    <3>2. q \in rows
      BY <3>1 DEF RowsRight
    <3> QED BY <1>2, <1>10, <3>1, <3>2 DEF Absent
  <2>4. PICK e \in DOMAIN calls : Alike(e, c) /\ q.id = ResponseId(e)
    BY <1>10, <2>2, <2>3 DEF OwnRow
  <2>5. e = c
    BY <1>10, <2>4 DEF Plain, Alike
  <2>6. q.id = r.id
    BY <1>3, <1>10, <2>4, <2>5 DEF HarnessMessageId
  <2> QED BY <2>6 DEF Has
<1>11. \A p, q \in R2 : (p.call = q.call /\ p.call \in Plain /\ calls[p.call].named) => p = q
  BY <1>3, <1>10 DEF RowsRight
<1>12. \A p \in rows : \E q \in R2 : Kept(p, q)
  BY DEF RowsRight
<1>13. \A q \in R2 : OldId(q) => q \in rows
  <2>1. ~OldId(r)
    <3>1. r.id = ResponseId(c) \/ r.id = NoId(f, c)
      BY <1>3 DEF HarnessMessageId
    <3>2. \A g, i : r.id # Synthesized(g, i)
      BY <3>1, IdFacts
    <3> QED BY <3>2 DEF OldId
  <2> QED BY <2>1 DEF RowsRight
<1>14. \A q \in R2 : Has(rows, q.id) \/ \E j \in 1 .. n + 1 :
         q.id = ResponseId(run.plan[j].call) \/ q.id = NoId(run.file, run.plan[j].call)
  <2>1. n + 1 \in 1 .. n + 1 /\ 1 .. n \subseteq 1 .. n + 1
    OBVIOUS
  <2>2. r.id = ResponseId(run.plan[n + 1].call) \/ r.id = NoId(run.file, run.plan[n + 1].call)
    BY <1>3 DEF HarnessMessageId, f, c
  <2>3. \A q \in R : Has(rows, q.id) \/ \E j \in 1 .. n :
          q.id = ResponseId(run.plan[j].call) \/ q.id = NoId(run.file, run.plan[j].call)
    BY DEF RowsRight
  <2> QED BY <2>1, <2>2, <2>3
<1>15. \A j \in 1 .. n + 1 : (run.plan[j].what = "import" /\ run.plan[j].call \in Plain) =>
         Arrived(R2, run.plan[j].call)
  <2>1. \A j \in 1 .. n + 1 : j = n + 1 \/ j \in 1 .. n
    OBVIOUS
  <2>2. Arrived(R2, run.plan[n + 1].call)
    BY <1>3 DEF Arrived, c, f
  <2>3. \A j \in 1 .. n : (run.plan[j].what = "import" /\ run.plan[j].call \in Plain) =>
         Arrived(R, run.plan[j].call)
    BY DEF RowsRight
  <2>4. \A e : Arrived(R, e) => Arrived(R2, e)
    BY DEF Arrived
  <2> QED BY <2>1, <2>2, <2>3, <2>4
<1>16. AsMany(R2, n + 1)
  <2>1. IsFiniteSet(rows) => IsFiniteSet(R2)
    BY FS_AddElement DEF RowsRight, AsMany
  <2>2. n + 1 \in 1 .. n + 1
    OBVIOUS
  <2> QED BY <2>1, <2>2 DEF AsMany
<1> QED BY <1>8, <1>9, <1>11, <1>12, <1>13, <1>14, <1>15, <1>16 DEF RowsRight

\* One is added to the counts of the writes.
LEMMA CountWritten ==
  ASSUME IInv, run.phase = "write", NEW n \in Nat, n + 1 \in DOMAIN run.plan,
         NEW counts, CountsRight(counts, n)
  PROVE  /\ CountsRight(counts, n + 1)
         /\ CountsRight(Count(counts, "canonical"), n + 1)
         /\ CountsRight(Count(counts, "imported"), n + 1)
         /\ CountsRight(Count(Count(counts, "imported"), "tools"), n + 1)
         /\ run.plan[n + 1].what = "import" => CountsRight(Count(counts, "boundary"), n + 1)
<1> DEFINE M == Len(run.plan)
           S == Boundaries(run.plan, M, n)
           T == Boundaries(run.plan, M, n + 1)
           B(c) == c.boundary <= Cardinality(T)
           One(k) == Count(counts, k)
<1>1. MaxCalls \in Nat /\ M \in Nat /\ M <= MaxCalls /\ n < M /\ n + 1 \in 1 .. M
      /\ \A k \in DOMAIN Zero : counts[k] \in 0 .. MaxCalls
  <2>1. MaxCalls \in Nat
    BY WorldFacts DEF IInv
  <2>2. \A k \in DOMAIN Zero : counts[k] \in 0 .. MaxCalls
    BY DEF CountsRight, Counts
  <2> QED BY <2>1, <2>2, PlanFacts
<1>2. /\ IsFiniteSet(T) /\ Cardinality(T) \in Nat /\ Cardinality(S) \in Nat
      /\ Cardinality(T) <= M /\ S \subseteq T
      /\ run.plan[n + 1].what = "import" => n + 1 \in T /\ n + 1 \notin S
  <2>1. S \subseteq T /\ (run.plan[n + 1].what = "import" => n + 1 \in T /\ n + 1 \notin S)
    BY <1>1 DEF Boundaries
  <2> QED BY <1>1, <2>1, BoundariesFacts
<1>3. /\ Cardinality(S) <= Cardinality(T)
      /\ run.plan[n + 1].what = "import" => Cardinality(S) + 1 <= Cardinality(T)
  <2> HIDE DEF S, T
  <2> QED BY <1>2, OneMore
<1>4. /\ counts \in Counts /\ counts.imported <= n /\ counts.canonical <= n /\ counts.tools <= n
      /\ counts.boundary <= Cardinality(S)
  BY DEF CountsRight
<1>5. /\ counts.boundary \in Nat /\ counts.imported \in Nat /\ counts.canonical \in Nat
      /\ counts.tools \in Nat
  BY <1>1, ZeroKeys
<1> HIDE DEF S
<1>6. ASSUME NEW c \in Counts, c.imported <= n + 1, c.canonical <= n + 1, c.tools <= n + 1, B(c)
      PROVE  CountsRight(c, n + 1)
  BY <1>6 DEF CountsRight
<1>7. CountsRight(counts, n + 1)
  <2>1. B(counts)
    BY <1>2, <1>3, <1>4, <1>5
  <2> HIDE DEF T
  <2> QED BY <1>4, <1>5, <1>6, <2>1
<1> HIDE DEF T
<1>8. \A k \in DOMAIN Zero : counts[k] < MaxCalls =>
        /\ One(k) \in Counts /\ One(k)[k] = counts[k] + 1
        /\ \A j \in DOMAIN Zero \ {k} : One(k)[j] = counts[j]
  BY <1>1, <1>4, CountAdds
<1> HIDE DEF One
<1>9. CountsRight(One("canonical"), n + 1)
  <2> DEFINE c == One("canonical")
  <2>1. counts.canonical < MaxCalls
    BY <1>1, <1>4, <1>5
  <2>2. /\ c \in Counts /\ c.canonical = counts.canonical + 1
        /\ c.imported = counts.imported /\ c.tools = counts.tools /\ c.boundary = counts.boundary
    BY <1>8, <2>1, ZeroKeys
  <2>3. c.imported <= n + 1 /\ c.canonical <= n + 1 /\ c.tools <= n + 1 /\ B(c)
    BY <1>2, <1>3, <1>4, <1>5, <2>2
  <2> HIDE DEF c
  <2> QED BY <1>6, <2>2, <2>3 DEF c
<1>10. /\ One("imported") \in Counts /\ One("imported").imported = counts.imported + 1
       /\ One("imported").canonical = counts.canonical /\ One("imported").tools = counts.tools
       /\ One("imported").boundary = counts.boundary
  <2>1. counts.imported < MaxCalls
    BY <1>1, <1>4, <1>5
  <2> QED BY <1>8, <2>1, ZeroKeys
<1>11. CountsRight(One("imported"), n + 1)
  <2> DEFINE c == One("imported")
  <2>1. c.imported <= n + 1 /\ c.canonical <= n + 1 /\ c.tools <= n + 1 /\ B(c)
    BY <1>2, <1>3, <1>4, <1>5, <1>10
  <2> HIDE DEF c
  <2> QED BY <1>6, <1>10, <2>1 DEF c
<1>12. CountsRight(Count(One("imported"), "tools"), n + 1)
  <2> DEFINE one == One("imported")
             c == Count(one, "tools")
  <2>1. one.tools < MaxCalls /\ "tools" \in DOMAIN Zero /\ one \in Counts
    BY <1>1, <1>4, <1>5, <1>10, ZeroKeys
  <2> HIDE DEF one
  <2>2. /\ c \in Counts /\ c["tools"] = one["tools"] + 1
        /\ \A j \in DOMAIN Zero \ {"tools"} : c[j] = one[j]
    BY <1>1, <2>1, CountAdds
  <2>3. /\ c.tools = counts.tools + 1 /\ c.imported = counts.imported + 1
        /\ c.canonical = counts.canonical /\ c.boundary = counts.boundary
    BY <1>10, <2>2, ZeroKeys DEF one
  <2>4. c.imported <= n + 1 /\ c.canonical <= n + 1 /\ c.tools <= n + 1 /\ B(c)
    BY <1>2, <1>3, <1>4, <1>5, <2>3
  <2> HIDE DEF c
  <2> QED BY <1>6, <2>2, <2>4 DEF c, one
<1>13. ASSUME run.plan[n + 1].what = "import" PROVE CountsRight(One("boundary"), n + 1)
  <2> DEFINE c == One("boundary")
  <2>1. counts.boundary < MaxCalls
    BY <1>1, <1>2, <1>3, <1>4, <1>5, <1>13
  <2>2. /\ c \in Counts /\ c.boundary = counts.boundary + 1
        /\ c.imported = counts.imported /\ c.tools = counts.tools
        /\ c.canonical = counts.canonical
    BY <1>8, <2>1, ZeroKeys
  <2>3. c.imported <= n + 1 /\ c.canonical <= n + 1 /\ c.tools <= n + 1 /\ B(c)
    BY <1>2, <1>3, <1>4, <1>5, <1>13, <2>2
  <2> HIDE DEF c
  <2> QED BY <1>6, <2>2, <2>3 DEF c
<1> QED BY <1>7, <1>9, <1>11, <1>12, <1>13 DEF One

\* What a renamed, an inserted and an ignored row make of the state.
StateOf(R, T, S, C) == [rows |-> R, tools |-> T, seenTools |-> S, counts |-> C]

\* What is left of a state by a write, in its cases.
Outcome(new, R, T, S, C, d, f) ==
  LET r == Row(HarnessMessageId(f, d.call), f, d.turn, d.call, "log")
      renames == /\ d.what = "boundary" /\ calls[d.call].named /\ IsSynthesized(d.row.id, f)
                 /\ ~Has(R, ResponseId(d.call))
      seen == d.call \in S \/ \E t \in T : t.call = d.call
  IN
  /\ (d.what # "import" /\ ~renames) => new = StateOf(R, T, S, C)
  /\ renames =>
       new = StateOf({IF q.id = d.row.id THEN [q EXCEPT !.id = ResponseId(d.call)] ELSE q : q \in R},
                     T, S, Count(C, "canonical"))
  /\ (d.what = "import" /\ Has(R, r.id)) => new = StateOf(R, T, S, Count(C, "boundary"))
  /\ (d.what = "import" /\ ~Has(R, r.id) /\ seen) =>
       new = StateOf(R \cup {r}, T, S, Count(C, "imported"))
  /\ (d.what = "import" /\ ~Has(R, r.id) /\ ~seen) =>
       new = StateOf(R \cup {r}, T \cup {[call |-> d.call, session |-> f, by |-> "log"]},
                     S \cup {d.call}, Count(Count(C, "imported"), "tools"))

LEMMA WrittenEffect ==
  ASSUME NEW R, NEW T, NEW S, NEW C, NEW d, NEW f, NEW st, st = StateOf(R, T, S, C)
  PROVE  Outcome(Written(st, d, f), R, T, S, C, d, f)
<1> DEFINE r == Row(HarnessMessageId(f, d.call), f, d.turn, d.call, "log")
<1>0. /\ st.rows = R /\ st.tools = T /\ st.seenTools = S /\ st.counts = C
      /\ r.id = HarnessMessageId(f, d.call)
  BY DEF StateOf, Row
<1>1. st \in [rows : {R}, tools : {T}, seenTools : {S}, counts : {C}]
  BY DEF StateOf
<1> HIDE DEF r
<1> DEFINE Ren == {IF q.id = d.row.id THEN [q EXCEPT !.id = ResponseId(d.call)] ELSE q : q \in R}
           Renames == /\ d.what = "boundary" /\ calls[d.call].named /\ IsSynthesized(d.row.id, f)
                      /\ ~Has(R, ResponseId(d.call))
<1>2. ASSUME ~Renames PROVE Canonicalized(st, d, f) = st
  BY <1>0, <1>2 DEF Canonicalized
<1>3. ASSUME Renames PROVE Canonicalized(st, d, f) = StateOf(Ren, T, S, Count(C, "canonical"))
  <2> DEFINE x == Canonicalized(st, d, f)
             c2 == Count(C, "canonical")
  <2>1. x = [st EXCEPT !.rows = Ren, !.counts = c2]
    BY <1>0, <1>3 DEF Canonicalized
  <2> HIDE DEF x, Ren, c2
  <2>2. x = [rows |-> Ren, tools |-> st.tools, seenTools |-> st.seenTools, counts |-> c2]
    BY <1>1, <2>1
  <2> QED BY <1>0, <2>2 DEF StateOf, x, c2
<1> HIDE DEF Ren, Renames
<1>4. ASSUME Has(R, r.id) PROVE Inserted(st, r) = StateOf(R, T, S, Count(C, "boundary"))
  <2> DEFINE x == Inserted(st, r)
             c2 == Count(C, "boundary")
  <2>1. x = [st EXCEPT !.counts = c2]
    BY <1>0, <1>4 DEF Inserted
  <2> HIDE DEF x, c2
  <2>2. x = [rows |-> st.rows, tools |-> st.tools, seenTools |-> st.seenTools, counts |-> c2]
    BY <1>1, <2>1
  <2> QED BY <1>0, <2>2 DEF StateOf, x, c2
<1>5. ASSUME ~Has(R, r.id) PROVE Inserted(st, r) = StateOf(R \cup {r}, T, S, Count(C, "imported"))
  <2> DEFINE x == Inserted(st, r)
             R2 == R \cup {r}
             c2 == Count(C, "imported")
  <2>1. x = [st EXCEPT !.rows = R2, !.counts = c2]
    BY <1>0, <1>5 DEF Inserted
  <2> HIDE DEF x, R2, c2
  <2>2. x = [rows |-> R2, tools |-> st.tools, seenTools |-> st.seenTools, counts |-> c2]
    BY <1>1, <2>1
  <2> QED BY <1>0, <2>2 DEF StateOf, x, c2, R2
<1> DEFINE s0 == StateOf(R \cup {r}, T, S, Count(C, "imported"))
           Seen == d.call \in S \/ \E t \in T : t.call = d.call
<1>6. /\ s0.rows = R \cup {r} /\ s0.tools = T /\ s0.seenTools = S /\ s0.counts = Count(C, "imported")
      /\ s0 \in [rows : {R \cup {r}}, tools : {T}, seenTools : {S}, counts : {Count(C, "imported")}]
  BY DEF StateOf
<1> HIDE DEF s0
<1>7. ASSUME Seen PROVE WithTool(s0, d, f) = s0
  BY <1>6, <1>7 DEF WithTool
<1>8. ASSUME ~Seen
      PROVE  WithTool(s0, d, f) =
               StateOf(R \cup {r}, T \cup {[call |-> d.call, session |-> f, by |-> "log"]},
                       S \cup {d.call}, Count(Count(C, "imported"), "tools"))
  <2> DEFINE x == WithTool(s0, d, f)
             T2 == T \cup {[call |-> d.call, session |-> f, by |-> "log"]}
             S2 == S \cup {d.call}
             c2 == Count(Count(C, "imported"), "tools")
  <2>1. x = [s0 EXCEPT !.tools = T2, !.seenTools = S2, !.counts = c2]
    BY <1>6, <1>8 DEF WithTool
  <2> HIDE DEF x, T2, S2, c2
  <2>2. x = [rows |-> s0.rows, tools |-> T2, seenTools |-> S2, counts |-> c2]
    BY <1>6, <2>1
  <2> QED BY <1>6, <2>2 DEF StateOf, x, T2, S2, c2
<1>9. d.what # "import" => Written(st, d, f) = Canonicalized(st, d, f)
  BY DEF Written
<1>10. (d.what = "import" /\ Has(R, r.id)) => Written(st, d, f) = Inserted(st, r)
  BY <1>0 DEF Written, r
<1>11. (d.what = "import" /\ ~Has(R, r.id)) => Written(st, d, f) = WithTool(s0, d, f)
  <2>1. (d.what = "import" /\ ~Has(R, r.id)) => Written(st, d, f) = WithTool(Inserted(st, r), d, f)
    BY <1>0 DEF Written, r
  <2> QED BY <1>5, <2>1 DEF s0
<1> HIDE DEF Seen
<1>12. (d.what # "import" /\ ~Renames) => Written(st, d, f) = st
  BY <1>2, <1>9
<1>13. Renames => Written(st, d, f) = StateOf(Ren, T, S, Count(C, "canonical"))
  <2>1. Renames => d.what # "import"
    BY DEF Renames
  <2> QED BY <1>3, <1>9, <2>1
<1>14. (d.what = "import" /\ Has(R, r.id)) => Written(st, d, f) = StateOf(R, T, S, Count(C, "boundary"))
  BY <1>4, <1>10
<1>15. (d.what = "import" /\ ~Has(R, r.id) /\ Seen) => Written(st, d, f) = s0
  BY <1>7, <1>11
<1>16. (d.what = "import" /\ ~Has(R, r.id) /\ ~Seen) =>
         Written(st, d, f) =
           StateOf(R \cup {r}, T \cup {[call |-> d.call, session |-> f, by |-> "log"]},
                   S \cup {d.call}, Count(Count(C, "imported"), "tools"))
  BY <1>8, <1>11
<1> QED BY <1>12, <1>13, <1>14, <1>15, <1>16 DEF Outcome, Ren, Renames, Seen, s0, r

\* Each write is right.
LEMMA WrittenRight ==
  ASSUME IInv, run.phase = "write", NEW n \in Nat, n + 1 \in DOMAIN run.plan,
         NEW st, Writing(st, n)
  PROVE  Writing(Written(st, run.plan[n + 1], run.file), n + 1)
<1> DEFINE d == run.plan[n + 1]
           f == run.file
           R == st.rows
           T == st.tools
           S == st.seenTools
           C == st.counts
           r == Row(HarnessMessageId(f, d.call), f, d.turn, d.call, "log")
           new == Written(st, d, f)
           Goal == Writing(new, n + 1)
<1>1. st = StateOf(R, T, S, C) /\ RowsRight(R, n) /\ ToolsRight(T, S, R) /\ CountsRight(C, n)
  BY DEF Writing, StateOf
<1>2. /\ World /\ f \in Files /\ d.call \in DOMAIN calls /\ DecisionOK(d, f, n + 1, run.stale)
  BY PlanFacts DEF IInv
<1>3. /\ CountsRight(C, n + 1)
      /\ CountsRight(Count(C, "canonical"), n + 1)
      /\ CountsRight(Count(C, "imported"), n + 1)
      /\ CountsRight(Count(Count(C, "imported"), "tools"), n + 1)
      /\ d.what = "import" => CountsRight(Count(C, "boundary"), n + 1)
  BY <1>1, CountWritten
<1>4. ASSUME NEW R2, NEW T2, NEW S2, NEW C2, new = StateOf(R2, T2, S2, C2),
             RowsRight(R2, n + 1), ToolsRight(T2, S2, R2), CountsRight(C2, n + 1)
      PROVE  Goal
  <2> HIDE DEF new
  <2>1. /\ new.rows = R2 /\ new.tools = T2 /\ new.seenTools = S2 /\ new.counts = C2
        /\ new = [rows |-> new.rows, tools |-> new.tools, seenTools |-> new.seenTools,
                  counts |-> new.counts]
    BY <1>4 DEF StateOf
  <2> QED BY <1>4, <2>1 DEF Writing
<1> DEFINE Renames == /\ d.what = "boundary" /\ calls[d.call].named /\ IsSynthesized(d.row.id, f)
                      /\ ~Has(R, ResponseId(d.call))
           Seen == d.call \in S \/ \E t \in T : t.call = d.call
           Ren == {IF q.id = d.row.id THEN [q EXCEPT !.id = ResponseId(d.call)] ELSE q : q \in R}
           tool == [call |-> d.call, session |-> f, by |-> "log"]
<1>5. /\ (d.what # "import" /\ ~Renames) => new = StateOf(R, T, S, C)
      /\ Renames => new = StateOf(Ren, T, S, Count(C, "canonical"))
      /\ (d.what = "import" /\ Has(R, r.id)) => new = StateOf(R, T, S, Count(C, "boundary"))
      /\ (d.what = "import" /\ ~Has(R, r.id) /\ Seen) =>
           new = StateOf(R \cup {r}, T, S, Count(C, "imported"))
      /\ (d.what = "import" /\ ~Has(R, r.id) /\ ~Seen) =>
           new = StateOf(R \cup {r}, T \cup {tool}, S \cup {d.call},
                         Count(Count(C, "imported"), "tools"))
  <2> HIDE DEF d, f, R, T, S, C, new
  <2>1. Outcome(new, R, T, S, C, d, f)
    BY <1>1, WrittenEffect DEF new
  <2> QED BY <2>1 DEF Outcome
<1>0. r.id = HarnessMessageId(f, d.call)
  BY DEF Row
<1> HIDE DEF new
<1> SUFFICES Goal
  BY DEF new
<1>6. CASE d.what # "import" /\ ~Renames
  <2>1. RowsRight(R, n + 1)
    BY <1>1, <1>6, StayRight
  <2> QED BY <1>1, <1>3, <1>4, <1>5, <1>6, <2>1
<1>7. CASE Renames
  <2>1. RowsRight(Ren, n + 1)
    BY <1>1, <1>7, RenameRight
  <2>2. \A q \in R : \E p \in Ren : p.session = q.session /\ \A c : Matches(q, c) => Matches(p, c)
    <3>1. \A q \in R : [q EXCEPT !.id = ResponseId(d.call)].call = q.call
                       /\ [q EXCEPT !.id = ResponseId(d.call)].session = q.session
      <4>1. \A q \in R : q \in Rows
        BY <1>1 DEF RowsRight, RowOK
      <4> QED BY <4>1 DEF Rows
    <3>2. \A q \in R : \E p \in Ren : p.call = q.call /\ p.session = q.session
      BY <3>1
    <3> HIDE DEF Ren
    <3> QED BY <3>2 DEF Matches
  <2>3. ToolsRight(T, S, Ren)
    <3> HIDE DEF Ren
    <3>1. \A t \in T : t.by = "log" => \E p \in Ren : p.session = t.session /\ Matches(p, t.call)
      BY <1>1, <2>2 DEF ToolsRight
    <3> QED BY <1>1, <3>1 DEF ToolsRight
  <2> HIDE DEF Renames, Ren
  <2> QED BY <1>3, <1>4, <1>5, <1>7, <2>1, <2>3
<1> HIDE DEF Ren, Renames
<1>8. CASE d.what = "import" /\ Has(R, r.id)
  <2>1. RowsRight(R, n + 1)
    BY <1>0, <1>1, <1>8, StayRight
  <2> QED BY <1>1, <1>3, <1>4, <1>5, <1>8, <2>1
<1>9. CASE d.what = "import" /\ ~Has(R, r.id)
  <2>1. RowsRight(R \cup {r}, n + 1)
    BY <1>1, <1>9, InsertRight
  <2>2. r \in R \cup {r} /\ Matches(r, d.call) /\ r.session = f
    BY DEF Row, Matches
  <2>3. CASE Seen
    <3>1. ToolsRight(T, S, R \cup {r})
      BY <1>1 DEF ToolsRight
    <3> HIDE DEF Seen
    <3> QED BY <1>3, <1>4, <1>5, <1>9, <2>1, <2>3, <3>1
  <2>4. CASE ~Seen
    <3>1. ToolOK(tool) /\ tool.call = d.call /\ tool.session = f
      <4>1. Owned(d.call, f) /\ d.call \in Int /\ f \in Nat
        BY <1>2, <1>9, WorldFacts DEF DecisionOK
      <4> HIDE DEF d, f
      <4> QED BY <4>1 DEF ToolOK, ToolRows
    <3> HIDE DEF tool, r
    <3>2. ToolsRight(T \cup {tool}, S \cup {d.call}, R \cup {r})
      <4>1. \A t \in T \cup {tool} : ToolOK(t)
        BY <1>1, <3>1 DEF ToolsRight
      <4>2. \A t, u \in T \cup {tool} : t.call = u.call => t = u
        BY <1>1, <2>4, <3>1 DEF ToolsRight
      <4>3. \A t \in T \cup {tool} : t.by = "log" =>
              \E q \in R \cup {r} : q.session = t.session /\ Matches(q, t.call)
        BY <1>1, <2>2, <3>1 DEF ToolsRight
      <4>4. \A t \in T \cup {tool} : t \in tools \/ t.call \in S \cup {d.call}
        BY <1>1, <3>1 DEF ToolsRight
      <4>5. tools \subseteq T \cup {tool} /\ S \cup {d.call} \subseteq DOMAIN calls
        BY <1>1, <1>2 DEF ToolsRight
      <4> QED BY <4>1, <4>2, <4>3, <4>4, <4>5 DEF ToolsRight
    <3> HIDE DEF Seen
    <3> QED BY <1>3, <1>4, <1>5, <1>9, <2>1, <2>4, <3>2
  <2> QED BY <2>3, <2>4
<1> QED BY <1>6, <1>7, <1>8, <1>9 DEF Renames

\* Before the first write, everything is as it was.
LEMMA WriteStarts ==
  ASSUME IInv, run.phase = "write"
  PROVE  Writing([rows |-> rows, tools |-> tools, seenTools |-> run.seenTools,
                  counts |-> run.counts], 0)
<1> DEFINE st == [rows |-> rows, tools |-> tools, seenTools |-> run.seenTools,
                  counts |-> run.counts]
<1>1. /\ st.rows = rows /\ st.tools = tools /\ st.seenTools = run.seenTools
      /\ st.counts = run.counts
      /\ st = [rows |-> st.rows, tools |-> st.tools, seenTools |-> st.seenTools,
               counts |-> st.counts]
  OBVIOUS
<1>2. RowsRight(rows, 0)
  <2>1. \A r \in rows : RowOK(r) /\ Placed(r, turns \cup TurnsOf(run.file, Len(run.plan)))
    BY DEF IInv, Stored, Placed
  <2>2. \A r, q \in rows : (r.call = q.call /\ r.call \in Plain /\ calls[r.call].named) => r = q
    BY DEF IInv, OnceEach
  <2>3. \A r \in rows : Kept(r, r)
    BY DEF Kept
  <2>4. \A r \in rows : Has(rows, r.id)
    BY DEF Has
  <2>5. \A j : j \notin 1 .. 0
    OBVIOUS
  <2>6. AsMany(rows, 0)
    BY DEF AsMany
  <2> QED BY <2>1, <2>2, <2>3, <2>4, <2>5, <2>6 DEF RowsRight, IInv, Stored
<1>3. ToolsRight(tools, run.seenTools, rows)
  <2>1. run.seenTools \subseteq DOMAIN calls
    BY DEF IInv, Running, RunRecords
  <2> QED BY <2>1 DEF ToolsRight, IInv, Tooled, ToolsFollow
<1>4. CountsRight(run.counts, 0)
  <2>1. run.counts \in Counts
    BY DEF IInv, Running, RunRecords
  <2> QED BY <2>1 DEF CountsRight, IInv, Planned
<1> HIDE DEF st
<1>5. Writing(st, 0)
  BY <1>1, <1>2, <1>3, <1>4 DEF Writing
<1> QED BY <1>5 DEF st

LEMMA WriteStep ==
  ASSUME NEW n \in Nat, NEW u, WriteUpTo(n, u), NEW i \in Nat, i + 1 <= n
  PROVE  u[i + 1] = Written(u[i], run.plan[i + 1], run.file)
<1>1. i + 1 \in 0 .. n /\ (i + 1) - 1 = i /\ i + 1 # 0
  OBVIOUS
<1>2. u[i + 1] = IF i + 1 = 0
                   THEN [rows |-> rows, tools |-> tools, seenTools |-> run.seenTools,
                         counts |-> run.counts]
                   ELSE Written(u[(i + 1) - 1], run.plan[i + 1], run.file)
  BY <1>1 DEF WriteUpTo
<1> QED BY <1>1, <1>2

LEMMA WritingRight ==
  ASSUME IInv, run.phase = "write", NEW n \in 0 .. Len(run.plan), NEW u, WriteUpTo(n, u)
  PROVE  \A i \in 0 .. n : Writing(u[i], i)
<1> DEFINE S == {i \in Nat : i <= n => Writing(u[i], i)}
<1>0. n \in Nat /\ n <= Len(run.plan) /\ DOMAIN run.plan = 1 .. Len(run.plan)
  BY PlanFacts
<1>1. 0 \in S
  <2>1. u[0] = [rows |-> rows, tools |-> tools, seenTools |-> run.seenTools,
                counts |-> run.counts]
    BY <1>0 DEF WriteUpTo
  <2>2. Writing(u[0], 0)
    BY <2>1, WriteStarts
  <2> QED BY <2>2
<1>2. ASSUME NEW i \in Nat, i \in S PROVE i + 1 \in S
  <2>1. SUFFICES ASSUME i + 1 <= n PROVE Writing(u[i + 1], i + 1)
    OBVIOUS
  <2>2. Writing(u[i], i) /\ i + 1 \in DOMAIN run.plan
    BY <1>0, <1>2, <2>1, PlanFacts
  <2>3. u[i + 1] = Written(u[i], run.plan[i + 1], run.file)
    BY <1>0, <2>1, WriteStep
  <2> QED BY <2>2, <2>3, WrittenRight
<1> HIDE DEF S
<1>3. Nat \subseteq S
  BY <1>1, <1>2, NatSetInduction
<1> QED BY <1>0, <1>3 DEF S

\* What a transaction comes to, however far it gets.
LEMMA WrittenToRight ==
  ASSUME IInv, run.phase = "write", NEW n \in 0 .. Len(run.plan)
  PROVE  Writing(WrittenTo(n), n)
<1> DEFINE u == CHOOSE v : WriteUpTo(n, v)
<1>1. n \in Nat
  BY PlanFacts
<1>2. WriteUpTo(n, u)
  BY <1>1, WriteUpToExists
<1>3. WrittenTo(n) = u[n]
  BY DEF WrittenTo, WriteUpTo
<1> HIDE DEF u
<1>4. n \in 0 .. n
  BY <1>1
<1> QED BY <1>2, <1>3, <1>4, WritingRight


-----------------------------------------------------------------------------
(* The counts of a dry run                                                 *)

\* The equation that defines the function in ForeseenAll.
ForeseeUpTo(m, u) ==
  u = [i \in 0 .. m |->
         IF i = 0 THEN [seenTools |-> run.seenTools, counts |-> run.counts]
         ELSE Foreseen(u[i - 1], run.plan[i])]

LEMMA ForeseeUpToExists ==
  ASSUME NEW n \in Nat
  PROVE  \E u : ForeseeUpTo(n, u)
<1> DEFINE start == [seenTools |-> run.seenTools, counts |-> run.counts]
           S == {m \in Nat : \E u : ForeseeUpTo(m, u)}
<1>1. 0 \in S
  <2> DEFINE u == [i \in 0 .. 0 |-> start]
  <2>1. ForeseeUpTo(0, u)
    BY DEF ForeseeUpTo
  <2> QED BY <2>1
<1>2. ASSUME NEW m \in Nat, m \in S PROVE m + 1 \in S
  <2>1. PICK u : ForeseeUpTo(m, u)
    BY <1>2
  <2> DEFINE last == Foreseen(u[m], run.plan[m + 1])
             v == [i \in 0 .. m + 1 |-> IF i = m + 1 THEN last ELSE u[i]]
  <2>2. ASSUME NEW i \in 0 .. m + 1
        PROVE  v[i] = IF i = 0 THEN start ELSE Foreseen(v[i - 1], run.plan[i])
    <3>1. CASE i = m + 1
      <4>1. v[i] = last /\ v[i - 1] = u[m] /\ i # 0
        BY <3>1
      <4> QED BY <3>1, <4>1
    <3>2. CASE i # m + 1
      <4>1. i \in 0 .. m /\ v[i] = u[i]
        BY <3>2
      <4>2. i # 0 => v[i - 1] = u[i - 1]
        BY <4>1
      <4>3. u[i] = IF i = 0 THEN start ELSE Foreseen(u[i - 1], run.plan[i])
        BY <2>1, <4>1 DEF ForeseeUpTo
      <4> QED BY <4>1, <4>2, <4>3
    <3> QED BY <3>1, <3>2
  <2>3. ForeseeUpTo(m + 1, v)
    BY <2>2 DEF ForeseeUpTo
  <2> QED BY <2>3
<1> HIDE DEF S
<1>3. Nat \subseteq S
  BY <1>1, <1>2, NatSetInduction
<1> QED BY <1>3 DEF S

\* What a dry run keeps.
PreviewOf(S, C) == [seenTools |-> S, counts |-> C]

\* What a dry run makes of a decision, in its cases.
Foresight(new, S, C, d, f) ==
  LET seen == d.call \in S \/ \E t \in tools : t.call = d.call /\ t.session = f
      renames == d.what = "boundary" /\ calls[d.call].named /\ IsSynthesized(d.row.id, f)
  IN
  /\ (d.what # "import" /\ ~renames) => new = PreviewOf(S, C)
  /\ renames => new = PreviewOf(S, Count(C, "canonical"))
  /\ (d.what = "import" /\ seen) => new = PreviewOf(S, Count(C, "imported"))
  /\ (d.what = "import" /\ ~seen) =>
       new = PreviewOf(S \cup {d.call}, Count(Count(C, "imported"), "tools"))

LEMMA ForeseenEffect ==
  ASSUME NEW S, NEW C, NEW d, NEW st, st = PreviewOf(S, C)
  PROVE  Foresight(Foreseen(st, d), S, C, d, run.file)
<1> DEFINE f == run.file
           x == Foreseen(st, d)
           Seen == d.call \in S \/ \E t \in tools : t.call = d.call /\ t.session = f
           Renames == d.what = "boundary" /\ calls[d.call].named /\ IsSynthesized(d.row.id, f)
           S2 == S \cup {d.call}
           c1 == Count(C, "canonical")
           c2 == Count(C, "imported")
           c3 == Count(Count(C, "imported"), "tools")
<1>1. st.seenTools = S /\ st.counts = C /\ st \in [seenTools : {S}, counts : {C}]
  BY DEF PreviewOf
<1>2. /\ (d.what # "import" /\ ~Renames) => x = st
      /\ Renames => x = [st EXCEPT !.counts = c1]
      /\ (d.what = "import" /\ Seen) => x = [st EXCEPT !.counts = c2]
      /\ (d.what = "import" /\ ~Seen) => x = [st EXCEPT !.counts = c3, !.seenTools = S2]
  BY <1>1 DEF Foreseen
<1> HIDE DEF x, Seen, Renames, S2, c1, c2, c3
<1>3. ASSUME NEW c, x = [st EXCEPT !.counts = c] PROVE x = PreviewOf(S, c)
  BY <1>1, <1>3 DEF PreviewOf
<1>4. ASSUME x = [st EXCEPT !.counts = c3, !.seenTools = S2] PROVE x = PreviewOf(S2, c3)
  BY <1>1, <1>4 DEF PreviewOf
<1>5. /\ (d.what # "import" /\ ~Renames) => x = PreviewOf(S, C)
      /\ Renames => x = PreviewOf(S, c1)
      /\ (d.what = "import" /\ Seen) => x = PreviewOf(S, c2)
      /\ (d.what = "import" /\ ~Seen) => x = PreviewOf(S2, c3)
  BY <1>2, <1>3, <1>4
<1> QED BY <1>5 DEF Foresight, x, Seen, Renames, S2, c1, c2, c3

Foreseeing(st, n) ==
  /\ st = PreviewOf(st.seenTools, st.counts)
  /\ st.seenTools \subseteq DOMAIN calls /\ CountsRight(st.counts, n)

\* Each decision is counted rightly.
LEMMA ForeseenRight ==
  ASSUME IInv, run.phase = "write", NEW n \in Nat, n + 1 \in DOMAIN run.plan,
         NEW st, Foreseeing(st, n)
  PROVE  Foreseeing(Foreseen(st, run.plan[n + 1]), n + 1)
<1> DEFINE d == run.plan[n + 1]
           f == run.file
           S == st.seenTools
           C == st.counts
           new == Foreseen(st, d)
           Goal == Foreseeing(new, n + 1)
           Renames == d.what = "boundary" /\ calls[d.call].named /\ IsSynthesized(d.row.id, f)
           Seen == d.call \in S \/ \E t \in tools : t.call = d.call /\ t.session = f
<1>1. st = PreviewOf(S, C) /\ S \subseteq DOMAIN calls /\ CountsRight(C, n)
  BY DEF Foreseeing
<1>2. d.call \in DOMAIN calls
  BY PlanFacts
<1>3. /\ CountsRight(C, n + 1)
      /\ CountsRight(Count(C, "canonical"), n + 1)
      /\ CountsRight(Count(C, "imported"), n + 1)
      /\ CountsRight(Count(Count(C, "imported"), "tools"), n + 1)
  BY <1>1, CountWritten
<1>4. /\ (d.what # "import" /\ ~Renames) => new = PreviewOf(S, C)
      /\ Renames => new = PreviewOf(S, Count(C, "canonical"))
      /\ (d.what = "import" /\ Seen) => new = PreviewOf(S, Count(C, "imported"))
      /\ (d.what = "import" /\ ~Seen) =>
           new = PreviewOf(S \cup {d.call}, Count(Count(C, "imported"), "tools"))
  <2> HIDE DEF d, S, C, new
  <2>1. Foresight(new, S, C, d, f)
    BY <1>1, ForeseenEffect DEF new
  <2> QED BY <2>1 DEF Foresight
<1> HIDE DEF new
<1> SUFFICES Goal
  BY DEF new
<1>5. ASSUME NEW S2, NEW C2, new = PreviewOf(S2, C2), S2 \subseteq DOMAIN calls,
             CountsRight(C2, n + 1)
      PROVE  Goal
  <2>1. new.seenTools = S2 /\ new.counts = C2
    BY <1>5 DEF PreviewOf
  <2> QED BY <1>5, <2>1 DEF Foreseeing
<1> HIDE DEF Renames, Seen, S, C, d
<1> QED BY <1>1, <1>2, <1>3, <1>4, <1>5

LEMMA ForeseeStep ==
  ASSUME NEW n \in Nat, NEW u, ForeseeUpTo(n, u), NEW i \in Nat, i + 1 <= n
  PROVE  u[i + 1] = Foreseen(u[i], run.plan[i + 1])
<1>1. i + 1 \in 0 .. n /\ (i + 1) - 1 = i /\ i + 1 # 0
  OBVIOUS
<1>2. u[i + 1] = IF i + 1 = 0 THEN [seenTools |-> run.seenTools, counts |-> run.counts]
                 ELSE Foreseen(u[(i + 1) - 1], run.plan[i + 1])
  BY <1>1 DEF ForeseeUpTo
<1> QED BY <1>1, <1>2

LEMMA ForeseeingRight ==
  ASSUME IInv, run.phase = "write", NEW u, ForeseeUpTo(Len(run.plan), u)
  PROVE  \A i \in 0 .. Len(run.plan) : Foreseeing(u[i], i)
<1> DEFINE N == Len(run.plan)
           S == {i \in Nat : i <= N => Foreseeing(u[i], i)}
<1>0. N \in Nat /\ DOMAIN run.plan = 1 .. N
  BY PlanFacts
<1>1. 0 \in S
  <2> DEFINE st == [seenTools |-> run.seenTools, counts |-> run.counts]
  <2>1. u[0] = st
    BY <1>0 DEF ForeseeUpTo
  <2>2. run.seenTools \subseteq DOMAIN calls /\ CountsRight(run.counts, 0)
    <3>1. run.counts \in Counts /\ run.seenTools \subseteq DOMAIN calls
      BY DEF IInv, Running, RunRecords
    <3> QED BY <3>1 DEF CountsRight, IInv, Planned
  <2>3. Foreseeing(st, 0)
    BY <2>2 DEF Foreseeing, PreviewOf
  <2> QED BY <2>1, <2>3
<1>2. ASSUME NEW i \in Nat, i \in S PROVE i + 1 \in S
  <2>1. SUFFICES ASSUME i + 1 <= N PROVE Foreseeing(u[i + 1], i + 1)
    OBVIOUS
  <2>2. Foreseeing(u[i], i) /\ i + 1 \in DOMAIN run.plan
    BY <1>0, <1>2, <2>1
  <2>3. u[i + 1] = Foreseen(u[i], run.plan[i + 1])
    BY <1>0, <2>1, ForeseeStep
  <2> QED BY <2>2, <2>3, ForeseenRight
<1> HIDE DEF S
<1>3. Nat \subseteq S
  BY <1>1, <1>2, NatSetInduction
<1> QED BY <1>0, <1>3 DEF S

LEMMA ForeseenAllIs ==
  ASSUME IInv, run.phase = "write"
  PROVE  \E u : ForeseeUpTo(Len(run.plan), u) /\ ForeseenAll = u[Len(run.plan)]
<1> DEFINE u == CHOOSE v : ForeseeUpTo(Len(run.plan), v)
<1>1. Len(run.plan) \in Nat
  BY PlanFacts
<1>2. ForeseeUpTo(Len(run.plan), u)
  BY <1>1, ForeseeUpToExists
<1>3. ForeseenAll = u[Len(run.plan)]
  BY DEF ForeseenAll, ForeseeUpTo
<1> HIDE DEF u
<1> QED BY <1>2, <1>3

LEMMA ForeseenAllRight ==
  ASSUME IInv, run.phase = "write"
  PROVE  Foreseeing(ForeseenAll, Len(run.plan))
<1>1. PICK u : ForeseeUpTo(Len(run.plan), u) /\ ForeseenAll = u[Len(run.plan)]
  BY ForeseenAllIs
<1>2. Len(run.plan) \in 0 .. Len(run.plan)
  BY PlanFacts
<1> QED BY <1>1, <1>2, ForeseeingRight

-----------------------------------------------------------------------------
(* A dry run counts what the run does                                      *)

Unshared ==
  \A f, g \in Files : \A c \in CallsOf(f) \cap CallsOf(g) : f # g => calls[c].named

\* A call is known by one file then.
LEMMA OneOwner ==
  ASSUME NEW c, calls[c].named \/ Unshared, NEW f, NEW g, Owned(c, f), Owned(c, g)
  PROVE  f = g
<1>1. f \in Files /\ g \in Files /\ c \in CallsOf(f) /\ c \in CallsOf(g)
  BY DEF Owned
<1>2. CASE calls[c].named
  <2>1. ~(f < g) /\ ~(g < f)
    BY <1>1, <1>2 DEF Owned, First
  <2> QED BY <1>1, <2>1 DEF Files
<1>3. CASE ~calls[c].named
  BY <1>1, <1>3 DEF Unshared
<1> QED BY <1>2, <1>3

\* The row of an import is not there yet.
LEMMA ImportIsNew ==
  ASSUME IInv, run.phase = "write", ~run.stale, Plain = DOMAIN calls, Unshared,
         NEW n \in Nat, n + 1 \in DOMAIN run.plan, NEW d, d = run.plan[n + 1],
         NEW R, RowsRight(R, n), d.what = "import"
  PROVE  ~Has(R, HarnessMessageId(run.file, d.call))
<1> DEFINE c == d.call
           f == run.file
           id == HarnessMessageId(f, c)
<1>1. /\ World /\ f \in Files /\ c \in DOMAIN calls /\ DecisionOK(d, f, n + 1, run.stale)
      /\ c \in Nat
  BY PlanFacts, WorldFacts DEF IInv
<1>2. Owned(c, f) /\ Absent(c, f, run.stale)
  BY <1>1 DEF DecisionOK
<1>3. SUFFICES ASSUME NEW r \in R, r.id = id PROVE FALSE
  BY DEF Has
<1>4. CASE Has(rows, r.id)
  <2>1. PICK q \in rows : q.id = id
    BY <1>3, <1>4 DEF Has
  <2>2. RowOK(q)
    BY DEF IInv, Stored
  <2>3. OwnRow(q) /\ q.call = c
    BY <1>1, <2>1, <2>2, IdOfMessage
  <2>4. q.session # f
    BY <1>1, <1>2, <2>3 DEF Absent
  <2>5. Owned(c, q.session)
    BY <2>3 DEF OwnRow
  <2> QED BY <1>2, <2>4, <2>5, OneOwner
<1>5. CASE ~Has(rows, r.id)
  <2>1. PICK j \in 1 .. n : r.id = ResponseId(run.plan[j].call) \/ r.id = NoId(f, run.plan[j].call)
    BY <1>5 DEF RowsRight
  <2>2. run.plan[j].call = c
    BY <1>3, <2>1, IdFacts DEF HarnessMessageId
  <2>3. j \in DOMAIN run.plan /\ j # n + 1
    BY PlanFacts
  <2> QED BY <2>2, <2>3, PlanFacts
<1> QED BY <1>4, <1>5

\* Nor is there a row with the provider's id for a match with the old one.
LEMMA RenameIsNew ==
  ASSUME IInv, run.phase = "write", Plain = DOMAIN calls,
         NEW n \in Nat, n + 1 \in DOMAIN run.plan, NEW d, d = run.plan[n + 1],
         NEW R, RowsRight(R, n), d.what = "boundary", calls[d.call].named,
         IsSynthesized(d.row.id, run.file)
  PROVE  ~Has(R, ResponseId(d.call))
<1> DEFINE c == d.call
           f == run.file
<1>1. /\ World /\ f \in Files /\ c \in DOMAIN calls /\ DecisionOK(d, f, n + 1, run.stale)
      /\ c \in Nat
  BY PlanFacts, WorldFacts DEF IInv
<1>2. Matched(d, f)
  BY <1>1 DEF DecisionOK
<1>3. SUFFICES ASSUME NEW r \in R, r.id = ResponseId(c) PROVE FALSE
  BY DEF Has
<1>4. CASE Has(rows, r.id)
  <2>1. PICK q \in rows : q.id = ResponseId(c)
    BY <1>3, <1>4 DEF Has
  <2>2. RowOK(q) /\ ResponseId(c) = HarnessMessageId(f, c)
    BY DEF IInv, Stored, HarnessMessageId
  <2>3. q.call = c
    BY <1>1, <2>1, <2>2, IdOfMessage
  <2>4. PICK p \in rows : p.id = d.row.id /\ p.session = f /\ Alike(p.call, d.row.call)
    BY <1>2 DEF Matched
  <2>6. p.call \in DOMAIN calls
    BY <1>1, <2>4, OwnRows DEF IInv
  <2>7. p.call = c
    BY <1>1, <1>2, <2>4, <2>6 DEF Matched, Alike, Plain
  <2>8. p = q
    BY <1>1, <2>3, <2>7 DEF IInv, OnceEach
  <2> QED BY <1>1, <2>1, <2>4, <2>8, IdFacts
<1>5. CASE ~Has(rows, r.id)
  <2>1. PICK j \in 1 .. n : r.id = ResponseId(run.plan[j].call) \/ r.id = NoId(f, run.plan[j].call)
    BY <1>5 DEF RowsRight
  <2>2. run.plan[j].call = c
    BY <1>3, <2>1, IdFacts
  <2>3. j \in DOMAIN run.plan /\ j # n + 1
    BY PlanFacts
  <2> QED BY <2>2, <2>3, PlanFacts
<1> QED BY <1>4, <1>5

\* One decision is counted as it is carried out.
LEMMA SameCounts ==
  ASSUME IInv, run.phase = "write", ~run.stale, Plain = DOMAIN calls, Unshared,
         NEW n \in Nat, n + 1 \in DOMAIN run.plan, NEW st, Writing(st, n),
         NEW pre, pre = PreviewOf(st.seenTools, st.counts)
  PROVE  Foreseen(pre, run.plan[n + 1]) =
           PreviewOf(Written(st, run.plan[n + 1], run.file).seenTools,
                     Written(st, run.plan[n + 1], run.file).counts)
<1> DEFINE d == run.plan[n + 1]
           f == run.file
           R == st.rows
           T == st.tools
           S == st.seenTools
           C == st.counts
           new == Written(st, d, f)
           fore == Foreseen(pre, d)
           Renames == d.what = "boundary" /\ calls[d.call].named /\ IsSynthesized(d.row.id, f)
           Seen == d.call \in S \/ \E t \in T : t.call = d.call
           SeenHere == d.call \in S \/ \E t \in tools : t.call = d.call /\ t.session = f
           Goal == fore = PreviewOf(new.seenTools, new.counts)
<1>1. st = StateOf(R, T, S, C) /\ RowsRight(R, n) /\ ToolsRight(T, S, R)
  BY DEF Writing, StateOf
<1>2. Outcome(new, R, T, S, C, d, f) /\ Foresight(fore, S, C, d, f)
  <2>1. pre = PreviewOf(S, C)
    OBVIOUS
  <2> HIDE DEF d, R, T, S, C
  <2>2. Foresight(fore, S, C, d, f)
    BY <2>1, ForeseenEffect
  <2> HIDE DEF f
  <2>3. Outcome(new, R, T, S, C, d, f)
    BY <1>1, WrittenEffect
  <2> QED BY <2>2, <2>3
<1>3. Renames => ~Has(R, ResponseId(d.call))
  BY <1>1, RenameIsNew
<1>4. d.what = "import" => ~Has(R, HarnessMessageId(f, d.call))
  BY <1>1, ImportIsNew
<1>5. d.what = "import" => (Seen <=> SeenHere)
  <2>1. SUFFICES ASSUME d.what = "import", NEW t \in T, t.call = d.call, d.call \notin S
                 PROVE  t \in tools /\ t.session = f
    BY <1>1 DEF ToolsRight
  <2>2. t \in tools
    BY <1>1, <2>1 DEF ToolsRight
  <2>3. Owned(d.call, f) /\ d.call \in Nat
    BY <2>1, PlanFacts, WorldFacts DEF DecisionOK, IInv
  <2>4. Owned(t.call, t.session)
    BY <2>1, <2>2, <2>3 DEF IInv, Tooled, ToolOK
  <2> QED BY <2>1, <2>2, <2>3, <2>4, OneOwner
<1>6. \A id, i : Row(id, f, i, d.call, "log").id = id
  BY DEF Row
<1>7. /\ (d.what # "import" /\ ~Renames) => fore = PreviewOf(S, C)
      /\ Renames => fore = PreviewOf(S, Count(C, "canonical"))
      /\ (d.what = "import" /\ SeenHere) => fore = PreviewOf(S, Count(C, "imported"))
      /\ (d.what = "import" /\ ~SeenHere) =>
           fore = PreviewOf(S \cup {d.call}, Count(Count(C, "imported"), "tools"))
  <2> HIDE DEF d, f, S, C, fore
  <2> QED BY <1>2 DEF Foresight
<1>8. /\ (d.what # "import" /\ ~Renames) => new.seenTools = S /\ new.counts = C
      /\ Renames => new.seenTools = S /\ new.counts = Count(C, "canonical")
      /\ (d.what = "import" /\ Seen) => new.seenTools = S /\ new.counts = Count(C, "imported")
      /\ (d.what = "import" /\ ~Seen) =>
           /\ new.seenTools = S \cup {d.call}
           /\ new.counts = Count(Count(C, "imported"), "tools")
  <2>1. \A a, b, c, e : StateOf(a, b, c, e).seenTools = c /\ StateOf(a, b, c, e).counts = e
    BY DEF StateOf
  <2> HIDE DEF d, f, R, T, S, C, new
  <2>2. /\ (d.what # "import" /\ ~Renames) => \E a, b : new = StateOf(a, b, S, C)
        /\ Renames => \E a, b : new = StateOf(a, b, S, Count(C, "canonical"))
        /\ (d.what = "import" /\ Seen) => \E a, b : new = StateOf(a, b, S, Count(C, "imported"))
        /\ (d.what = "import" /\ ~Seen) =>
             \E a, b : new = StateOf(a, b, S \cup {d.call}, Count(Count(C, "imported"), "tools"))
    BY <1>2, <1>3, <1>4, <1>6 DEF Outcome
  <2> HIDE DEF Renames, Seen
  <2> QED BY <2>1, <2>2
<1> HIDE DEF new, fore
<1> SUFFICES Goal
  BY DEF new, fore
<1> HIDE DEF d, S, C, Renames, Seen, SeenHere
<1> QED BY <1>5, <1>7, <1>8

LEMMA PreviewRight ==
  ASSUME IInv
  PROVE  PreviewExact
<1> DEFINE N == Len(run.plan)
<1>1. SUFFICES ASSUME run.phase = "write", ~run.stale, Plain = DOMAIN calls, Unshared
               PROVE  ForeseenAll.counts = WrittenTo(N).counts
  BY DEF PreviewExact, Unshared
<1>2. N \in Nat /\ DOMAIN run.plan = 1 .. N
  BY PlanFacts
<1>3. PICK v : ForeseeUpTo(N, v) /\ ForeseenAll = v[N]
  BY <1>1, ForeseenAllIs
<1> DEFINE u == CHOOSE w : WriteUpTo(N, w)
<1>4. WriteUpTo(N, u)
  BY <1>2, WriteUpToExists
<1>5. WrittenTo(N) = u[N]
  BY DEF WrittenTo, WriteUpTo
<1> HIDE DEF u
<1>6. \A i \in 0 .. N : Writing(u[i], i)
  <2>1. N \in 0 .. N
    BY <1>2
  <2> QED BY <1>1, <1>4, <2>1, WritingRight
<1> DEFINE S == {i \in Nat : i <= N => v[i] = PreviewOf(u[i].seenTools, u[i].counts)}
<1>7. 0 \in S
  <2>1. v[0] = [seenTools |-> run.seenTools, counts |-> run.counts]
    BY <1>2, <1>3 DEF ForeseeUpTo
  <2>2. u[0] = [rows |-> rows, tools |-> tools, seenTools |-> run.seenTools,
                counts |-> run.counts]
    BY <1>2, <1>4 DEF WriteUpTo
  <2> QED BY <2>1, <2>2 DEF PreviewOf
<1>8. ASSUME NEW i \in Nat, i \in S PROVE i + 1 \in S
  <2>1. SUFFICES ASSUME i + 1 <= N
                 PROVE  v[i + 1] = PreviewOf(u[i + 1].seenTools, u[i + 1].counts)
    OBVIOUS
  <2>2. Writing(u[i], i) /\ i + 1 \in DOMAIN run.plan
        /\ v[i] = PreviewOf(u[i].seenTools, u[i].counts)
    BY <1>2, <1>6, <1>8, <2>1
  <2>3. u[i + 1] = Written(u[i], run.plan[i + 1], run.file)
        /\ v[i + 1] = Foreseen(v[i], run.plan[i + 1])
    BY <1>2, <1>3, <1>4, <2>1, WriteStep, ForeseeStep
  <2> QED BY <1>1, <2>2, <2>3, SameCounts
<1> HIDE DEF S
<1>9. Nat \subseteq S
  BY <1>7, <1>8, NatSetInduction
<1>10. v[N] = PreviewOf(u[N].seenTools, u[N].counts)
  BY <1>2, <1>9 DEF S
<1> QED BY <1>3, <1>5, <1>10 DEF PreviewOf

-----------------------------------------------------------------------------
(* What a step leaves as it is                                             *)

SameRun ==
  /\ run'.phase = run.phase /\ run'.todo = run.todo /\ run'.file = run.file
  /\ run'.until = run.until /\ run'.dry = run.dry /\ run'.seen = run.seen
  /\ run'.plan = run.plan /\ run'.counts = run.counts /\ run'.seeded = run.seeded
  /\ run'.covered = run.covered /\ run'.failed = run.failed

\* A step that is none of the run's marks it at most.
LEMMA MarkedRun ==
  ASSUME IInv, NEW stale \in BOOLEAN, NEW repeat \in BOOLEAN,
         DOMAIN calls \subseteq DOMAIN calls',
         run' = [run EXCEPT !.repeat = repeat, !.stale = stale]
  PROVE  run' \in RunRecords(run.inserted)' /\ run'.inserted = run.inserted
         /\ SameRun /\ run'.stale = stale
<1>1. run \in RunRecords(run.inserted)
  BY DEF IInv, Running
<1>2. SameRun /\ run'.stale = stale /\ run'.inserted = run.inserted
      /\ run'.seenTools = run.seenTools /\ run'.repeat = repeat
  BY <1>1 DEF RunRecords, SameRun
<1>3. run' \in RunRecords(run.inserted)
  BY <1>1 DEF RunRecords
<1>4. run' \in RunRecords(run.inserted)'
  BY <1>2, <1>3 DEF RunRecords
<1> QED BY <1>2, <1>4

LEMMA UnmarkedRun ==
  ASSUME IInv, run' = run, DOMAIN calls \subseteq DOMAIN calls'
  PROVE  run' \in RunRecords(run.inserted)' /\ SameRun
<1>1. run \in RunRecords(run.inserted)
  BY DEF IInv, Running
<1>2. SameRun /\ run'.inserted = run.inserted
  BY DEF SameRun
<1>3. run' \in RunRecords(run.inserted)'
  BY <1>1, <1>2 DEF RunRecords
<1> QED BY <1>2, <1>3

\* Sessions that are left to read share no new calls with older ones.
SharedStays ==
  \A e, f \in Files : e < f /\ log[f] # <<>> =>
    CallsOf(e)' \cap CallsOf(f)' \subseteq CallsOf(e) \cap CallsOf(f)

LEMMA RunningStays ==
  ASSUME IInv, World', Grown, SharedStays, SameRun, run' \in RunRecords(run.inserted)',
         runs' \in Nat, runs <= runs'
  PROVE  Running'
<1>1. Running /\ World
  BY DEF IInv
<1>2. \A f \in run'.todo : f \in Files /\ log'[f] # <<>> /\ log[f] # <<>>
  <2>1. SUFFICES ASSUME NEW f \in run.todo PROVE f \in Files /\ log'[f] # <<>> /\ log[f] # <<>>
    BY DEF SameRun
  <2>2. f \in Files /\ log[f] # <<>>
    BY <1>1 DEF Running, RunRecords
  <2>3. 1 \in DOMAIN log[f]
    BY <1>1, <2>2, WorldFacts
  <2>4. 1 \in DOMAIN log'[f]
    BY <2>2, <2>3 DEF Grown
  <2>5. DOMAIN <<>> = {}
    OBVIOUS
  <2> QED BY <2>2, <2>4, <2>5
<1>3. ASSUME NEW f \in run'.todo, NEW e \in Files, e < f PROVE e \in run'.todo \/ Known(e, f)'
  <2>1. f \in Files /\ log[f] # <<>> /\ f \in run.todo
    BY <1>2, <1>3 DEF SameRun
  <2>2. CASE e \in run.todo
    BY <2>2 DEF SameRun
  <2>3. CASE Known(e, f)
    <3>1. CallsOf(e)' \cap CallsOf(f)' \subseteq CallsOf(e) \cap CallsOf(f)
      BY <1>3, <2>1 DEF SharedStays
    <3>2. \A c \in CallsOf(e) : calls'[c] = calls[c]
      BY <1>1, WorldFacts DEF Grown
    <3>3. \A c \in CallsOf(e)' \cap CallsOf(f)' : calls'[c].named => c \in run'.seen
      BY <2>3, <3>1, <3>2 DEF Known, SameRun
    <3> QED BY <3>3 DEF Known
  <2> QED BY <1>1, <1>3, <2>1, <2>2, <2>3 DEF Running
<1>4. run'.seen \subseteq run'.covered \cup run'.seeded
  BY <1>1 DEF Running, SameRun
<1>5. run'.phase # "idle" => runs' # 0
  <2>1. runs \in Nat /\ (run.phase # "idle" => runs # 0) /\ run'.phase = run.phase
    BY <1>1 DEF Running, SameRun
  <2> QED BY <2>1
<1> QED BY <1>2, <1>3, <1>4, <1>5 DEF Running

LEMMA SharedWithoutCalls ==
  ASSUME UNCHANGED log
  PROVE  SharedStays
<1>1. \A f \in Files : CallsOf(f)' = CallsOf(f)
  BY DEF CallsOf
<1> QED BY <1>1 DEF SharedStays

\* No row of a call goes away: at most it becomes that of a call like it.
Survives ==
  \A q \in rows : q.call \in DOMAIN calls =>
    \E p \in rows' :
      p.id = q.id /\ p.session = q.session /\ p.call \in DOMAIN calls /\ Alike(p.call, q.call)

\* A new row of a call is drained, and has no older writer's id if it is named.
Expected ==
  \A p \in rows' : p.call \in DOMAIN calls =>
    \/ \E q \in rows : q.call = p.call /\ q.session = p.session /\ (OldId(p) => OldId(q))
    \/ run'.stale /\ (calls[p.call].named => ~OldId(p))

LEMMA CoveredStays ==
  ASSUME IInv, World', Grown, SameRun, Survives
  PROVE  Covered'
<1>1. World /\ Covered /\ run.covered \subseteq DOMAIN calls
  BY DEF IInv, Running, RunRecords
<1>2. SUFFICES ASSUME ~run'.dry, ~run'.failed, NEW c \in run'.covered, c \in Plain'
               PROVE  \/ IsZeroCostSkip(c)' \/ (c >= run'.until) \/ c \in run'.seeded
                      \/ \E r \in rows' : r.call = c
                      \/ Ahead(c)'
  BY DEF Covered, IsCutoff
<1>3. c \in DOMAIN calls /\ c \in run.covered
  BY <1>1, <1>2 DEF SameRun
<1>4. c \in Plain
  BY <1>1, <1>2, <1>3, GrownKeeps
<1>5. calls'[c] = calls[c]
  BY <1>3 DEF Grown
<1>6. \/ IsZeroCostSkip(c) \/ c >= run.until \/ c \in run.seeded
      \/ \E r \in rows : r.call = c
      \/ Ahead(c)
  BY <1>1, <1>2, <1>3, <1>4 DEF Covered, SameRun, IsCutoff
<1>7. IsZeroCostSkip(c) => IsZeroCostSkip(c)'
  BY <1>5 DEF IsZeroCostSkip
<1>8. (\E r \in rows : r.call = c) => \E r \in rows' : r.call = c
  <2>1. SUFFICES ASSUME NEW r \in rows, r.call = c PROVE \E p \in rows' : p.call = c
    OBVIOUS
  <2>2. PICK p \in rows' : p.call \in DOMAIN calls /\ Alike(p.call, c)
    BY <1>3, <2>1 DEF Survives
  <2> QED BY <1>4, <2>2 DEF Plain, Alike
<1>9. Ahead(c) => Ahead(c)'
  BY DEF Ahead, SameRun
<1> QED BY <1>6, <1>7, <1>8, <1>9 DEF SameRun

LEMMA PlannedStays ==
  ASSUME IInv, World', Grown, SameRun, Survives, Expected, run.stale => run'.stale,
         run.stale \in BOOLEAN, run'.stale \in BOOLEAN
  PROVE  Planned'
<1>1. SUFFICES ASSUME run.phase = "write" PROVE Planned'
  BY DEF Planned, SameRun
<1>2. World /\ run.file \in Files /\ run'.file = run.file /\ run'.plan = run.plan
      /\ run'.counts = run.counts
  BY <1>1, PlanFacts DEF IInv, SameRun
<1>3. ASSUME NEW i \in DOMAIN run.plan, NEW d, d = run.plan[i], NEW f, f = run.file,
             NEW s, s = run'.stale
      PROVE  DecisionOK(d, f, i, s)'
  <2>1. DecisionOK(d, f, i, run.stale) /\ d.call \in DOMAIN calls /\ f \in Files
    BY <1>1, <1>3, PlanFacts
  <2>2. /\ d \in Decisions /\ i \in DOMAIN log'[f] /\ d.call = log'[f][i] /\ d.turn = i - 1
    BY <2>1 DEF DecisionOK, Grown
  <2>3. ASSUME d.what = "boundary" PROVE Matched(d, f)'
    <3>1. Matched(d, f)
      BY <2>1, <2>3 DEF DecisionOK
    <3>2. d.row \in Rows /\ RowOK(d.row) /\ d.row.session = f /\ Alike(d.row.call, d.call)
      BY <3>1 DEF Matched
    <3>3. PICK r \in rows : r.id = d.row.id /\ r.session = f /\ Alike(r.call, d.row.call)
      BY <3>1 DEF Matched
    <3>4. d.row.call \in DOMAIN calls
      <4>1. d.row.session # OfLegacy
        BY <2>1, <3>2 DEF Files, OfLegacy
      <4> QED BY <1>2, <3>2, <4>1, WorldFacts DEF RowOK, LegacyRow, OwnRow, Owned
    <3>5. RowOK(d.row)' /\ Alike(d.row.call, d.call)'
      BY <1>2, <2>1, <3>2, <3>4, GrownKeeps
    <3>6. r.call \in DOMAIN calls
      BY <1>2, <2>1, <3>3, OwnRows DEF IInv
    <3>7. PICK p \in rows' : /\ p.id = d.row.id /\ p.session = f
                             /\ p.call \in DOMAIN calls /\ Alike(p.call, r.call)
      BY <3>3, <3>6 DEF Survives
    <3>8. Alike(p.call, d.row.call)
      BY <3>3, <3>7 DEF Alike
    <3>9. Alike(p.call, d.row.call)'
      BY <1>2, <3>4, <3>7, <3>8, GrownKeeps
    <3> QED BY <3>2, <3>5, <3>7, <3>9 DEF Matched
  <2>4. ASSUME d.what = "import" PROVE Owned(d.call, f)' /\ Absent(d.call, f, s)'
    <3>1. Owned(d.call, f) /\ Absent(d.call, f, run.stale)
      BY <2>1, <2>4 DEF DecisionOK
    <3>2. Owned(d.call, f)'
      BY <1>2, <3>1, GrownKeeps
    <3>3. ASSUME d.call \in Plain', NEW p \in rows', p.call = d.call
          PROVE  (calls'[d.call].named => ~OldId(p)) /\ (p.session = f => s)
      <4>1. d.call \in Plain /\ calls'[d.call] = calls[d.call]
        BY <1>2, <2>1, <3>3, GrownKeeps DEF Grown
      <4>2. CASE \E q \in rows : q.call = p.call /\ q.session = p.session /\ (OldId(p) => OldId(q))
        BY <1>3, <3>1, <3>3, <4>1, <4>2 DEF Absent
      <4>3. CASE run'.stale /\ (calls[p.call].named => ~OldId(p))
        BY <1>3, <3>3, <4>1, <4>3
      <4> QED BY <2>1, <3>3, <4>2, <4>3 DEF Expected
    <3>4. Absent(d.call, f, s)'
      BY <3>3 DEF Absent, OldId
    <3> QED BY <3>2, <3>4
  <2>5. ASSUME d.what = "boundary", calls'[d.call].named PROVE Owned(d.call, f)'
    <3>1. Owned(d.call, f)
      BY <2>1, <2>5 DEF DecisionOK, Grown
    <3> QED BY <1>2, <3>1, GrownKeeps
  <2> QED BY <2>2, <2>3, <2>4, <2>5 DEF DecisionOK
<1>4. ASSUME NEW i \in DOMAIN run'.plan PROVE DecisionOK(run.plan[i], run.file, i, run.stale)'
  BY <1>2, <1>3, <1>4
<1>5. run'.counts.boundary <= Cardinality(Boundaries(run.plan, Len(run.plan), 0))'
  BY <1>1, <1>2 DEF IInv, Planned, Boundaries
<1> QED BY <1>1, <1>2, <1>4, <1>5 DEF IInv, Planned

\* The same of the world after a step.
LEMMA WorldPrimed ==
  ASSUME World'
  PROVE  DOMAIN calls' \subseteq Nat /\ \A f \in Files : CallsOf(f)' \subseteq DOMAIN calls'
<1>1. calls' \in Seq(ApiCalls) /\ log' \in [Files -> Seq(DOMAIN calls')]
  BY DEF World
<1>2. ASSUME NEW f \in Files PROVE CallsOf(f)' \subseteq DOMAIN calls'
  BY <1>1 DEF CallsOf
<1> QED BY <1>1, <1>2


LEMMA StoredStays ==
  ASSUME IInv, World', Grown, UNCHANGED rows, turns \subseteq turns'
  PROVE  Stored' /\ Survives /\ Expected /\ OnceEach'
<1>1. World /\ Stored /\ OnceEach
  BY DEF IInv
<1>2. \A r : RowOK(r) => RowOK(r)'
  BY <1>1, GrownKeeps
<1>3. \A r \in rows : RowOK(r)' /\ Placed(r, turns')
  BY <1>1, <1>2 DEF Stored, Placed
<1>4. IdsUnique(rows)
  BY <1>1 DEF Stored
<1>5. Stored'
  BY <1>3, <1>4 DEF Stored, Placed, IdsUnique
<1>6. OnceEach'
  <2>1. SUFFICES ASSUME NEW r \in rows, NEW q \in rows, r.call = q.call, r.call \in Plain',
                        calls'[r.call].named
                 PROVE  r = q
    BY DEF OnceEach
  <2>2. r.call \in DOMAIN calls' /\ DOMAIN calls' \subseteq Nat
    BY <2>1, WorldPrimed DEF Plain
  <2>3. r.call \in DOMAIN calls
    BY <1>1, <2>2, CallRows
  <2>4. r.call \in Plain /\ calls'[r.call] = calls[r.call]
    BY <1>1, <2>1, <2>3, GrownKeeps DEF Grown
  <2> QED BY <1>1, <2>1, <2>4 DEF OnceEach
<1>7. Survives /\ Expected
  BY DEF Survives, Expected, Alike
<1> QED BY <1>5, <1>6, <1>7

LEMMA FollowStays ==
  ASSUME IInv, World', Grown, Survives, \A t \in tools' : t.by = "log" => t \in tools
  PROVE  ToolsFollow'
<1>1. World /\ Stored /\ Tooled /\ ToolsFollow
  BY DEF IInv
<1>2. ASSUME NEW t \in tools, t.by = "log"
      PROVE  \E r \in rows' : r.session = t.session /\ Matches(r, t.call)'
  <2>1. PICK q \in rows : q.session = t.session /\ Matches(q, t.call)
    BY <1>1, <1>2 DEF ToolsFollow
  <2>2. Owned(t.call, t.session)
    BY <1>1, <1>2 DEF Tooled, ToolOK
  <2>3. t.call \in DOMAIN calls /\ q.call \in DOMAIN calls
    BY <1>1, <2>1, <2>2, WorldFacts, OwnRows DEF Owned
  <2>4. PICK p \in rows' : /\ p.session = q.session
                           /\ p.call \in DOMAIN calls /\ Alike(p.call, q.call)
    BY <2>3 DEF Survives
  <2>5. Matches(p, t.call)'
    BY <2>1, <2>3, <2>4 DEF Matches, Alike, Grown
  <2> QED BY <2>1, <2>4, <2>5
<1> QED BY <1>2 DEF ToolsFollow, Matches

LEMMA ToolsStay ==
  ASSUME IInv, World', Grown, UNCHANGED tools, Survives
  PROVE  Tooled' /\ ToolsFollow'
<1>1. World /\ Tooled
  BY DEF IInv
<1>2. \A t : ToolOK(t) => ToolOK(t)'
  BY <1>1, GrownKeeps
<1>3. Tooled'
  BY <1>1, <1>2 DEF Tooled
<1> QED BY <1>3, FollowStays

LEMMA SpooledStays ==
  ASSUME IInv, World', Grown, UNCHANGED pending,
         \A p \in rows' : p.call \in DOMAIN calls /\ OldId(p) =>
           \E q \in rows : q.call = p.call /\ OldId(q)
  PROVE  Spooled'
<1>1. World /\ Spooled
  BY DEF IInv
<1>2. ASSUME NEW r \in pending
      PROVE  Awaited(r)' /\ (calls'[r.call].named => \A q \in rows' : q.call = r.call => ~OldId(q))
  <2>1. Awaited(r) /\ (calls[r.call].named => \A q \in rows : q.call = r.call => ~OldId(q))
    BY <1>1 DEF Spooled
  <2>2. Awaited(r)'
    BY <1>1, <2>1, GrownKeeps
  <2>3. r.call \in DOMAIN calls
    BY <1>1, <2>1, WorldFacts DEF Awaited, Owned
  <2>4. calls'[r.call] = calls[r.call]
    BY <2>3 DEF Grown
  <2> QED BY <2>1, <2>2, <2>3, <2>4
<1> QED BY <1>2 DEF Spooled, OldId

\* A step that leaves the database and the spool alone.
LEMMA DatabaseStays ==
  ASSUME IInv, World', Grown, UNCHANGED <<db, pending>>
  PROVE  Stored' /\ Tooled' /\ Spooled' /\ OnceEach' /\ ToolsFollow' /\ Survives /\ Expected
<1>1. UNCHANGED <<rows, tools, turns, pending>>
  BY DEF db
<1>2. Stored' /\ Survives /\ Expected /\ OnceEach'
  BY <1>1, StoredStays
<1>3. Tooled' /\ ToolsFollow'
  BY <1>1, <1>2, ToolsStay
<1>4. Spooled'
  BY <1>1, SpooledStays
<1> QED BY <1>2, <1>3, <1>4

-----------------------------------------------------------------------------
(* Pi, the live writer and the daemon                                      *)

LEMMA Unrepeated ==
  ASSUME IInv, DOMAIN calls \subseteq DOMAIN calls', run' = [run EXCEPT !.repeat = FALSE]
  PROVE  run' \in RunRecords(run.inserted)' /\ SameRun /\ run'.stale = run.stale
         /\ run.stale \in BOOLEAN
<1>1. run \in RunRecords(run.inserted) /\ run.stale \in BOOLEAN
  BY DEF IInv, Running, RunRecords
<1>2. [run EXCEPT !.repeat = FALSE] = [run EXCEPT !.repeat = FALSE, !.stale = run.stale]
  BY <1>1 DEF RunRecords
<1>3. /\ run' \in RunRecords(run.inserted)' /\ SameRun /\ run'.stale = run.stale
      /\ run'.inserted = run.inserted
  BY <1>1, <1>2, MarkedRun
<1> QED BY <1>1, <1>3

LEMMA RunFacts ==
  ASSUME IInv
  PROVE  /\ runs \in Nat /\ (runs = 0 => run.phase = "idle")
         /\ run \in RunRecords(run.inserted) /\ run.stale \in BOOLEAN
BY DEF IInv, Running, RunRecords

LEMMA ForkKeeps ==
  ASSUME IInv, NEW f \in Files, NEW g \in Files, NEW n \in DOMAIN log[f], Fork(f, g, n)
  PROVE  IInv'
<1>1. World
  BY DEF IInv
<1>2. /\ World' /\ Grown /\ calls' = calls
      /\ \A h \in Files \ {g} : CallsOf(h)' = CallsOf(h)
  BY <1>1, ForkGrows
<1>3. run' = [run EXCEPT !.repeat = FALSE] /\ runs' = runs /\ UNCHANGED <<db, pending>>
      /\ log[g] = <<>>
  BY DEF Fork, NewToRead
<1>4. /\ run' \in RunRecords(run.inserted)' /\ SameRun /\ run'.stale = run.stale
      /\ run.stale \in BOOLEAN
  BY <1>2, <1>3, Unrepeated
<1>5. Stored' /\ Tooled' /\ Spooled' /\ OnceEach' /\ ToolsFollow' /\ Survives /\ Expected
  BY <1>2, <1>3, DatabaseStays
<1>6. SharedStays
  <2>1. SUFFICES ASSUME NEW e \in Files, NEW h \in Files, e < h, log[h] # <<>>
                 PROVE  CallsOf(e)' = CallsOf(e) /\ CallsOf(h)' = CallsOf(h)
    BY DEF SharedStays
  <2>2. log[e] # <<>>
    BY <1>1, <2>1 DEF World
  <2> QED BY <1>2, <1>3, <2>1, <2>2
<1>7. runs' \in Nat /\ runs <= runs'
  BY <1>3, RunFacts
<1>8. Running'
  BY <1>2, <1>4, <1>6, <1>7, RunningStays
<1>9. Covered' /\ Planned'
  BY <1>2, <1>4, <1>5, CoveredStays, PlannedStays
<1> QED BY <1>2, <1>5, <1>8, <1>9 DEF IInv

LEMMA CallKeeps ==
  ASSUME IInv, NEW f \in Files, NEW named \in BOOLEAN, NEW costly \in BOOLEAN, NEW t \in Tokens,
         NEW live \in {"none", "spool", "old"}, Call(f, named, costly, t, live)
  PROVE  IInv'
<1> DEFINE e == [named |-> named, costly |-> costly, tokens |-> t]
<1>0. PICK n : n = Len(calls) + 1
  OBVIOUS
<1>i. PICK i : i = Len(log[f])
  OBVIOUS
<1>1. World /\ e \in ApiCalls /\ n \in Nat /\ i \in Nat /\ f \in Nat
  BY <1>0, <1>i, WorldFacts DEF IInv, ApiCalls
<1>2. /\ Len(calls) < MaxCalls /\ Follows(f) /\ calls' = Append(calls, e)
      /\ log' = [log EXCEPT ![f] = Append(@, Len(calls'))]
      /\ (live = "old" => runs = 0) /\ runs' = runs
      /\ run' = [run EXCEPT !.repeat = FALSE]
  BY DEF Call, NewToRead
<1>3. /\ World' /\ Grown
      /\ \A g \in Files : CallsOf(g)' = CallsOf(g) \cup (IF g = f THEN {n} ELSE {})
      /\ Len(calls') = n /\ n \notin DOMAIN calls /\ n \in DOMAIN calls'
      /\ calls'[n] = e
      /\ log'[f] = Append(log[f], n)
      /\ \A g \in Files \ {f} : log'[g] = log[g]
      /\ First(n, f)' /\ Owned(n, f)'
  <2> HIDE DEF e
  <2>1. Len(calls) < MaxCalls /\ Follows(f) /\ Joins(f, e)
    BY <1>2 DEF Joins
  <2> QED BY <1>0, <1>1, <2>1, CallGrows
<1>4. /\ run' \in RunRecords(run.inserted)' /\ SameRun /\ run'.stale = run.stale
      /\ run.stale \in BOOLEAN
  BY <1>2, <1>3, Unrepeated DEF Grown
<1>5. SharedStays
  <2>1. ASSUME NEW d \in Files, NEW h \in Files, d < h
        PROVE  CallsOf(d)' \cap CallsOf(h)' \subseteq CallsOf(d) \cap CallsOf(h)
    <3>1. d # h
      BY <2>1 DEF Files
    <3>2. n \notin CallsOf(d) /\ n \notin CallsOf(h)
      BY <1>1, <1>3, WorldFacts
    <3> QED BY <1>3, <3>1, <3>2
  <2> QED BY <2>1 DEF SharedStays
<1>6. Running'
  <2>1. runs' \in Nat /\ runs <= runs'
    BY <1>2, RunFacts
  <2> QED BY <1>3, <1>4, <1>5, <2>1, RunningStays
<1>7. /\ ResponseId(n) \in Ids /\ Synthesized(f, i) \in Ids
      /\ (e.named <=> named)
  BY <1>1, IdFacts
<1>8. DOMAIN log'[f] = 1 .. i + 1 /\ log'[f][i + 1] = n /\ i + 1 \in DOMAIN log'[f]
  <2>1. log[f] \in Seq(Nat)
    BY <1>1, WorldFacts
  <2> QED BY <1>1, <1>3, <1>i, <2>1
\* The row that is spooled or stored.
<1>9. ASSUME NEW id \in Ids, NEW r, r = Row(id, f, i, n, "live")
      PROVE  r \in Rows /\ r.id = id /\ r.session = f /\ r.turn = i /\ r.call = n /\ r.by = "live"
  BY <1>1, <1>9 DEF Row, Rows
<1>10. ASSUME NEW r, r = Row(Synthesized(f, i), f, i, n, "live")
       PROVE  OldId(r)' /\ OldId(r)
  <2>1. /\ r.id = Synthesized(f, i) /\ r.session = f /\ r.turn = i
    BY <1>10 DEF Row
  <2> QED BY <2>1 DEF OldId
<1>11. CASE live = "none"
  <2>1. UNCHANGED <<db, pending>>
    BY <1>11 DEF Call, db
  <2>2. Stored' /\ Tooled' /\ Spooled' /\ OnceEach' /\ ToolsFollow' /\ Survives /\ Expected
    BY <1>3, <2>1, DatabaseStays
  <2>3. Covered' /\ Planned'
    BY <1>3, <1>4, <2>2, CoveredStays, PlannedStays
  <2> QED BY <1>3, <1>6, <2>2, <2>3 DEF IInv
<1>12. CASE live = "spool"
  <2>0. PICK id : id = IF named THEN ResponseId(n) ELSE Synthesized(f, i)
    OBVIOUS
  <2>r. PICK r : r = Row(id, f, i, n, "live")
    OBVIOUS
  <2>1. UNCHANGED <<rows, tools, turns>> /\ pending' = pending \cup {r}
    BY <1>3, <1>12, <1>i, <2>0, <2>r DEF Call, db
  <2>2. Stored' /\ Survives /\ Expected /\ OnceEach'
    BY <1>3, <2>1, StoredStays
  <2>3. Tooled' /\ ToolsFollow'
    BY <1>3, <2>1, <2>2, ToolsStay
  <2>4. Covered' /\ Planned'
    BY <1>3, <1>4, <2>2, CoveredStays, PlannedStays
  <2>5. Awaited(r)'
    <3>1. /\ r \in Rows /\ r.session = f /\ r.turn = i /\ r.call = n /\ r.by = "live"
          /\ (named => r.id = ResponseId(n))
      BY <1>7, <1>9, <2>0, <2>r
    <3>2. ~named => OldId(r)'
      BY <1>10, <2>0, <2>r
    <3>3. At(r)'
      BY <1>8, <3>1 DEF At
    <3> QED BY <1>3, <1>7, <3>1, <3>2, <3>3 DEF Awaited
  <2>6. ASSUME NEW q \in pending' \ {r}
        PROVE  /\ Awaited(q)'
               /\ calls'[q.call].named => \A p \in rows' : p.call = q.call => ~OldId(p)
    <3>1. q \in pending
      BY <2>1, <2>6
    <3>2. Awaited(q) /\ (calls[q.call].named => \A p \in rows : p.call = q.call => ~OldId(p))
      BY <3>1 DEF IInv, Spooled
    <3>3. Awaited(q)'
      BY <1>1, <1>3, <3>2, GrownKeeps
    <3>4. q.call \in DOMAIN calls
      BY <1>1, <3>2, WorldFacts DEF Awaited, Owned
    <3>5. calls'[q.call] = calls[q.call]
      BY <1>3, <3>4 DEF Grown
    <3> QED BY <2>1, <3>2, <3>3, <3>5
  <2>7. \A p \in rows' : p.call # r.call
    <3>1. r.call = n
      BY <2>r DEF Row
    <3>2. \A p \in rows : p.call \in Nat => p.call \in DOMAIN calls
      BY <1>1, CallRows DEF IInv
    <3> QED BY <1>1, <1>3, <2>1, <3>1, <3>2
  <2>8. Spooled'
    <3>1. \A q \in pending' : q = r \/ q \in pending' \ {r}
      BY <2>1
    <3> QED BY <2>5, <2>6, <2>7, <3>1 DEF Spooled, OldId
  <2> QED BY <1>3, <1>6, <2>2, <2>3, <2>4, <2>8 DEF IInv
<1>13. CASE live = "old"
  <2>r. PICK r : r = Row(Synthesized(f, i), f, i, n, "live")
    OBVIOUS
  <2>u. PICK u : u = [call |-> n, session |-> f, by |-> "live"]
    OBVIOUS
  <2>1. /\ rows' = rows \cup {r} /\ tools' = tools \cup {u}
        /\ turns' = turns \cup {<<f, -1>>, <<f, i>>} /\ pending' = pending
    BY <1>3, <1>13, <1>i, <2>r, <2>u DEF Call
  <2>2. /\ r \in Rows /\ r.id = Synthesized(f, i) /\ r.session = f /\ r.turn = i
        /\ r.call = n /\ r.by = "live"
    BY <1>7, <1>9, <2>r
  <2>3. OldId(r)' /\ OldId(r) /\ At(r)'
    BY <1>8, <1>10, <2>2, <2>r DEF At
  <2>4. u \in ToolRows /\ u.call = n /\ u.session = f /\ u.by = "live"
    BY <1>1, <2>u DEF ToolRows
  <2>5. RowOK(r)' /\ ToolOK(u)'
    BY <1>3, <2>2, <2>3, <2>4 DEF RowOK, OwnRow, ToolOK
  <2>6. \A q \in rows : RowOK(q) /\ (q.call \in Nat => q.call \in DOMAIN calls)
    BY <1>1, CallRows DEF IInv, Stored
  <2>7. \A q \in rows : q.call # n
    BY <1>1, <1>3, <2>6
  <2>8. ASSUME NEW q \in rows PROVE q.id # r.id
    <3>1. SUFFICES ASSUME q.id = r.id PROVE FALSE
      OBVIOUS
    <3>2. q.id = Synthesized(f, i)
      BY <2>2, <3>1
    <3>3. OwnRow(q)
      BY <2>6, <3>2, IdFacts DEF RowOK, LegacyRow
    <3>4. OldId(q)
      BY <3>2, <3>3, IdFacts DEF OwnRow
    <3>5. q.session = f /\ q.turn = i
      <4>1. Synthesized(f, i) = Synthesized(q.session, q.turn)
        BY <3>2, <3>4 DEF OldId
      <4> QED BY <4>1, IdFacts
    <3>6. i + 1 \in 1 .. i
      BY <1>1, <1>i, <3>3, <3>5, WorldFacts DEF OwnRow, At
    <3> QED BY <1>1, <3>6
  <2>9. Stored'
    <3>1. \A q \in rows' : RowOK(q)'
      BY <1>1, <1>3, <2>1, <2>5, <2>6, GrownKeeps
    <3>2. \A q \in rows' : Placed(q, turns')
      BY <2>1, <2>2 DEF Placed, IInv, Stored
    <3>3. IdsUnique(rows')
      BY <2>1, <2>8 DEF IdsUnique, IInv, Stored
    <3> QED BY <3>1, <3>2, <3>3 DEF Stored, Placed, IdsUnique
  <2>10. Survives
    BY <2>1 DEF Survives, Alike
  <2>11. Tooled'
    <3>1. \A v \in tools' : ToolOK(v)'
      BY <1>1, <1>3, <2>1, <2>5, GrownKeeps DEF IInv, Tooled
    <3>2. ASSUME NEW v \in tools PROVE v.call # n
      <4>1. v.call \in Nat => v.call \in DOMAIN calls
        BY <1>1, WorldFacts DEF IInv, Tooled, ToolOK, Owned
      <4> QED BY <1>1, <1>3, <4>1
    <3> QED BY <2>1, <2>4, <3>1, <3>2 DEF IInv, Tooled
  <2>12. ToolsFollow'
    <3>1. \A v \in tools' : v.by = "log" => v \in tools
      BY <2>1, <2>4
    <3> QED BY <1>3, <2>10, <3>1, FollowStays
  <2>13. OnceEach'
    <3>1. SUFFICES ASSUME NEW p \in rows', NEW q \in rows', p.call = q.call, p.call \in Plain',
                          calls'[p.call].named
                   PROVE  p = q
      BY DEF OnceEach
    <3>2. CASE p.call = n
      BY <2>1, <2>7, <3>1, <3>2
    <3>3. CASE p.call # n
      <4>1. p \in rows /\ q \in rows
        BY <2>1, <2>2, <3>1, <3>3
      <4>2. p.call \in Nat
        BY <1>3, <3>1, WorldPrimed DEF Plain
      <4>3. p.call \in DOMAIN calls
        BY <2>6, <4>1, <4>2
      <4>4. p.call \in Plain /\ calls'[p.call] = calls[p.call]
        BY <1>1, <1>3, <3>1, <4>3, GrownKeeps DEF Grown
      <4> QED BY <3>1, <4>1, <4>4 DEF IInv, OnceEach
    <3> QED BY <3>2, <3>3
  <2>14. Spooled'
    <3>1. \A p \in rows' : p.call \in DOMAIN calls => p \in rows
      BY <1>3, <2>1, <2>2
    <3> QED BY <1>3, <2>1, <3>1, SpooledStays
  <2>15. Covered'
    BY <1>3, <1>4, <2>10, CoveredStays
  <2>16. Planned'
    <3>1. run'.phase = "idle"
      BY <1>2, <1>4, <1>13, RunFacts DEF SameRun
    <3> QED BY <3>1 DEF Planned
  <2> QED BY <1>3, <1>6, <2>9, <2>11, <2>12, <2>13, <2>14, <2>15, <2>16 DEF IInv
<1> QED BY <1>11, <1>12, <1>13

\* A row the drain finds is one of the call in the spool, or of one like it.
LEMMA FoundRow ==
  ASSUME World, Stored, NEW r, Awaited(r), NEW q \in rows, q.id = r.id
  PROVE  /\ q.session = r.session /\ q.call \in DOMAIN calls /\ Alike(r.call, q.call)
         /\ ~Mistaken(q) => q.call = r.call /\ q.turn = r.turn
<1>1. /\ Owned(r.call, r.session) /\ At(r) /\ r.session \in Files /\ r.call \in DOMAIN calls
      /\ r.call \in Nat /\ r.turn \in Nat
      /\ calls[r.call].named => r.id = ResponseId(r.call)
      /\ ~calls[r.call].named => OldId(r)
  BY WorldFacts DEF Awaited, Owned, Rows
<1>2. RowOK(q) /\ q \in Rows /\ q.turn \in Nat
  BY DEF Stored, RowOK, Rows
<1>3. \A c : r.id # LegacyId(c)
  BY <1>1, IdFacts DEF OldId
<1>4. OwnRow(q)
  BY <1>2, <1>3 DEF RowOK, LegacyRow
<1>5. q.session \in Files /\ q.call \in DOMAIN calls /\ At(q)
  BY <1>4, WorldFacts DEF OwnRow, Owned
<1>6. CASE calls[r.call].named
  <2>1. q.id = ResponseId(r.call)
    BY <1>1, <1>6
  <2>2. PICK c \in DOMAIN calls : Alike(c, q.call) /\ Owned(c, q.session) /\ q.id = ResponseId(c)
    BY <1>4, <2>1, IdFacts DEF OwnRow, OldId
  <2>3. c = r.call
    BY <2>1, <2>2, IdFacts
  <2>4. q.session = r.session
    BY <1>1, <1>6, <2>2, <2>3, OneOwner
  <2>5. ~Mistaken(q) => q.call = r.call
    BY <1>1, <2>1 DEF Mistaken
  <2> QED BY <1>1, <1>2, <1>5, <2>2, <2>3, <2>4, <2>5, SameTurn
<1>7. CASE ~calls[r.call].named
  <2>1. r.id = Synthesized(r.session, r.turn)
    BY <1>1, <1>7 DEF OldId
  <2>2. q.id = Synthesized(q.session, q.turn)
    BY <1>4, <2>1, IdFacts DEF OwnRow, OldId
  <2>3. q.session = r.session /\ q.turn = r.turn
    BY <2>1, <2>2, IdFacts
  <2>4. q.call = r.call
    BY <1>1, <1>5, <2>3 DEF At
  <2> QED BY <1>5, <2>3, <2>4 DEF Alike
<1> QED BY <1>6, <1>7

LEMMA DrainKeeps ==
  ASSUME IInv, NEW r \in pending, Drain(r)
  PROVE  /\ IInv'
         /\ \A q \in rows : (q.by = "live" /\ (q.id = r.id => ~Mistaken(q))) => q \in rows'
<1>1. /\ World /\ Stored /\ Tooled /\ Spooled /\ OnceEach /\ ToolsFollow
  BY DEF IInv
<1>2. /\ UNCHANGED <<calls, log>> /\ runs' = runs /\ pending' = pending \ {r}
      /\ run' = [run EXCEPT !.repeat = FALSE, !.stale = run.phase = "write"]
      /\ turns' = turns \cup {<<r.session, -1>>, <<r.session, r.turn>>}
      /\ tools' = IF \E t \in tools : t.call = r.call THEN tools
                  ELSE tools \cup {[call |-> r.call, session |-> r.session, by |-> "live"]}
      /\ rows' = {q \in rows : q.id # r.id} \cup {r}
  BY DEF Drain
<1>3. World' /\ Grown
  BY <1>1, <1>2, NotGrown
<1>4. /\ Awaited(r) /\ r \in Rows /\ r.by = "live" /\ Owned(r.call, r.session) /\ At(r)
      /\ r.session \in Files /\ r.call \in DOMAIN calls /\ r.call \in Nat
      /\ (calls[r.call].named =>
            r.id = ResponseId(r.call) /\ \A q \in rows : q.call = r.call => ~OldId(q))
      /\ (~calls[r.call].named => OldId(r))
  <2>1. Awaited(r) /\ (calls[r.call].named => \A q \in rows : q.call = r.call => ~OldId(q))
    BY <1>1 DEF Spooled
  <2>2. Owned(r.call, r.session)
    BY <2>1 DEF Awaited
  <2>3. r.session \in Files /\ r.call \in DOMAIN calls /\ r.call \in Nat
    BY <1>1, <2>2, WorldFacts DEF Owned
  <2> QED BY <2>1, <2>2, <2>3 DEF Awaited
<1>5. RowOK(r)
  BY <1>4 DEF OwnRow, Alike, RowOK
<1>6. \A p \in rows' : p = r \/ (p \in rows /\ p.id # r.id)
  BY <1>2
<1>7. Survives
  <2>1. SUFFICES ASSUME NEW q \in rows, q.call \in DOMAIN calls
                 PROVE  \E p \in rows' : /\ p.id = q.id /\ p.session = q.session
                                         /\ p.call \in DOMAIN calls /\ Alike(p.call, q.call)
    BY DEF Survives
  <2>2. CASE q.id # r.id
    BY <1>2, <2>1, <2>2 DEF Alike
  <2>3. CASE q.id = r.id
    <3>1. r.session = q.session /\ Alike(r.call, q.call)
      BY <1>1, <1>4, <2>3, FoundRow
    <3> QED BY <1>2, <1>4, <2>3, <3>1
  <2> QED BY <2>2, <2>3
<1>8. ASSUME NEW q \in rows, q.by = "live", q.id = r.id => ~Mistaken(q) PROVE q \in rows'
  <2>1. CASE q.id # r.id
    BY <1>2, <2>1
  <2>2. CASE q.id = r.id
    <3>1. q.session = r.session /\ q.call = r.call /\ q.turn = r.turn /\ q.by = r.by
      BY <1>1, <1>4, <1>8, <2>2, FoundRow
    <3>2. q \in Rows /\ r \in Rows
      BY <1>1, <1>4 DEF Stored, RowOK
    <3>3. q = r
      BY <2>2, <3>1, <3>2 DEF Rows
    <3> QED BY <1>2, <3>3
  <2> QED BY <2>1, <2>2
<1>10. Stored'
  <2>1. ASSUME NEW p \in rows' PROVE RowOK(p)' /\ Placed(p, turns')
    <3>1. CASE p = r
      BY <1>1, <1>2, <1>3, <1>5, <3>1, GrownKeeps DEF Placed
    <3>2. CASE p \in rows
      <4>1. RowOK(p) /\ Placed(p, turns)
        BY <1>1, <3>2 DEF Stored
      <4>2. RowOK(p)'
        BY <1>1, <1>3, <4>1, GrownKeeps
      <4> QED BY <1>2, <4>1, <4>2 DEF Placed
    <3> QED BY <1>6, <2>1, <3>1, <3>2
  <2>2. IdsUnique(rows')
    BY <1>1, <1>6 DEF Stored, IdsUnique
  <2> QED BY <2>1, <2>2 DEF Stored, Placed, IdsUnique
<1>11. Tooled' /\ ToolsFollow'
  <2>1. PICK u : u = [call |-> r.call, session |-> r.session, by |-> "live"]
    OBVIOUS
  <2>2. u.call = r.call /\ u.session = r.session /\ u.by = "live" /\ ToolOK(u)
    <3>1. u \in ToolRows
      BY <1>4, <2>1 DEF ToolRows, Rows
    <3> QED BY <1>4, <2>1, <3>1 DEF ToolOK
  <2>3. tools' = tools \/ (tools' = tools \cup {u} /\ \A t \in tools : t.call # u.call)
    BY <1>2, <2>1, <2>2
  <2>4. \A t \in tools' : ToolOK(t)'
    BY <1>1, <1>3, <2>2, <2>3, GrownKeeps DEF Tooled
  <2>5. \A t, s \in tools' : t.call = s.call => t = s
    BY <1>1, <2>3 DEF Tooled
  <2>6. \A t \in tools' : t.by = "log" => t \in tools
    BY <2>2, <2>3
  <2>7. ToolsFollow'
    BY <1>3, <1>7, <2>6, FollowStays
  <2> QED BY <2>4, <2>5, <2>7 DEF Tooled
<1>12. \A p \in rows' : OldId(p) => p \in rows \/ (p = r /\ ~calls[p.call].named)
  <2>1. SUFFICES ASSUME OldId(r), calls[r.call].named PROVE FALSE
    BY <1>6
  <2> QED BY <1>4, <2>1, IdFacts DEF OldId
<1>13. Spooled'
  <2>1. ASSUME NEW q \in pending'
        PROVE  /\ Awaited(q)'
               /\ calls'[q.call].named => \A p \in rows' : p.call = q.call => ~OldId(p)
    <3>1. Awaited(q) /\ (calls[q.call].named => \A p \in rows : p.call = q.call => ~OldId(p))
      BY <1>1, <1>2, <2>1 DEF Spooled
    <3>2. Awaited(q)'
      BY <1>1, <1>3, <3>1, GrownKeeps
    <3> QED BY <1>2, <1>12, <3>1, <3>2
  <2> QED BY <2>1 DEF Spooled, OldId
<1>14. OnceEach'
  <2>1. Plain' = Plain
    BY <1>2 DEF Plain
  <2>2. ASSUME NEW q \in rows, q.id # r.id, q.call = r.call, r.call \in Plain,
               calls[r.call].named
        PROVE  FALSE
    <3>1. OwnRow(q)
      BY <1>1, <1>4, <2>2, CallRows
    <3>2. ~OldId(q)
      BY <1>4, <2>2
    <3>3. PICK c \in DOMAIN calls : Alike(c, r.call) /\ q.id = ResponseId(c)
      BY <2>2, <3>1, <3>2 DEF OwnRow
    <3>4. c = r.call
      BY <1>4, <2>2, <3>3 DEF Plain, Alike
    <3> QED BY <1>4, <2>2, <3>3, <3>4
  <2>3. ASSUME NEW p \in rows', NEW s \in rows', p.call = s.call, p.call \in Plain,
               calls[p.call].named
        PROVE  p = s
    <3>1. CASE p = r \/ s = r
      BY <1>6, <2>2, <2>3, <3>1
    <3>2. CASE p # r /\ s # r
      BY <1>1, <1>6, <2>3, <3>2 DEF OnceEach
    <3> QED BY <3>1, <3>2
  <2> QED BY <1>2, <2>1, <2>3 DEF OnceEach
<1>15. /\ run' \in RunRecords(run.inserted)' /\ SameRun /\ run'.stale = (run.phase = "write")
       /\ run.stale \in BOOLEAN /\ runs \in Nat
  <2>1. PICK stale \in BOOLEAN : stale = (run.phase = "write")
    OBVIOUS
  <2>2. run' = [run EXCEPT !.repeat = FALSE, !.stale = stale]
    BY <1>2, <2>1
  <2>3. /\ run' \in RunRecords(run.inserted)' /\ SameRun /\ run'.stale = stale
    BY <1>2, <2>2, MarkedRun
  <2> QED BY <2>1, <2>3, RunFacts
<1>16. Running'
  <2>1. SharedStays
    BY <1>2, SharedWithoutCalls
  <2> QED BY <1>2, <1>3, <1>15, <2>1, RunningStays
<1>18. Covered'
  BY <1>3, <1>7, <1>15, CoveredStays
<1>19. Planned'
  <2>1. CASE run.phase # "write"
    BY <1>15, <2>1 DEF Planned, SameRun
  <2>2. CASE run.phase = "write"
    <3>1. Expected
      <4>1. calls[r.call].named => ~OldId(r)
        BY <1>4, IdFacts DEF OldId
      <4>2. run'.stale
        BY <1>15, <2>2
      <4> QED BY <1>6, <4>1, <4>2 DEF Expected
    <3> QED BY <1>3, <1>7, <1>15, <2>2, <3>1, PlannedStays
  <2> QED BY <2>1, <2>2
<1> QED BY <1>3, <1>8, <1>10, <1>11, <1>13, <1>14, <1>16, <1>18, <1>19 DEF IInv

-----------------------------------------------------------------------------
(* importPiSessionLogs                                                     *)

LEMMA ZeroCounts == IInv => Zero \in Counts
<1>1. SUFFICES ASSUME IInv PROVE Zero \in Counts
  OBVIOUS
<1>2. MaxCalls \in Nat
  BY <1>1, WorldFacts DEF IInv
<1> QED BY <1>2 DEF Counts, Zero

\* An import starts, between two others.
LEMMA StartImportKeeps ==
  ASSUME IInv, NEW from \in Files, NEW to \in 2 .. MaxFiles + 1,
         NEW until \in {MaxCalls, MaxCalls + 1}, NEW dry \in BOOLEAN,
         StartImport(from, to, until, dry)
  PROVE  IInv'
<1> DEFINE again == settled = Options(from, to, until)
           new == [phase |-> "read", todo |-> Discovered(from, to), file |-> 0, until |-> until,
                   dry |-> dry, seen |-> {c \in Seeded(from) : calls[c].named},
                   seenTools |-> Seeded(from), plan |-> <<>>, counts |-> Zero,
                   seeded |-> Seeded(from), covered |-> {}, inserted |-> 0, failed |-> FALSE,
                   stale |-> FALSE, repeat |-> again]
<1>1. World
  BY DEF IInv
<1>2. /\ runs' = runs + 1 /\ UNCHANGED <<calls, log, pending>> /\ UNCHANGED db
      /\ run' = [NoRun EXCEPT
           !.phase = "read", !.todo = Discovered(from, to), !.until = until, !.dry = dry,
           !.seen = {c \in Seeded(from) : calls[c].named}, !.seenTools = Seeded(from),
           !.seeded = Seeded(from), !.repeat = again]
  BY DEF StartImport, world
<1>3. World' /\ Grown
  BY <1>1, <1>2, NotGrown
<1>4. Stored' /\ Tooled' /\ Spooled' /\ OnceEach' /\ ToolsFollow'
  BY <1>2, <1>3, DatabaseStays
<1>5. run' = new
  BY <1>2 DEF NoRun
<1>6. /\ run'.phase = "read" /\ run'.todo = Discovered(from, to)
      /\ run'.seen = {c \in Seeded(from) : calls[c].named}
      /\ run'.seeded = Seeded(from) /\ run'.covered = {}
  BY <1>5
<1>7. run' \in RunRecords(run.inserted)'
  <2>1. Seeded(from) \subseteq DOMAIN calls
    BY <1>1, WorldFacts DEF Seeded
  <2>2. Discovered(from, to) \subseteq Files
    BY DEF Discovered
  <2>3. until \in Nat /\ Zero \in Counts /\ run'.inserted = 0 /\ again \in BOOLEAN
    BY <1>1, <1>5, WorldFacts, ZeroCounts
  <2>4. <<>> \in Seq(Decisions)
    OBVIOUS
  <2> DEFINE disc == Discovered(from, to)
             sd == Seeded(from)
             sn == {c \in Seeded(from) : calls[c].named}
             zero == Zero
  <2>5. /\ new = [phase |-> "read", todo |-> disc, file |-> 0, until |-> until,
                   dry |-> dry, seen |-> sn,
                   seenTools |-> sd, plan |-> <<>>, counts |-> zero,
                   seeded |-> sd, covered |-> {}, inserted |-> 0, failed |-> FALSE,
                   stale |-> FALSE, repeat |-> again]
        /\ sn \subseteq DOMAIN calls' /\ sd \subseteq DOMAIN calls' /\ disc \subseteq Files
        /\ zero \in Counts
    BY <1>2, <2>1, <2>2, <2>3
  <2> HIDE DEF disc, sd, sn, zero, again, new
  <2> QED BY <1>5, <2>3, <2>4, <2>5 DEF RunRecords
<1>8. Running'
  <2>1. \A f \in run'.todo : f \in Files /\ log'[f] # <<>>
    BY <1>2, <1>6 DEF Discovered
  <2>2. ASSUME NEW f \in run'.todo, NEW e \in Files, e < f PROVE e \in run'.todo \/ Known(e, f)'
    <3>1. /\ f \in Files /\ log[f] # <<>> /\ f < to
      BY <1>6 DEF Discovered, InDateRange
    <3>2. log[e] # <<>>
      BY <1>1, <2>2, <3>1 DEF World
    <3>3. CASE from <= e
      <4>1. e < to
        <5>1. to \in Nat /\ e \in Nat /\ f \in Nat
          BY <3>1 DEF Files
        <5> QED BY <2>2, <3>1, <5>1
      <4> QED BY <1>6, <3>2, <3>3, <4>1 DEF Discovered, InDateRange
    <3>4. CASE ~(from <= e)
      <4>1. e < from
        BY <3>4 DEF Files
      <4>2. CallsOf(e) \subseteq Seeded(from)
        BY <4>1 DEF Seeded
      <4>3. CallsOf(e)' = CallsOf(e)
        BY <1>2 DEF CallsOf
      <4>4. \A c \in CallsOf(e)' : calls'[c].named => c \in run'.seen
        BY <1>2, <1>6, <4>2, <4>3
      <4> QED BY <4>4 DEF Known
    <3> QED BY <3>3, <3>4
  <2>3. run'.seen \subseteq run'.covered \cup run'.seeded
    BY <1>6
  <2>4. runs' \in Nat /\ runs' # 0
    BY <1>2, RunFacts
  <2> QED BY <1>7, <2>1, <2>2, <2>3, <2>4 DEF Running
<1>9. Covered' /\ Planned'
  BY <1>6 DEF Covered, Planned
<1> QED BY <1>3, <1>4, <1>8, <1>9 DEF IInv

\* A file is read, and what is decided about its calls is right.
IsRead(f, st) ==
  /\ f \in run.todo /\ Deciding(st, f, run.until, run.seen, Len(log[f]))
  /\ run' = [run EXCEPT
       !.phase = "write", !.todo = run.todo \ {f}, !.file = f, !.plan = st.plan, !.seen = st.seen,
       !.counts = st.counts, !.covered = run.covered \cup CallsOf(f), !.stale = FALSE]

LEMMA FileIsRead ==
  ASSUME IInv, ReadSession
  PROVE  \E f \in Files : \E st : IsRead(f, st)
<1>1. World /\ Stored /\ Running /\ run \in RunRecords(run.inserted)
  BY DEF IInv, Running
<1>2. PICK f \in run.todo :
        /\ \A g \in run.todo : f <= g
        /\ run' = [run EXCEPT
             !.phase = "write", !.todo = @ \ {f}, !.file = f,
             !.plan = Decided(f, run.until, run.seen).plan,
             !.seen = Decided(f, run.until, run.seen).seen,
             !.counts = Decided(f, run.until, run.seen).counts,
             !.covered = @ \cup CallsOf(f), !.stale = FALSE]
  BY DEF ReadSession
<1>3. PICK st : st = Decided(f, run.until, run.seen)
  OBVIOUS
<1>4. f \in Files /\ run.seen \subseteq DOMAIN calls /\ f \in Nat
  BY <1>1 DEF RunRecords, Files
<1>5. OldSeen(f, run.seen)
  <2>1. SUFFICES ASSUME NEW e \in Files, e < f PROVE Known(e, f)
    BY DEF OldSeen, Known
  <2>2. e \notin run.todo
    <3>1. e \in Nat
      BY DEF Files
    <3> QED BY <1>2, <1>4, <2>1, <3>1
  <2> QED BY <1>1, <2>1, <2>2 DEF Running
<1>6. Deciding(st, f, run.until, run.seen, Len(log[f]))
  BY <1>1, <1>3, <1>4, <1>5, DecidedRight
<1>7. run' = [run EXCEPT
         !.phase = "write", !.todo = run.todo \ {f}, !.file = f, !.plan = st.plan, !.seen = st.seen,
         !.counts = st.counts, !.covered = run.covered \cup CallsOf(f), !.stale = FALSE]
  BY <1>2, <1>3
<1> QED BY <1>2, <1>4, <1>6, <1>7 DEF IsRead

LEMMA ReadSessionKeeps ==
  ASSUME IInv, ReadSession
  PROVE  IInv'
<1>1. World /\ Stored /\ Running /\ Covered /\ run \in RunRecords(run.inserted)
  BY DEF IInv, Running
<1>2. PICK f \in Files : \E st : IsRead(f, st)
  BY FileIsRead
<1>3. /\ run.phase = "read" /\ runs' = runs /\ UNCHANGED <<calls, log, pending>> /\ UNCHANGED db
      /\ UNCHANGED rows
  BY DEF ReadSession, world, db
<1>4. World' /\ Grown
  BY <1>1, <1>3, NotGrown
<1>5. Stored' /\ Tooled' /\ Spooled' /\ OnceEach' /\ ToolsFollow'
  BY <1>3, <1>4, DatabaseStays
<1>6. PICK st : IsRead(f, st)
  BY <1>2
<1>7. PICK until : until = run.until
  OBVIOUS
<1>8. PICK seen : seen = run.seen
  OBVIOUS
<1>9. f \in run.todo /\ f \in Files /\ seen \subseteq DOMAIN calls /\ f \in Nat
  BY <1>1, <1>6, <1>8 DEF RunRecords, Files, IsRead
<1> DEFINE N == Len(log[f])
<1>11. Deciding(st, f, until, seen, N)
  BY <1>6, <1>7, <1>8 DEF IsRead
<1>12. /\ st \in DecideRecords(f) /\ Len(st.plan) = N /\ st.plan \in Seq(Decisions)
       /\ st.seen \subseteq DOMAIN calls /\ st.counts \in Counts
       /\ N \in Nat /\ DOMAIN log[f] = 1 .. N /\ DOMAIN st.plan = 1 .. N
  <2>1. st \in DecideRecords(f) /\ Len(st.plan) = N
    BY <1>11 DEF Deciding
  <2>2. st.plan \in Seq(Decisions) /\ st.seen \subseteq DOMAIN calls /\ st.counts \in Counts
    BY <2>1 DEF DecideRecords
  <2>3. N \in Nat /\ DOMAIN log[f] = 1 .. N
    BY <1>1, <1>9, WorldFacts
  <2> QED BY <2>1, <2>2, <2>3
<1>13. PICK cs : cs = CallsOf(f)
  OBVIOUS
<1>14. cs \subseteq DOMAIN calls
  BY <1>1, <1>9, <1>13, WorldFacts
<1>15. run' = [run EXCEPT
         !.phase = "write", !.todo = run.todo \ {f}, !.file = f, !.plan = st.plan, !.seen = st.seen,
         !.counts = st.counts, !.covered = run.covered \cup cs, !.stale = FALSE]
  BY <1>6, <1>13 DEF IsRead
<1>16. /\ run'.phase = "write" /\ run'.todo = run.todo \ {f} /\ run'.file = f
       /\ run'.plan = st.plan /\ run'.seen = st.seen /\ run'.counts = st.counts
       /\ run'.covered = run.covered \cup cs /\ run'.stale = FALSE
       /\ run'.until = until /\ run'.dry = run.dry /\ run'.failed = run.failed
       /\ run'.seeded = run.seeded /\ run'.inserted = run.inserted
  BY <1>1, <1>7, <1>15 DEF RunRecords
<1>17. run' \in RunRecords(run.inserted)'
  <2>1. run' \in RunRecords(run.inserted)
    BY <1>1, <1>9, <1>12, <1>14, <1>15 DEF RunRecords
  <2> QED BY <1>3, <1>16, <2>1 DEF RunRecords
<1>18. /\ seen \subseteq st.seen /\ st.seen \subseteq seen \cup cs
       /\ \A c \in cs : calls[c].named => c \in st.seen
  <2>1. /\ seen \subseteq st.seen /\ st.seen \subseteq seen \cup {log[f][i] : i \in 1 .. N}
        /\ \A i \in 1 .. N : calls[log[f][i]].named => log[f][i] \in st.seen
    BY <1>11 DEF Deciding
  <2> QED BY <1>12, <1>13, <2>1 DEF CallsOf
<1>19. Running'
  <2>1. \A g \in run'.todo : log'[g] # <<>>
    BY <1>1, <1>3, <1>16 DEF Running
  <2>2. ASSUME NEW g \in run'.todo, NEW e \in Files, e < g PROVE e \in run'.todo \/ Known(e, g)'
    <3>1. \A h \in Files : CallsOf(h)' = CallsOf(h)
      BY <1>3 DEF CallsOf
    <3>2. g \in run.todo /\ g \in Files
      BY <1>1, <1>16, <2>2 DEF RunRecords
    <3>3. Known(e, g) => Known(e, g)'
      BY <1>3, <1>8, <1>16, <1>18, <3>1, <3>2 DEF Known
    <3>4. e = f => Known(e, g)'
      BY <1>3, <1>13, <1>16, <1>18, <3>1, <3>2 DEF Known
    <3> QED BY <1>1, <1>16, <2>2, <3>2, <3>3, <3>4 DEF Running
  <2>3. run'.seen \subseteq run'.covered \cup run'.seeded
    BY <1>1, <1>8, <1>16, <1>18 DEF Running
  <2>4. runs' \in Nat /\ runs' # 0
    BY <1>3, RunFacts
  <2> QED BY <1>17, <2>1, <2>2, <2>3, <2>4 DEF Running
<1>20. \A i \in 1 .. N : /\ DecisionOK(st.plan[i], f, i, FALSE)
                         /\ Justified(st.plan[i], until, seen)
                         /\ st.plan[i] \in Decisions
  BY <1>11 DEF Deciding, DecisionOK
<1>21. Covered'
  <2>1. SUFFICES ASSUME ~run.dry, ~run.failed, NEW c \in run.covered \cup cs, c \in Plain
                 PROVE  \/ IsZeroCostSkip(c) \/ IsCutoff(c, until) \/ c \in run.seeded
                        \/ \E r \in rows : r.call = c
                        \/ Ahead(c)'
    BY <1>3, <1>16 DEF Covered, Plain, IsZeroCostSkip, IsCutoff
  <2>2. CASE c \in run.covered
    BY <1>1, <1>3, <1>7, <2>1, <2>2 DEF Covered, Ahead
  <2>3. CASE c \in cs /\ c \notin run.covered
    <3>1. PICK i \in 1 .. N : c = log[f][i]
      BY <1>12, <1>13, <2>3 DEF CallsOf
    <3>2. PICK d : d = st.plan[i]
      OBVIOUS
    <3>3. DecisionOK(d, f, i, FALSE) /\ Justified(d, until, seen) /\ d.what \in Whats /\ d.call = c
      BY <1>20, <3>1, <3>2 DEF DecisionOK, Decisions
    <3>4. CASE d.what = "import"
      BY <1>12, <1>16, <3>2, <3>3, <3>4 DEF Ahead
    <3>5. CASE d.what = "boundary"
      <4>1. Matched(d, f)
        BY <3>3, <3>5 DEF DecisionOK
      <4>2. PICK r \in rows : r.session = f /\ Alike(r.call, d.row.call)
        BY <4>1 DEF Matched
      <4>3. r.call \in DOMAIN calls
        BY <1>1, <1>9, <4>2, OwnRows
      <4>4. r.call = c
        BY <2>1, <3>3, <4>1, <4>2, <4>3 DEF Matched, Alike, Plain
      <4> QED BY <4>4
    <3>6. CASE d.what \in {"zero", "cutoff"}
      BY <3>3, <3>6 DEF Justified
    <3>7. CASE d.what = "replay"
      BY <1>1, <1>8, <2>3, <3>3, <3>7 DEF Justified, IsReplay, Running
    <3> QED BY <3>3, <3>4, <3>5, <3>6, <3>7 DEF Whats
  <2> QED BY <2>1, <2>2, <2>3
<1>22. Planned'
  <2>1. Plain' = Plain /\ \A g \in Files : CallsOf(g)' = CallsOf(g)
    BY <1>3 DEF Plain, CallsOf
  <2>2. ASSUME NEW i \in 1 .. N, NEW d, d = st.plan[i] PROVE DecisionOK(d, f, i, FALSE)'
    <3>1. DecisionOK(d, f, i, FALSE)
      BY <1>20, <2>2
    <3>2. d.what = "boundary" => Matched(d, f)' /\ (calls'[d.call].named => Owned(d.call, f)')
      <4>0. (d.what = "boundary" /\ calls'[d.call].named) => Owned(d.call, f)'
        <5>1. (d.what = "boundary" /\ calls[d.call].named) => Owned(d.call, f)
          BY <3>1 DEF DecisionOK
        <5> QED BY <1>1, <1>3, <1>4, <5>1, GrownKeeps
      <4>1. SUFFICES ASSUME Matched(d, f) PROVE Matched(d, f)'
        BY <3>1, <4>0 DEF DecisionOK
      <4>2. RowOK(d.row)'
        BY <1>1, <1>4, <4>1, GrownKeeps DEF Matched
      <4> QED BY <1>3, <4>1, <4>2 DEF Matched, Alike
    <3>3. d.what = "import" => Owned(d.call, f)' /\ Absent(d.call, f, FALSE)'
      <4>1. SUFFICES ASSUME Owned(d.call, f), Absent(d.call, f, FALSE)
                     PROVE  Owned(d.call, f)' /\ Absent(d.call, f, FALSE)'
        BY <3>1 DEF DecisionOK
      <4>2. Owned(d.call, f)'
        BY <1>1, <1>4, <4>1, GrownKeeps
      <4> QED BY <1>3, <2>1, <4>1, <4>2 DEF Absent, OldId
    <3> QED BY <1>3, <3>1, <3>2, <3>3 DEF DecisionOK
  <2>3. ASSUME NEW i \in DOMAIN run'.plan
        PROVE  DecisionOK(run.plan[i], run.file, i, run.stale)'
    <3>1. i \in 1 .. N
      BY <1>12, <1>16, <2>3
    <3> QED BY <1>16, <2>2, <3>1
  <2>4. /\ st.counts.imported = 0 /\ st.counts.canonical = 0 /\ st.counts.tools = 0
        /\ st.counts.boundary <= Cardinality(Boundaries(st.plan, Len(st.plan), 0))
    BY <1>11, <1>12 DEF Deciding
  <2>5. run'.counts.boundary <= Cardinality(Boundaries(run.plan, Len(run.plan), 0))'
    BY <1>16, <2>4 DEF Boundaries
  <2> QED BY <1>9, <1>16, <2>3, <2>4, <2>5 DEF Planned
<1> QED BY <1>4, <1>5, <1>19, <1>21, <1>22 DEF IInv

\* A session has been dealt with: the run goes on to the next.
SessionEnds(S, C, inserted, failed) ==
  run' = [run EXCEPT !.phase = "read", !.seenTools = S, !.counts = C,
                     !.inserted = inserted, !.failed = failed]

LEMMA SessionOver ==
  ASSUME IInv, NEW S, S \subseteq DOMAIN calls, NEW C \in Counts,
         NEW inserted, NEW failed \in BOOLEAN, UNCHANGED <<calls, log>>, runs' = runs,
         run.phase = "write", SessionEnds(S, C, inserted, failed)
  PROVE  /\ Running' /\ Planned' /\ World' /\ Grown
         /\ run'.phase = "read" /\ run'.dry = run.dry /\ run'.until = run.until
         /\ run'.covered = run.covered /\ run'.seeded = run.seeded /\ run'.failed = failed
<1>1. /\ World /\ Running /\ run \in RunRecords(run.inserted)
  BY DEF IInv, Running
<1>2. World' /\ Grown
  BY <1>1, NotGrown
<1>3. /\ run'.phase = "read" /\ run'.dry = run.dry /\ run'.until = run.until
      /\ run'.covered = run.covered /\ run'.seeded = run.seeded /\ run'.failed = failed
      /\ run'.todo = run.todo /\ run'.seen = run.seen /\ run'.inserted = inserted
  BY <1>1 DEF RunRecords, SessionEnds
<1>4. run' \in RunRecords(inserted)
  BY <1>1 DEF RunRecords, SessionEnds
<1>5. run' \in RunRecords(run.inserted)'
  BY <1>3, <1>4 DEF RunRecords
<1>6. \A f \in Files : CallsOf(f)' = CallsOf(f)
  BY DEF CallsOf
<1>7. ASSUME NEW f \in run'.todo, NEW e \in Files, e < f PROVE e \in run'.todo \/ Known(e, f)'
  <2>1. f \in run.todo /\ f \in Files
    BY <1>1, <1>3, <1>7 DEF RunRecords
  <2>2. Known(e, f) => Known(e, f)'
    BY <1>3, <1>6, <2>1 DEF Known
  <2> QED BY <1>1, <1>3, <1>7, <2>1, <2>2 DEF Running
<1>8. runs' \in Nat /\ runs' # 0
  BY RunFacts
<1>9. (\A f \in run'.todo : log'[f] # <<>>) /\ run'.seen \subseteq run'.covered \cup run'.seeded
  BY <1>1, <1>3 DEF Running
<1>10. Running'
  BY <1>5, <1>7, <1>8, <1>9 DEF Running
<1>11. Planned'
  BY <1>3 DEF Planned
<1> QED BY <1>2, <1>3, <1>10, <1>11

LEMMA WriteSessionKeeps ==
  ASSUME IInv, WriteSession
  PROVE  /\ IInv' /\ \A r \in rows : \E q \in rows' : Kept(r, q)
         /\ RowsRight(rows', Len(run.plan))
<1>1. PICK n : n = Len(run.plan)
  OBVIOUS
<1>2. PICK st : st = WrittenTo(n)
  OBVIOUS
<1>3. PICK inserted : inserted = run.inserted + Cardinality(st.rows) - Cardinality(rows)
  OBVIOUS
<1>4. /\ run.phase = "write" /\ ~run.dry
      /\ rows' = st.rows /\ tools' = st.tools /\ turns' = turns \cup TurnsOf(run.file, n)
      /\ run' = [run EXCEPT !.phase = "read", !.seenTools = st.seenTools, !.counts = st.counts,
                            !.inserted = inserted]
      /\ UNCHANGED <<calls, log, pending>> /\ runs' = runs
  <2>1. run \in RunRecords(run.inserted)
    BY DEF IInv, Running
  <2> QED BY <1>1, <1>2, <1>3, <2>1 DEF WriteSession, world, RunRecords
<1>5. PICK failed \in BOOLEAN : failed = run.failed
  BY DEF IInv, Running, RunRecords
<1>6. Writing(st, n)
  <2>1. n \in 0 .. Len(run.plan)
    BY <1>1, <1>4, PlanFacts
  <2> QED BY <1>2, <1>4, <2>1, WrittenToRight
<1>7. /\ RowsRight(rows', n) /\ ToolsRight(tools', st.seenTools, rows')
      /\ st.seenTools \subseteq DOMAIN calls /\ st.counts \in Counts
  <2>1. RowsRight(st.rows, n) /\ ToolsRight(st.tools, st.seenTools, st.rows)
        /\ CountsRight(st.counts, n)
    BY <1>6 DEF Writing
  <2>2. st.seenTools \subseteq DOMAIN calls /\ st.counts \in Counts
    BY <2>1 DEF ToolsRight, CountsRight
  <2> QED BY <1>4, <2>1, <2>2
<1>8. /\ Running' /\ Planned' /\ World' /\ Grown
      /\ run'.phase = "read" /\ run'.dry = run.dry /\ run'.until = run.until
      /\ run'.covered = run.covered /\ run'.seeded = run.seeded /\ run'.failed = failed
  <2>1. SessionEnds(st.seenTools, st.counts, inserted, failed)
    <3>1. run \in RunRecords(run.inserted)
      BY DEF IInv, Running
    <3>2. PICK S : S = st.seenTools
      OBVIOUS
    <3>3. PICK C : C = st.counts
      OBVIOUS
    <3>4. run' = [run EXCEPT !.phase = "read", !.seenTools = S, !.counts = C,
                             !.inserted = inserted]
      BY <1>4, <3>2, <3>3
    <3>5. run' = [run EXCEPT !.phase = "read", !.seenTools = S, !.counts = C,
                             !.inserted = inserted, !.failed = failed]
      BY <1>5, <3>1, <3>4 DEF RunRecords
    <3> QED BY <3>2, <3>3, <3>5 DEF SessionEnds
  <2> QED BY <1>4, <1>5, <1>7, <2>1, SessionOver
<1>9. World /\ Covered
  BY DEF IInv
<1>10. PICK R : R = rows'
  OBVIOUS
<1>11. PICK T : T = tools'
  OBVIOUS
<1>12. RowsRight(R, n) /\ ToolsRight(T, st.seenTools, R)
  BY <1>4, <1>6, <1>10, <1>11 DEF Writing
<1>13. Stored'
  <2>1. \A r \in R : RowOK(r) /\ Placed(r, turns')
    BY <1>1, <1>4, <1>12 DEF RowsRight
  <2>2. \A r \in R : RowOK(r)'
    BY <1>8, <1>9, <2>1, GrownKeeps
  <2>3. IdsUnique(R)
    BY <1>12 DEF RowsRight
  <2> QED BY <1>10, <2>1, <2>2, <2>3 DEF Stored, Placed, IdsUnique
<1>14. Tooled' /\ ToolsFollow'
  <2>1. /\ \A t \in T : ToolOK(t)
        /\ \A t, u \in T : t.call = u.call => t = u
        /\ \A t \in T : t.by = "log" => \E r \in R : r.session = t.session /\ Matches(r, t.call)
    BY <1>12 DEF ToolsRight
  <2>2. \A t \in T : ToolOK(t)'
    BY <1>8, <1>9, <2>1, GrownKeeps
  <2>3. Tooled'
    BY <1>11, <2>1, <2>2 DEF Tooled
  <2>4. ASSUME NEW t \in T, t.by = "log"
        PROVE  \E r \in R : r.session = t.session /\ Matches(r, t.call)'
    BY <1>4, <2>1, <2>4 DEF Matches
  <2>5. ToolsFollow'
    BY <1>10, <1>11, <2>4 DEF ToolsFollow
  <2> QED BY <2>3, <2>5
<1>15. Spooled'
  <2>1. \A p \in rows' : OldId(p) => p \in rows
    BY <1>10, <1>12 DEF RowsRight
  <2> QED BY <1>4, <1>8, <2>1, SpooledStays
<1>16. OnceEach'
  <2>1. Plain' = Plain
    BY <1>4 DEF Plain
  <2>2. \A r, q \in R : (r.call = q.call /\ r.call \in Plain /\ calls[r.call].named) => r = q
    BY <1>12 DEF RowsRight
  <2> QED BY <1>4, <1>10, <2>1, <2>2 DEF OnceEach
<1>17. \A r \in rows : \E q \in R : Kept(r, q)
  BY <1>12 DEF RowsRight
<1>18. Covered'
  <2>1. Plain' = Plain
    BY <1>4 DEF Plain
  <2>2. SUFFICES ASSUME ~run.failed, NEW c \in run.covered \cap Plain
                 PROVE  \/ IsZeroCostSkip(c) \/ IsCutoff(c, run.until) \/ c \in run.seeded
                        \/ \E r \in rows' : r.call = c
    BY <1>4, <1>5, <1>8, <2>1 DEF Covered, IsZeroCostSkip, IsCutoff
  <2>3. CASE \E r \in rows : r.call = c
    BY <1>10, <1>17, <2>3 DEF Kept
  <2>4. CASE Ahead(c)
    <3>1. PICK i \in DOMAIN run.plan : run.plan[i].what = "import" /\ run.plan[i].call = c
      BY <2>4 DEF Ahead
    <3>2. i \in 1 .. n
      BY <1>1, <1>4, PlanFacts
    <3> QED BY <1>10, <1>12, <2>2, <3>1, <3>2 DEF RowsRight, Arrived
  <2> QED BY <1>4, <1>9, <2>2, <2>3, <2>4 DEF Covered
<1> QED BY <1>1, <1>7, <1>8, <1>10, <1>13, <1>14, <1>15, <1>16, <1>17, <1>18 DEF IInv

\* A transaction that is rolled back.
LEMMA WriteFailsKeeps ==
  ASSUME IInv, WriteFails
  PROVE  IInv'
<1>1. PICK n \in 0 .. Len(run.plan) :
        run' = [run EXCEPT !.phase = "read", !.seenTools = WrittenTo(n).seenTools,
                           !.counts = WrittenTo(n).counts, !.failed = TRUE]
  BY DEF WriteFails
<1>2. /\ run.phase = "write" /\ runs' = runs /\ UNCHANGED <<calls, log, pending>> /\ UNCHANGED db
  BY DEF WriteFails, world
<1>3. Writing(WrittenTo(n), n)
  BY <1>2, WrittenToRight
<1>4. PICK S : S = WrittenTo(n).seenTools
  OBVIOUS
<1>5. PICK C : C = WrittenTo(n).counts
  OBVIOUS
<1>6. PICK inserted : inserted = run.inserted
  OBVIOUS
<1>7. S \subseteq DOMAIN calls /\ C \in Counts
  BY <1>3, <1>4, <1>5 DEF Writing, ToolsRight, CountsRight
<1>8. SessionEnds(S, C, inserted, TRUE)
  <2>1. run \in RunRecords(run.inserted)
    BY DEF IInv, Running
  <2>2. run' = [run EXCEPT !.phase = "read", !.seenTools = S, !.counts = C, !.failed = TRUE]
    BY <1>1, <1>4, <1>5
  <2> QED BY <1>6, <2>1, <2>2 DEF RunRecords, SessionEnds
<1>9. /\ Running' /\ Planned' /\ World' /\ Grown /\ run'.failed = TRUE
  BY <1>2, <1>7, <1>8, SessionOver
<1>10. Stored' /\ Tooled' /\ Spooled' /\ OnceEach' /\ ToolsFollow'
  BY <1>2, <1>9, DatabaseStays
<1>11. Covered'
  BY <1>9 DEF Covered
<1> QED BY <1>9, <1>10, <1>11 DEF IInv

LEMMA CountSessionKeeps ==
  ASSUME IInv, CountSession
  PROVE  IInv'
<1>1. /\ run.phase = "write" /\ run.dry /\ runs' = runs
      /\ UNCHANGED <<calls, log, pending>> /\ UNCHANGED db
      /\ run' = [run EXCEPT !.phase = "read", !.seenTools = ForeseenAll.seenTools,
                            !.counts = ForeseenAll.counts]
  BY DEF CountSession, world
<1>2. PICK S : S = ForeseenAll.seenTools
  OBVIOUS
<1>3. PICK C : C = ForeseenAll.counts
  OBVIOUS
<1>4. PICK inserted : inserted = run.inserted
  OBVIOUS
<1>5. PICK failed \in BOOLEAN : failed = run.failed
  BY DEF IInv, Running, RunRecords
<1>6. S \subseteq DOMAIN calls /\ C \in Counts
  <2>1. Foreseeing(ForeseenAll, Len(run.plan))
    BY <1>1, ForeseenAllRight
  <2> QED BY <1>2, <1>3, <2>1 DEF Foreseeing, CountsRight
<1>7. SessionEnds(S, C, inserted, failed)
  <2>1. run \in RunRecords(run.inserted)
    BY DEF IInv, Running
  <2>2. run' = [run EXCEPT !.phase = "read", !.seenTools = S, !.counts = C]
    BY <1>1, <1>2, <1>3
  <2> QED BY <1>4, <1>5, <2>1, <2>2 DEF RunRecords, SessionEnds
<1>8. /\ Running' /\ Planned' /\ World' /\ Grown /\ run'.dry = run.dry
  BY <1>1, <1>5, <1>6, <1>7, SessionOver
<1>9. Stored' /\ Tooled' /\ Spooled' /\ OnceEach' /\ ToolsFollow'
  BY <1>1, <1>8, DatabaseStays
<1>10. Covered'
  BY <1>1, <1>8 DEF Covered
<1> QED BY <1>8, <1>9, <1>10 DEF IInv

\* The run is over, be it at its end or before.
LEMMA RunEndsKeeps ==
  ASSUME IInv, FinishImport \/ ImportAborts
  PROVE  IInv'
<1>1. /\ run' = NoRun /\ runs' = runs /\ UNCHANGED <<calls, log, pending>> /\ UNCHANGED db
  BY DEF FinishImport, ImportAborts, world
<1>2. World' /\ Grown
  BY <1>1, NotGrown DEF IInv
<1>3. Stored' /\ Tooled' /\ Spooled' /\ OnceEach' /\ ToolsFollow'
  BY <1>1, <1>2, DatabaseStays
<1>4. /\ run'.phase = "idle" /\ run'.todo = {} /\ run'.seen = {} /\ run'.covered = {}
      /\ run'.inserted = 0
  BY <1>1 DEF NoRun
<1>5. run' \in RunRecords(run.inserted)'
  <2>1. Zero \in Counts
    BY ZeroCounts
  <2>2. <<>> \in Seq(Decisions)
    OBVIOUS
  <2> QED BY <1>1, <1>4, <2>1, <2>2 DEF RunRecords, NoRun
<1>6. Running'
  BY <1>1, <1>4, <1>5, RunFacts DEF Running
<1>7. Covered' /\ Planned'
  BY <1>4 DEF Covered, Planned
<1> QED BY <1>2, <1>3, <1>6, <1>7 DEF IInv

-----------------------------------------------------------------------------
(* importLegacyPi                                                          *)

\* The steps that only look, and the one that is rolled back.
LEMMA LegacyStays ==
  ASSUME IInv, UNCHANGED <<calls, log, pending, run>>, UNCHANGED db, runs' \in {runs, runs + 1}
  PROVE  IInv'
<1>1. World' /\ Grown
  BY NotGrown DEF IInv
<1>2. Stored' /\ Tooled' /\ Spooled' /\ OnceEach' /\ ToolsFollow' /\ Survives /\ Expected
  BY <1>1, DatabaseStays
<1>3. run' \in RunRecords(run.inserted)' /\ SameRun /\ run'.stale = run.stale
      /\ run.stale \in BOOLEAN
  BY UnmarkedRun, RunFacts
<1>4. Running'
  <2>1. runs' \in Nat /\ runs <= runs'
    BY RunFacts
  <2> QED BY <1>1, <1>3, <2>1, RunningStays, SharedWithoutCalls
<1>5. Covered' /\ Planned'
  BY <1>1, <1>2, <1>3, CoveredStays, PlannedStays
<1> QED BY <1>1, <1>2, <1>4, <1>5 DEF IInv

\* The rows of the legacy database replace their older selves, and no others.
LEMMA WriteLegacyKeeps ==
  ASSUME IInv, WriteLegacy
  PROVE  /\ IInv' /\ (\A r \in rows : r.by = "live" => r \in rows')
         /\ \A r \in rows : r.call \in Nat => r \in rows'
<1>1. /\ UNCHANGED <<calls, log, pending, run>> /\ runs' = runs
      /\ rows' = {r \in rows : \A q \in LegacyRows : q.id # r.id} \cup LegacyRows
      /\ tools' = {t \in tools : t.by # "legacy"} \cup
                  {[call |-> r.call, session |-> OfLegacy, by |-> "legacy"] : r \in LegacyRows}
      /\ turns' = turns \cup TurnsOf(OfLegacy, 1)
  BY DEF WriteLegacy, world
<1>2. World /\ Stored /\ Tooled /\ OnceEach /\ ToolsFollow
  BY DEF IInv
<1>3. World' /\ Grown
  BY <1>1, <1>2, NotGrown
<1>4. ASSUME NEW r \in LegacyRows
      PROVE  /\ r \in Rows /\ LegacyRow(r) /\ r.call \in Int \ Nat /\ r.id = LegacyId(r.call)
             /\ r.session = OfLegacy /\ r.turn = 0 /\ r.by = "legacy"
             /\ r = Row(LegacyId(r.call), OfLegacy, 0, r.call, "legacy")
  <2>1. PICK m \in Legacy : r = Row(LegacyId(m.call), OfLegacy, 0, m.call, "legacy")
    BY DEF LegacyRows
  <2>2. m.call \in Int \ Nat
    BY LegacyAssumption
  <2>3. LegacyId(m.call) \in Ids
    BY <2>2, IdFacts
  <2>4. /\ r.call = m.call /\ r.id = LegacyId(m.call) /\ r.session = OfLegacy /\ r.turn = 0
        /\ r.by = "legacy"
    BY <2>1 DEF Row
  <2>5. r \in Rows
    BY <2>1, <2>2, <2>3 DEF Row, Rows, OfLegacy
  <2> QED BY <2>1, <2>2, <2>4, <2>5 DEF LegacyRow
<1>5. ASSUME NEW q \in rows, q.by # "legacy" \/ q.call \in Nat PROVE q \in rows' /\ OwnRow(q)
  <2>1. OwnRow(q)
    BY <1>2, <1>5 DEF Stored, RowOK, LegacyRow
  <2>2. \A c : q.id # LegacyId(c)
    BY <2>1, IdFacts DEF OwnRow, OldId
  <2> QED BY <1>1, <1>4, <2>1, <2>2
<1>6. ASSUME NEW p \in rows', p.call \in Nat PROVE p \in rows
  BY <1>1, <1>4, <1>6
<1>7. DOMAIN calls \subseteq Nat
  BY <1>2, WorldFacts
<1>8. Stored'
  <2>1. ASSUME NEW p \in rows' PROVE RowOK(p)' /\ Placed(p, turns')
    <3>1. CASE p \in rows
      <4>1. RowOK(p) /\ Placed(p, turns)
        BY <1>2, <3>1 DEF Stored
      <4>2. RowOK(p)'
        BY <1>2, <1>3, <4>1, GrownKeeps
      <4> QED BY <1>1, <4>1, <4>2 DEF Placed
    <3>2. CASE p \in LegacyRows
      <4>1. RowOK(p)
        BY <1>4, <3>2 DEF RowOK
      <4>2. RowOK(p)'
        BY <1>2, <1>3, <4>1, GrownKeeps
      <4>3. p.session = OfLegacy /\ p.turn = 0
        BY <1>4, <3>2
      <4> QED BY <1>1, <4>2, <4>3 DEF Placed, TurnsOf
    <3> QED BY <1>1, <2>1, <3>1, <3>2
  <2>2. IdsUnique(rows')
    <3>1. \A p, q \in LegacyRows : p.id = q.id => p = q
      <4>1. SUFFICES ASSUME NEW p \in LegacyRows, NEW q \in LegacyRows, p.id = q.id PROVE p = q
        OBVIOUS
      <4>2. p.call = q.call
        <5>1. p.id = LegacyId(p.call) /\ q.id = LegacyId(q.call)
          BY <1>4
        <5> QED BY <4>1, <5>1, IdFacts
      <4> QED BY <1>4, <4>2
    <3> HIDE DEF LegacyRows
    <3> QED BY <1>1, <1>2, <3>1 DEF IdsUnique, Stored
  <2> QED BY <2>1, <2>2 DEF Stored, Placed, IdsUnique
<1>9. PICK U : U = {[call |-> r.call, session |-> OfLegacy, by |-> "legacy"] : r \in LegacyRows}
  OBVIOUS
<1>10. ASSUME NEW u \in U
       PROVE  /\ ToolOK(u) /\ u.call \in Int \ Nat /\ u.by = "legacy"
              /\ u = [call |-> u.call, session |-> OfLegacy, by |-> "legacy"]
  <2>1. PICK r \in LegacyRows : u = [call |-> r.call, session |-> OfLegacy, by |-> "legacy"]
    BY <1>9
  <2>2. r.call \in Int \ Nat
    BY <1>4
  <2>3. u \in ToolRows /\ u.session = OfLegacy
    BY <2>1, <2>2 DEF ToolRows, OfLegacy
  <2> QED BY <2>1, <2>2, <2>3 DEF ToolOK
<1>11. tools' = {t \in tools : t.by # "legacy"} \cup U
  BY <1>1, <1>9
<1>12. ASSUME NEW t \in tools, t.by # "legacy" PROVE t.call \in DOMAIN calls
  BY <1>2, <1>12, WorldFacts DEF Tooled, ToolOK, Owned
<1>13. Tooled'
  <2>1. \A t \in tools' : ToolOK(t)'
    BY <1>2, <1>3, <1>10, <1>11, GrownKeeps DEF Tooled
  <2>2. ASSUME NEW t \in tools', NEW u \in tools', t.call = u.call PROVE t = u
    <3>1. CASE t \in U /\ u \in U
      BY <1>10, <2>2, <3>1
    <3>2. CASE t \notin U /\ u \notin U
      BY <1>2, <1>11, <2>2, <3>2 DEF Tooled
    <3>3. CASE t \in U /\ u \notin U
      BY <1>7, <1>10, <1>11, <1>12, <2>2, <3>3
    <3>4. CASE t \notin U /\ u \in U
      BY <1>7, <1>10, <1>11, <1>12, <2>2, <3>4
    <3> QED BY <3>1, <3>2, <3>3, <3>4
  <2> QED BY <2>1, <2>2 DEF Tooled
<1>19. Survives /\ Expected
  BY <1>5, <1>6, <1>7 DEF Survives, Expected, Alike
<1>14. ToolsFollow'
  <2>1. \A t \in tools' : t.by = "log" => t \in tools
    BY <1>10, <1>11
  <2> QED BY <1>3, <1>19, <2>1, FollowStays
<1>15. OnceEach'
  <2>1. Plain' = Plain /\ Plain \subseteq Nat
    BY <1>1, <1>7 DEF Plain
  <2> QED BY <1>1, <1>2, <1>6, <2>1 DEF OnceEach
<1>16. Spooled'
  BY <1>1, <1>3, <1>6, <1>7, SpooledStays
<1>17. run' \in RunRecords(run.inserted)' /\ SameRun /\ run'.stale = run.stale
       /\ run.stale \in BOOLEAN
  BY <1>1, UnmarkedRun, RunFacts
<1>18. Running'
  BY <1>1, <1>3, <1>17, RunningStays, SharedWithoutCalls, RunFacts
<1>20. Covered' /\ Planned'
  BY <1>3, <1>17, <1>19, CoveredStays, PlannedStays
<1>21. \A r \in rows : r.by = "live" \/ r.call \in Nat => r \in rows'
  BY <1>5
<1> QED BY <1>3, <1>8, <1>13, <1>14, <1>15, <1>16, <1>18, <1>19, <1>20, <1>21 DEF IInv

-----------------------------------------------------------------------------
(* Every step                                                              *)

LEMMA InitRight == Init => IInv
<1>1. SUFFICES ASSUME Init PROVE IInv
  OBVIOUS
<1>2. /\ calls = <<>> /\ log = [f \in Files |-> <<>>] /\ pending = {} /\ rows = {} /\ tools = {}
      /\ run = NoRun /\ runs = 0
  BY <1>1 DEF Init
<1>3. World
  <2>1. MaxCalls \in Nat /\ <<>> \in Seq(ApiCalls) /\ <<>> \in Seq(DOMAIN calls)
    BY BoundsAssumption
  <2> QED BY <1>2, <2>1 DEF World
<1>4. /\ run.phase = "idle" /\ run.todo = {} /\ run.seen = {} /\ run.covered = {}
      /\ run.inserted = 0
  BY <1>2 DEF NoRun
<1>5. run \in RunRecords(run.inserted)
  <2>1. Zero \in Counts
    BY BoundsAssumption DEF Counts, Zero
  <2>2. <<>> \in Seq(Decisions)
    OBVIOUS
  <2> QED BY <1>2, <1>4, <2>1, <2>2 DEF RunRecords, NoRun
<1>6. Running
  BY <1>2, <1>4, <1>5 DEF Running
<1>7. Stored /\ Tooled /\ Spooled /\ OnceEach /\ ToolsFollow
  BY <1>2 DEF Stored, IdsUnique, Tooled, Spooled, OnceEach, ToolsFollow
<1>8. Covered /\ Planned
  BY <1>4 DEF Covered, Planned
<1> QED BY <1>3, <1>6, <1>7, <1>8 DEF IInv

\* What becomes of the live rows in a step.
LiveRowsStay ==
  \A r \in rows :
    (r.by = "live" /\ \A p \in pending \ pending' : p.id = r.id => ~Mistaken(r)) =>
    \E q \in rows' : Kept(r, q)

LEMMA StepRight == IInv /\ [Next]_vars => IInv' /\ LiveRowsStay
<1> SUFFICES ASSUME IInv, [Next]_vars PROVE IInv' /\ LiveRowsStay
  OBVIOUS
<1>1. ASSUME UNCHANGED rows PROVE LiveRowsStay
  BY <1>1 DEF LiveRowsStay, Kept
<1>2. ASSUME \A r \in rows : r.by = "live" => r \in rows' PROVE LiveRowsStay
  BY <1>2 DEF LiveRowsStay, Kept
<1>3. ASSUME NEW f \in Files, NEW named \in BOOLEAN, NEW costly \in BOOLEAN, NEW t \in Tokens,
             NEW live \in {"none", "spool", "old"}, Call(f, named, costly, t, live)
      PROVE  IInv' /\ LiveRowsStay
  <2>1. \A r \in rows : r \in rows'
    BY <1>3 DEF Call, db
  <2> QED BY <1>2, <1>3, <2>1, CallKeeps
<1>4. ASSUME NEW f \in Files, NEW g \in Files, NEW n \in DOMAIN log[f], Fork(f, g, n)
      PROVE  IInv' /\ LiveRowsStay
  <2>1. UNCHANGED rows
    BY <1>4 DEF Fork, db
  <2> QED BY <1>1, <1>4, <2>1, ForkKeeps
<1>5. ASSUME NEW r \in pending, Drain(r) PROVE IInv' /\ LiveRowsStay
  <2>1. r \in pending \ pending'
    BY <1>5 DEF Drain
  <2> QED BY <1>5, <2>1, DrainKeeps DEF LiveRowsStay, Kept
<1>6. ASSUME NEW from \in Files, NEW to \in 2 .. MaxFiles + 1,
             NEW until \in {MaxCalls, MaxCalls + 1}, NEW dry \in BOOLEAN,
             StartImport(from, to, until, dry)
      PROVE  IInv' /\ LiveRowsStay
  <2>1. UNCHANGED rows
    BY <1>6 DEF StartImport, db
  <2> QED BY <1>1, <1>6, <2>1, StartImportKeeps
<1>7. ASSUME ReadSession PROVE IInv' /\ LiveRowsStay
  <2>1. UNCHANGED rows
    BY <1>7 DEF ReadSession, db
  <2> QED BY <1>1, <1>7, <2>1, ReadSessionKeeps
<1>8. ASSUME WriteSession PROVE IInv' /\ LiveRowsStay
  BY <1>8, WriteSessionKeeps DEF LiveRowsStay
<1>9. ASSUME WriteFails PROVE IInv' /\ LiveRowsStay
  <2>1. UNCHANGED rows
    BY <1>9 DEF WriteFails, db
  <2> QED BY <1>1, <1>9, <2>1, WriteFailsKeeps
<1>10. ASSUME CountSession PROVE IInv' /\ LiveRowsStay
  <2>1. UNCHANGED rows
    BY <1>10 DEF CountSession, db
  <2> QED BY <1>1, <1>10, <2>1, CountSessionKeeps
<1>11. ASSUME FinishImport \/ ImportAborts PROVE IInv' /\ LiveRowsStay
  <2>1. UNCHANGED rows
    BY <1>11 DEF FinishImport, ImportAborts, db
  <2> QED BY <1>1, <1>11, <2>1, RunEndsKeeps
<1>12. ASSUME StartLegacy \/ LegacyFails \/ CountLegacy \/ FinishLegacy
       PROVE  IInv' /\ LiveRowsStay
  <2>1. /\ UNCHANGED <<calls, log, pending, run>> /\ UNCHANGED db /\ UNCHANGED rows
        /\ runs' \in {runs, runs + 1}
    BY <1>12 DEF StartLegacy, LegacyFails, CountLegacy, FinishLegacy, world, db
  <2> QED BY <1>1, <2>1, LegacyStays
<1>13. ASSUME WriteLegacy PROVE IInv' /\ LiveRowsStay
  BY <1>2, <1>13, WriteLegacyKeeps
<1>14. ASSUME UNCHANGED vars PROVE IInv' /\ LiveRowsStay
  <2>1. UNCHANGED <<calls, log, pending, run>> /\ UNCHANGED db /\ UNCHANGED rows /\ runs' = runs
    BY <1>14 DEF vars, db
  <2> QED BY <1>1, <2>1, LegacyStays
<1>15. CASE Next
  BY <1>3, <1>4, <1>5, <1>6, <1>7, <1>8, <1>9, <1>10, <1>11, <1>12, <1>13, <1>15 DEF Next
<1> QED BY <1>14, <1>15

-----------------------------------------------------------------------------
(* An import that is run again                                             *)

AllPlain == Plain = DOMAIN calls

\* A call of a file that needs no import: it is left out, or it has its row.
There(c, f) == \E r \in rows : r.call = c /\ (calls[c].named \/ r.session = f)
Past(c, f, until, seen) ==
  IsZeroCostSkip(c) \/ IsCutoff(c, until) \/ IsReplay(c, seen) \/ There(c, f)

\* A run that is run again has added nothing, and will not.
Repeating ==
  (run.repeat /\ AllPlain) =>
    /\ run.inserted = 0
    /\ \A f \in run.todo : \A c \in CallsOf(f) : Past(c, f, run.until, run.seen)
    /\ run.phase = "write" => \A i \in DOMAIN run.plan : run.plan[i].what # "import"

Writes == run.phase # "idle" /\ ~run.dry
\* A call of a file is about to be imported.
Coming(c, f) == ~run.dry /\ Ahead(c) /\ (calls[c].named \/ run.file = f)

\* What the last run has left, or is about to leave, of the sessions it is for.
Left(from, to, until) ==
  /\ Writes => (run.until = until /\ run.seeded = Seeded(from) /\ ~run.failed)
  /\ \A f \in Discovered(from, to) :
       \/ Writes /\ f \in run.todo
       \/ \A c \in CallsOf(f) : Past(c, f, until, Seeded(from)) \/ Coming(c, f)
Done ==
  \A from \in Files, to \in 2 .. MaxFiles + 1, until \in {MaxCalls, MaxCalls + 1} :
    (settled = Options(from, to, until) /\ AllPlain) => Left(from, to, until)

\* The same of the legacy import, which counts the rows before and after.
LegacyDone ==
  /\ legacy \in [phase : {"idle", "write", "count", "report"}, before : Int, added : Int,
                 repeat : BOOLEAN]
  /\ run.phase = "idle" \/ legacy.phase = "idle"
  /\ run.phase = "idle" => ~run.repeat
  /\ IsFiniteSet(rows)
  /\ settled = LegacyOptions =>
       /\ run.phase = "idle" \/ run.dry
       /\ legacy.phase = "write" \/ LegacyRows \subseteq rows
  /\ legacy.repeat =>
       /\ legacy.phase # "idle" /\ LegacyRows \subseteq rows
       /\ legacy.phase \in {"write", "count"} => legacy.before = Cardinality(rows)
       /\ legacy.phase = "report" => legacy.added = 0

AgainInv == Repeating /\ Done /\ LegacyDone

\* No two imports are the same, and none is none.
LEMMA OptionsApart ==
  ASSUME NEW from \in Files, NEW to \in 2 .. MaxFiles + 1,
         NEW until \in {MaxCalls, MaxCalls + 1}
  PROVE  /\ Options(from, to, until) # Null /\ LegacyOptions # Null
         /\ Options(from, to, until) # LegacyOptions
         /\ \A f, t, u : Options(from, to, until) = Options(f, t, u) =>
              from = f /\ to = t /\ until = u
<1>1. from \in Nat /\ to \in Nat /\ until \in Nat
  BY BoundsAssumption DEF Files
<1>2. Options(from, to, until) \in [kind : {"log"}, from : Nat, to : Nat, until : Nat]
  BY <1>1 DEF Options
<1>3. Options(from, to, until).kind = "log" /\ LegacyOptions.kind = "legacy"
  BY DEF Options, LegacyOptions
<1>4. \A f, t, u : /\ Options(f, t, u).from = f /\ Options(f, t, u).to = t
                   /\ Options(f, t, u).until = u
  BY DEF Options
<1>5. ASSUME NEW f, NEW t, NEW u, Options(from, to, until) = Options(f, t, u)
      PROVE  from = f /\ to = t /\ until = u
  BY <1>4, <1>5
<1>6. Options(from, to, until) # Null /\ LegacyOptions # Null
  BY <1>2, NullAssumption
<1> QED BY <1>3, <1>5, <1>6

\* A call stays past what it was past, as long as its row stays.
Remain ==
  \A q \in rows : q.call \in DOMAIN calls =>
    \E p \in rows' : p.call = q.call /\ p.session = q.session

LEMMA PastStays ==
  ASSUME World, UNCHANGED <<calls, log>>, Remain, NEW c \in DOMAIN calls, NEW f, NEW until,
         NEW seen, NEW more, calls[c].named /\ c \in seen => c \in more,
         Past(c, f, until, seen)
  PROVE  Past(c, f, until, more)'
<1>1. There(c, f) => There(c, f)'
  BY DEF There, Remain
<1> QED BY <1>1 DEF Past, IsZeroCostSkip, IsCutoff, IsReplay

\* While the files are as they are, so is what is said of them.
LEMMA SameFiles ==
  ASSUME World, UNCHANGED <<calls, log>>
  PROVE  /\ Plain' = Plain /\ AllPlain' = AllPlain
         /\ \A f \in Files : CallsOf(f)' = CallsOf(f) /\ CallsOf(f) \subseteq DOMAIN calls
         /\ \A from : Seeded(from)' = Seeded(from)
         /\ \A from, to : Discovered(from, to)' = Discovered(from, to)
         /\ \A from, to : Discovered(from, to) \subseteq Files
<1>1. Plain' = Plain
  BY DEF Plain
<1>2. \A f \in Files : CallsOf(f)' = CallsOf(f) /\ CallsOf(f) \subseteq DOMAIN calls
  BY WorldFacts DEF CallsOf
<1>3. \A from : Seeded(from)' = Seeded(from)
  BY <1>2 DEF Seeded, CallsOf
<1>4. \A from, to : Discovered(from, to)' = Discovered(from, to)
  BY DEF Discovered
<1>5. \A from, to : Discovered(from, to) \subseteq Files
  BY DEF Discovered
<1> QED BY <1>1, <1>2, <1>3, <1>4, <1>5 DEF AllPlain

\* After something new, no import is a repetition of the last.
LEMMA Renewed ==
  ASSUME LegacyDone, settled' = Null, legacy' = [legacy EXCEPT !.repeat = FALSE],
         run'.repeat = FALSE, run'.phase = run.phase, IsFiniteSet(rows')
  PROVE  AgainInv'
<1>1. Repeating'
  BY DEF Repeating
<1>2. Done'
  BY OptionsApart DEF Done
<1>3. LegacyDone'
  <2>1. settled' # LegacyOptions
    BY NullAssumption
  <2>2. /\ legacy' \in [phase : {"idle", "write", "count", "report"}, before : Int, added : Int,
                        repeat : BOOLEAN]
        /\ legacy'.phase = legacy.phase /\ legacy'.repeat = FALSE
    BY DEF LegacyDone
  <2> QED BY <2>1, <2>2 DEF LegacyDone
<1> QED BY <1>1, <1>2, <1>3 DEF AgainInv

LEMMA CallAgain ==
  ASSUME IInv, LegacyDone, NEW f \in Files, NEW named \in BOOLEAN, NEW costly \in BOOLEAN,
         NEW t \in Tokens, NEW live \in {"none", "spool", "old"}, Call(f, named, costly, t, live)
  PROVE  AgainInv'
<1>1. run \in RunRecords(run.inserted) /\ IsFiniteSet(rows)
  BY RunFacts DEF LegacyDone
<1>2. /\ settled' = Null /\ legacy' = [legacy EXCEPT !.repeat = FALSE]
      /\ run' = [run EXCEPT !.repeat = FALSE]
  BY DEF Call, NewToRead, NothingSettled
<1>3. rows' = rows \/ \E r : rows' = rows \cup {r}
  BY DEF Call, db
<1>4. IsFiniteSet(rows')
  BY <1>1, <1>3, FS_AddElement
<1>5. run'.repeat = FALSE /\ run'.phase = run.phase
  BY <1>1, <1>2 DEF RunRecords
<1> QED BY <1>2, <1>4, <1>5, Renewed

LEMMA ForkAgain ==
  ASSUME IInv, LegacyDone, NEW f \in Files, NEW g \in Files, NEW n \in DOMAIN log[f],
         Fork(f, g, n)
  PROVE  AgainInv'
<1>1. run \in RunRecords(run.inserted) /\ IsFiniteSet(rows)
  BY RunFacts DEF LegacyDone
<1>2. /\ settled' = Null /\ legacy' = [legacy EXCEPT !.repeat = FALSE]
      /\ run' = [run EXCEPT !.repeat = FALSE] /\ rows' = rows
  BY DEF Fork, NewToRead, NothingSettled, db
<1>3. run'.repeat = FALSE /\ run'.phase = run.phase
  BY <1>1, <1>2 DEF RunRecords
<1> QED BY <1>1, <1>2, <1>3, Renewed

LEMMA DrainAgain ==
  ASSUME IInv, LegacyDone, NEW r \in pending, Drain(r)
  PROVE  AgainInv'
<1>1. run \in RunRecords(run.inserted) /\ IsFiniteSet(rows)
  BY RunFacts DEF LegacyDone
<1>2. /\ settled' = Null /\ legacy' = [legacy EXCEPT !.repeat = FALSE]
      /\ run' = [run EXCEPT !.repeat = FALSE, !.stale = run.phase = "write"]
      /\ rows' = {q \in rows : q.id # r.id} \cup {r}
  BY DEF Drain, NothingSettled
<1>3. IsFiniteSet(rows')
  <2>1. IsFiniteSet({q \in rows : q.id # r.id})
    BY <1>1, FS_Subset
  <2> QED BY <1>2, <2>1, FS_AddElement
<1>4. run'.repeat = FALSE /\ run'.phase = run.phase
  BY <1>1, <1>2 DEF RunRecords
<1> QED BY <1>2, <1>3, <1>4, Renewed

\* The import of the session files leaves the legacy import alone.
LEMMA LegacyApart ==
  ASSUME LegacyDone, UNCHANGED legacy, legacy.phase = "idle", IsFiniteSet(rows'),
         run'.phase = "idle" => ~run'.repeat,
         settled' = LegacyOptions =>
           settled = LegacyOptions /\ UNCHANGED rows /\ (run'.phase = "idle" \/ run'.dry)
  PROVE  LegacyDone'
<1>1. UNCHANGED LegacyRows
  BY DEF LegacyRows, Row, LegacyId
<1> QED BY <1>1 DEF LegacyDone

LEMMA StartImportAgain ==
  ASSUME IInv, AgainInv, NEW from \in Files, NEW to \in 2 .. MaxFiles + 1,
         NEW until \in {MaxCalls, MaxCalls + 1}, NEW dry \in BOOLEAN,
         StartImport(from, to, until, dry)
  PROVE  AgainInv'
<1> DEFINE again == settled = Options(from, to, until)
<1>1. /\ World /\ Repeating /\ Done /\ LegacyDone
  BY DEF IInv, AgainInv
<1>2. /\ UNCHANGED <<calls, log, legacy>> /\ UNCHANGED rows
      /\ run.phase = "idle" /\ legacy.phase = "idle"
      /\ settled' = IF dry THEN settled ELSE Options(from, to, until)
      /\ run' = [NoRun EXCEPT
           !.phase = "read", !.todo = Discovered(from, to), !.until = until, !.dry = dry,
           !.seen = {c \in Seeded(from) : calls[c].named}, !.seenTools = Seeded(from),
           !.seeded = Seeded(from), !.repeat = again]
  BY DEF StartImport, world, db, Idle
<1>3. /\ run'.phase = "read" /\ run'.todo = Discovered(from, to) /\ run'.until = until
      /\ run'.dry = dry /\ run'.seen = {c \in Seeded(from) : calls[c].named}
      /\ run'.seeded = Seeded(from) /\ run'.inserted = 0 /\ run'.failed = FALSE
      /\ run'.repeat = again
  BY <1>2 DEF NoRun
<1>4. /\ Plain' = Plain /\ AllPlain' = AllPlain
      /\ \A f \in Files : CallsOf(f)' = CallsOf(f) /\ CallsOf(f) \subseteq DOMAIN calls
      /\ \A e : Seeded(e)' = Seeded(e)
      /\ \A e, g : Discovered(e, g)' = Discovered(e, g)
      /\ \A e, g : Discovered(e, g) \subseteq Files
  BY <1>1, <1>2, SameFiles
<1>5. Remain
  BY <1>2 DEF Remain
<1>6. Repeating'
  <2>1. PICK seen : seen = {c \in Seeded(from) : calls[c].named}
    OBVIOUS
  <2>2. ASSUME again, AllPlain, NEW f \in Discovered(from, to), NEW c \in CallsOf(f)
        PROVE  Past(c, f, until, seen)'
    <3>1. Left(from, to, until)
      BY <1>1, <2>2 DEF Done
    <3>2. Past(c, f, until, Seeded(from))
      BY <1>2, <2>2, <3>1 DEF Left, Writes, Coming, Ahead
    <3>3. c \in DOMAIN calls
      BY <1>4, <2>2
    <3>4. PICK old : old = Seeded(from)
      OBVIOUS
    <3> QED BY <1>1, <1>2, <1>5, <2>1, <3>2, <3>3, <3>4, PastStays
  <2> HIDE DEF again
  <2>3. ASSUME run'.repeat, AllPlain', NEW f \in run'.todo, NEW c \in CallsOf(f)'
        PROVE  Past(c, f, run.until, run.seen)'
    <3>1. Past(c, f, until, seen)'
      BY <1>3, <1>4, <2>2, <2>3
    <3>2. run'.until = until /\ run'.seen = seen
      BY <1>3, <2>1
    <3> QED BY <3>1, <3>2 DEF Past, IsCutoff, IsReplay
  <2>4. run'.inserted = 0 /\ run'.phase # "write"
    BY <1>3
  <2> QED BY <2>3, <2>4 DEF Repeating
<1>7. Done'
  <2>1. SUFFICES ASSUME NEW e \in Files, NEW t \in 2 .. MaxFiles + 1,
                        NEW u \in {MaxCalls, MaxCalls + 1},
                        settled' = Options(e, t, u), AllPlain
                 PROVE  Left(e, t, u)'
    BY <1>4 DEF Done
  <2>2. CASE ~dry
    <3>1. e = from /\ t = to /\ u = until
      <4>1. Options(from, to, until) = Options(e, t, u)
        BY <1>2, <2>1, <2>2
      <4> QED BY <4>1, OptionsApart
    <3> QED BY <1>3, <1>4, <2>2, <3>1 DEF Left, Writes
  <2>3. CASE dry
    <3>1. Left(e, t, u)
      BY <1>1, <1>2, <2>1, <2>3 DEF Done
    <3>2. ASSUME NEW f \in Discovered(e, t), NEW c \in CallsOf(f)
          PROVE  Past(c, f, u, Seeded(e))'
      <4>1. Past(c, f, u, Seeded(e))
        BY <1>2, <3>1 DEF Left, Writes, Coming, Ahead
      <4>2. PICK old : old = Seeded(e)
        OBVIOUS
      <4>3. Past(c, f, u, old)'
        BY <1>1, <1>2, <1>4, <1>5, <4>1, <4>2, PastStays
      <4> QED BY <1>4, <4>2, <4>3
    <3>3. ~Writes'
      BY <1>3, <2>3 DEF Writes
    <3> QED BY <1>4, <3>2, <3>3 DEF Left
  <2> QED BY <2>2, <2>3
<1>8. LegacyDone'
  <2>1. settled' = LegacyOptions => settled = LegacyOptions /\ dry
    BY <1>2, OptionsApart
  <2>2. IsFiniteSet(rows')
    BY <1>1, <1>2 DEF LegacyDone
  <2> QED BY <1>1, <1>2, <1>3, <2>1, <2>2, LegacyApart
<1> QED BY <1>6, <1>7, <1>8 DEF AgainInv

\* What is imported has been past nothing.
LEMMA ImportsAreNew ==
  ASSUME IInv, NEW f \in Files, NEW st, IsRead(f, st), AllPlain, NEW i \in 1 .. Len(log[f]),
         st.plan[i].what = "import"
  PROVE  ~Past(st.plan[i].call, f, run.until, run.seen)
<1>1. World /\ Stored
  BY DEF IInv
<1>2. PICK d : d = st.plan[i]
  OBVIOUS
<1>3. PICK c : c = d.call
  OBVIOUS
<1>4. DecisionOK(d, f, i, FALSE) /\ Justified(d, run.until, run.seen) /\ d.what = "import"
  BY <1>2 DEF IsRead, Deciding
<1>5. Owned(c, f) /\ Absent(c, f, FALSE) /\ c \in DOMAIN calls /\ c \in Nat /\ c \in Plain
  <2>1. Owned(c, f) /\ Absent(c, f, FALSE)
    BY <1>3, <1>4 DEF DecisionOK
  <2>2. c \in DOMAIN calls /\ c \in Nat
    BY <1>1, <2>1, WorldFacts DEF Owned
  <2> QED BY <2>1, <2>2 DEF AllPlain
<1>6. ~There(c, f)
  <2>1. SUFFICES ASSUME NEW r \in rows, r.call = c, calls[c].named \/ r.session = f PROVE FALSE
    BY DEF There
  <2>2. r.session # f /\ calls[c].named
    BY <1>5, <2>1 DEF Absent
  <2>3. OwnRow(r) /\ r.session \in Files /\ c \in CallsOf(r.session)
    BY <1>1, <1>5, <2>1, CallRows
  <2>4. First(c, r.session) /\ First(c, f) /\ c \in CallsOf(f)
    BY <1>5, <2>1, <2>2, <2>3 DEF OwnRow, Owned
  <2>5. r.session < f \/ f < r.session
    <3>1. r.session \in Nat /\ f \in Nat
      BY <2>3 DEF Files
    <3> QED BY <2>2, <3>1
  <2> QED BY <2>3, <2>4, <2>5 DEF First
<1> QED BY <1>2, <1>3, <1>4, <1>6 DEF Justified, Past

\* What is not imported is past, or was read before.
LEMMA RestIsPast ==
  ASSUME IInv, NEW f \in Files, NEW st, IsRead(f, st), AllPlain, run.phase = "read",
         ~run.dry, ~run.failed, NEW c \in CallsOf(f)
  PROVE  \/ Past(c, f, run.until, run.seeded)
         \/ \E i \in 1 .. Len(log[f]) : st.plan[i].what = "import" /\ st.plan[i].call = c
<1>1. World /\ Stored /\ Covered /\ Running
  BY DEF IInv
<1>2. c \in DOMAIN calls /\ c \in Plain
  BY <1>1, WorldFacts DEF AllPlain
<1>3. PICK i \in 1 .. Len(log[f]) : c = log[f][i]
  BY <1>1, WorldFacts DEF CallsOf
<1>4. PICK d : d = st.plan[i]
  OBVIOUS
<1>5. DecisionOK(d, f, i, FALSE) /\ Justified(d, run.until, run.seen) /\ d.call = c
      /\ d.what \in Whats
  BY <1>3, <1>4 DEF IsRead, Deciding, DecisionOK, Decisions
<1>6. CASE d.what = "boundary"
  <2>1. Matched(d, f)
    BY <1>5, <1>6 DEF DecisionOK
  <2>2. PICK r \in rows : r.session = f /\ Alike(r.call, d.row.call)
    BY <2>1 DEF Matched
  <2>3. r.call \in DOMAIN calls
    BY <1>1, <2>2, OwnRows
  <2>4. r.call = c
    BY <1>2, <1>5, <2>1, <2>2, <2>3 DEF Matched, Alike, Plain
  <2> QED BY <2>2, <2>4 DEF There, Past
<1>7. CASE d.what = "replay"
  <2>1. calls[c].named /\ c \in run.seen
    BY <1>5, <1>7 DEF Justified, IsReplay
  <2>2. CASE c \in run.seeded
    BY <2>1, <2>2 DEF Past, IsReplay
  <2>3. CASE c \in run.covered
    <3>1. IsZeroCostSkip(c) \/ IsCutoff(c, run.until) \/ c \in run.seeded
          \/ \E r \in rows : r.call = c
      BY <1>1, <1>2, <2>3 DEF Covered, Ahead
    <3> QED BY <2>1, <3>1 DEF Past, IsReplay, There
  <2> QED BY <1>1, <2>1, <2>2, <2>3 DEF Running
<1>8. CASE d.what \in {"zero", "cutoff"}
  BY <1>5, <1>8 DEF Justified, Past
<1>9. CASE d.what = "import"
  BY <1>4, <1>5, <1>9
<1> QED BY <1>5, <1>6, <1>7, <1>8, <1>9 DEF Whats

LEMMA ReadSessionAgain ==
  ASSUME IInv, AgainInv, ReadSession
  PROVE  AgainInv'
<1>1. /\ World /\ Repeating /\ Done /\ LegacyDone /\ run \in RunRecords(run.inserted)
  BY RunFacts DEF IInv, AgainInv
<1>2. /\ UNCHANGED <<calls, log, legacy, settled>> /\ UNCHANGED rows /\ run.phase = "read"
  BY DEF ReadSession, world, db
<1>3. PICK f \in Files : \E st : IsRead(f, st)
  BY FileIsRead
<1>4. PICK st : IsRead(f, st)
  BY <1>3
<1>5. PICK cs : cs = run.covered \cup CallsOf(f)
  OBVIOUS
<1>6. /\ run'.phase = "write" /\ run'.todo = run.todo \ {f} /\ run'.until = run.until
      /\ run'.dry = run.dry /\ run'.seen = st.seen /\ run'.seeded = run.seeded
      /\ run'.inserted = run.inserted /\ run'.failed = run.failed /\ run'.repeat = run.repeat
      /\ run'.plan = st.plan /\ run'.file = f
  <2>1. run' = [run EXCEPT
         !.phase = "write", !.todo = run.todo \ {f}, !.file = f, !.plan = st.plan, !.seen = st.seen,
         !.counts = st.counts, !.covered = cs, !.stale = FALSE]
    BY <1>4, <1>5 DEF IsRead
  <2> QED BY <1>1, <2>1 DEF RunRecords
<1>7. /\ Plain' = Plain /\ AllPlain' = AllPlain
      /\ \A g \in Files : CallsOf(g)' = CallsOf(g) /\ CallsOf(g) \subseteq DOMAIN calls
      /\ \A e : Seeded(e)' = Seeded(e)
      /\ \A e, g : Discovered(e, g)' = Discovered(e, g)
      /\ \A e, g : Discovered(e, g) \subseteq Files
  BY <1>1, <1>2, SameFiles
<1>9. /\ f \in run.todo /\ run.todo \subseteq Files /\ run.seen \subseteq st.seen
      /\ DOMAIN st.plan = 1 .. Len(log[f])
  <2>1. st \in DecideRecords(f) /\ Len(st.plan) = Len(log[f]) /\ f \in run.todo
        /\ run.seen \subseteq st.seen
    BY <1>4 DEF IsRead, Deciding
  <2>2. st.plan \in Seq(Decisions)
    BY <2>1 DEF DecideRecords
  <2> QED BY <1>1, <2>1, <2>2 DEF RunRecords
<1>10. Repeating'
  <2>1. SUFFICES ASSUME run.repeat, AllPlain PROVE Repeating'
    BY <1>6, <1>7 DEF Repeating
  <2>2. /\ run.inserted = 0
        /\ \A g \in run.todo : \A c \in CallsOf(g) : Past(c, g, run.until, run.seen)
    BY <1>1, <2>1 DEF Repeating
  <2>3. ASSUME NEW g \in run'.todo, NEW c \in CallsOf(g)' PROVE Past(c, g, run.until, run.seen)'
    <3>1. g \in run.todo /\ g \in Files /\ c \in CallsOf(g) /\ c \in DOMAIN calls
      BY <1>6, <1>7, <1>9, <2>3
    <3>2. Past(c, g, run.until, run.seen)
      BY <2>2, <3>1
    <3> QED BY <1>2, <1>6, <1>9, <3>2
            DEF Past, IsZeroCostSkip, IsCutoff, IsReplay, There
  <2>4. ASSUME NEW i \in DOMAIN st.plan, st.plan[i].what = "import" PROVE FALSE
    <3>1. ~Past(st.plan[i].call, f, run.until, run.seen)
      BY <1>4, <1>9, <2>1, <2>4, ImportsAreNew
    <3>2. st.plan[i].call \in CallsOf(f)
      BY <1>4, <1>9, <2>4 DEF IsRead, Deciding, DecisionOK, CallsOf
    <3> QED BY <1>9, <2>2, <3>1, <3>2
  <2> QED BY <1>6, <2>2, <2>3, <2>4 DEF Repeating
<1>11. Done'
  <2>1. SUFFICES ASSUME NEW e \in Files, NEW t \in 2 .. MaxFiles + 1,
                        NEW u \in {MaxCalls, MaxCalls + 1},
                        settled = Options(e, t, u), AllPlain
                 PROVE  Left(e, t, u)'
    BY <1>2, <1>7 DEF Done, Options
  <2>2. Left(e, t, u)
    BY <1>1, <2>1 DEF Done
  <2>3. Writes' => (run'.until = u /\ run'.seeded = Seeded(e)' /\ ~run'.failed)
    BY <1>2, <1>6, <1>7, <2>2 DEF Left, Writes
  <2>4. ASSUME NEW g \in Discovered(e, t), ~(Writes' /\ g \in run'.todo), NEW c \in CallsOf(g)
        PROVE  Past(c, g, u, Seeded(e))' \/ Coming(c, g)'
    <3>1. g \in Files /\ c \in DOMAIN calls
      BY <1>7, <2>4
    <3>2. ASSUME Past(c, g, u, Seeded(e)) PROVE Past(c, g, u, Seeded(e))'
      BY <1>2, <1>7, <3>2 DEF Past, IsZeroCostSkip, IsCutoff, IsReplay, There
    <3>3. CASE Writes /\ g \in run.todo
      <4>1. g = f /\ ~run.dry /\ ~run.failed /\ run.until = u /\ run.seeded = Seeded(e)
        BY <1>6, <2>2, <2>4, <3>3 DEF Left, Writes
      <4>2. CASE Past(c, f, run.until, run.seeded)
        <5>1. Past(c, g, u, Seeded(e))
          BY <4>1, <4>2
        <5> QED BY <3>2, <5>1
      <4>3. CASE \E i \in 1 .. Len(log[f]) : st.plan[i].what = "import" /\ st.plan[i].call = c
        BY <1>6, <1>9, <4>1, <4>3 DEF Coming, Ahead
      <4> QED BY <1>2, <1>4, <2>1, <2>4, <4>1, <4>2, <4>3, RestIsPast
    <3>4. CASE ~(Writes /\ g \in run.todo)
      <4>1. Past(c, g, u, Seeded(e))
        BY <1>2, <2>2, <2>4, <3>4 DEF Left, Coming, Ahead
      <4> QED BY <3>2, <4>1
    <3> QED BY <3>3, <3>4
  <2> QED BY <1>7, <2>3, <2>4 DEF Left
<1>12. LegacyDone'
  <2>1. legacy.phase = "idle" /\ IsFiniteSet(rows') /\ run'.phase # "idle"
    BY <1>1, <1>2, <1>6 DEF LegacyDone
  <2>2. settled' = LegacyOptions => settled = LegacyOptions /\ run'.dry
    BY <1>1, <1>2, <1>6 DEF LegacyDone
  <2> QED BY <1>1, <1>2, <2>1, <2>2, LegacyApart
<1> QED BY <1>10, <1>11, <1>12 DEF AgainInv

\* The transaction of a session leaves what was to be imported past.
LEMMA WriteSessionAgain ==
  ASSUME IInv, AgainInv, WriteSession
  PROVE  AgainInv'
<1> DEFINE N == Len(run.plan)
<1>1. /\ World /\ Repeating /\ Done /\ LegacyDone /\ run \in RunRecords(run.inserted)
  BY RunFacts DEF IInv, AgainInv
<1>2. /\ UNCHANGED <<calls, log, legacy, settled>> /\ run.phase = "write" /\ ~run.dry
  BY DEF WriteSession, world
<1>3. /\ \A r \in rows : \E q \in rows' : Kept(r, q)
      /\ RowsRight(rows', N)
  BY WriteSessionKeeps
<1>4. PICK R : R = rows'
  OBVIOUS
<1>5. RowsRight(R, N) /\ \A r \in rows : \E q \in R : Kept(r, q)
  BY <1>3, <1>4
<1>6. /\ run'.phase = "read" /\ run'.todo = run.todo /\ run'.until = run.until
      /\ run'.dry = run.dry /\ run'.seen = run.seen /\ run'.seeded = run.seeded
      /\ run'.inserted = run.inserted + Cardinality(R) - Cardinality(rows)
      /\ run'.failed = run.failed /\ run'.repeat = run.repeat
  <2>1. PICK st : st = WrittenTo(N)
    OBVIOUS
  <2>2. PICK inserted : inserted = run.inserted + Cardinality(st.rows) - Cardinality(rows)
    OBVIOUS
  <2>3. rows' = st.rows
        /\ run' = [run EXCEPT !.phase = "read", !.seenTools = st.seenTools, !.counts = st.counts,
                              !.inserted = inserted]
    BY <1>1, <2>1, <2>2 DEF WriteSession, RunRecords
  <2>4. /\ run'.phase = "read" /\ run'.todo = run.todo /\ run'.until = run.until
        /\ run'.dry = run.dry /\ run'.seen = run.seen /\ run'.seeded = run.seeded
        /\ run'.inserted = inserted
        /\ run'.failed = run.failed /\ run'.repeat = run.repeat
    BY <1>1, <2>3 DEF RunRecords
  <2> QED BY <1>4, <2>2, <2>3, <2>4
<1>7. /\ Plain' = Plain /\ AllPlain' = AllPlain
      /\ \A g \in Files : CallsOf(g)' = CallsOf(g) /\ CallsOf(g) \subseteq DOMAIN calls
      /\ \A e : Seeded(e)' = Seeded(e)
      /\ \A e, g : Discovered(e, g)' = Discovered(e, g)
      /\ \A e, g : Discovered(e, g) \subseteq Files
  BY <1>1, <1>2, SameFiles
<1>8. Remain /\ run.todo \subseteq Files
  BY <1>1, <1>3 DEF Remain, Kept, RunRecords
<1>9. IsFiniteSet(R) /\ IsFiniteSet(rows)
      /\ ((\A j \in 1 .. N : run.plan[j].what # "import") => Cardinality(R) = Cardinality(rows))
  BY <1>1, <1>5 DEF RowsRight, AsMany, LegacyDone
<1>10. DOMAIN run.plan = 1 .. N
  BY <1>2, PlanFacts
<1>11. Repeating'
  <2>1. SUFFICES ASSUME run.repeat, AllPlain PROVE Repeating'
    BY <1>6, <1>7 DEF Repeating
  <2>2. /\ run.inserted = 0 /\ \A i \in 1 .. N : run.plan[i].what # "import"
        /\ \A g \in run.todo : \A c \in CallsOf(g) : Past(c, g, run.until, run.seen)
    BY <1>1, <1>2, <1>10, <2>1 DEF Repeating
  <2>3. run'.inserted = 0
    <3>1. Cardinality(R) = Cardinality(rows) /\ Cardinality(rows) \in Nat
      BY <1>9, <2>2, FS_CardinalityType
    <3> QED BY <1>6, <2>2, <3>1
  <2>4. ASSUME NEW g \in run'.todo, NEW c \in CallsOf(g)' PROVE Past(c, g, run.until, run.seen)'
    <3>1. g \in run.todo /\ g \in Files /\ c \in CallsOf(g) /\ c \in DOMAIN calls
      BY <1>6, <1>7, <1>8, <2>4
    <3>2. PICK until : until = run.until
      OBVIOUS
    <3>3. PICK seen : seen = run.seen
      OBVIOUS
    <3>4. Past(c, g, until, seen)'
      BY <1>1, <1>2, <1>8, <2>2, <3>1, <3>2, <3>3, PastStays
    <3> QED BY <1>6, <3>2, <3>3, <3>4 DEF Past, IsCutoff, IsReplay
  <2> QED BY <1>6, <2>3, <2>4 DEF Repeating
<1>12. Done'
  <2>1. SUFFICES ASSUME NEW e \in Files, NEW t \in 2 .. MaxFiles + 1,
                        NEW u \in {MaxCalls, MaxCalls + 1},
                        settled = Options(e, t, u), AllPlain
                 PROVE  Left(e, t, u)'
    BY <1>2, <1>7 DEF Done, Options
  <2>2. Left(e, t, u)
    BY <1>1, <2>1 DEF Done
  <2>3. Writes' => (run'.until = u /\ run'.seeded = Seeded(e)' /\ ~run'.failed)
    BY <1>2, <1>6, <1>7, <2>2 DEF Left, Writes
  <2>4. ASSUME NEW g \in Discovered(e, t), ~(Writes' /\ g \in run'.todo), NEW c \in CallsOf(g)
        PROVE  Past(c, g, u, Seeded(e))'
    <3>1. g \in Files /\ c \in DOMAIN calls /\ c \in Plain
      BY <1>7, <2>1, <2>4 DEF AllPlain
    <3>2. PICK old : old = Seeded(e)
      OBVIOUS
    <3>3. CASE Past(c, g, u, Seeded(e))
      <4>1. Past(c, g, u, old)'
        BY <1>1, <1>2, <1>8, <3>1, <3>2, <3>3, PastStays
      <4> QED BY <1>7, <3>2, <4>1
    <3>4. CASE Coming(c, g)
      <4>1. PICK i \in 1 .. N : run.plan[i].what = "import" /\ run.plan[i].call = c
        BY <1>10, <3>4 DEF Coming, Ahead
      <4>2. Arrived(R, c) /\ (calls[c].named \/ run.file = g)
        BY <1>5, <3>1, <3>4, <4>1 DEF RowsRight, Coming
      <4>3. There(c, g)'
        BY <1>2, <1>4, <4>2 DEF There, Arrived
      <4> QED BY <4>3 DEF Past
    <3> QED BY <1>2, <1>6, <2>2, <2>4, <3>3, <3>4 DEF Left, Writes
  <2> QED BY <1>7, <2>3, <2>4 DEF Left
<1>13. LegacyDone'
  <2>1. legacy.phase = "idle" /\ IsFiniteSet(rows') /\ run'.phase # "idle"
    BY <1>1, <1>2, <1>4, <1>6, <1>9 DEF LegacyDone
  <2>2. settled' # LegacyOptions
    BY <1>1, <1>2 DEF LegacyDone
  <2> QED BY <1>1, <1>2, <2>1, <2>2, LegacyApart
<1> QED BY <1>11, <1>12, <1>13 DEF AgainInv

\* A run that repeats another goes on to the next session.
LEMMA GoesOn ==
  ASSUME World, Repeating, UNCHANGED <<calls, log>>, UNCHANGED rows,
         run \in RunRecords(run.inserted), run'.phase = "read", run'.todo = run.todo,
         run'.until = run.until, run'.seen = run.seen, run'.inserted = run.inserted,
         run'.repeat = run.repeat
  PROVE  Repeating'
<1>1. /\ AllPlain' = AllPlain
      /\ \A g \in Files : CallsOf(g)' = CallsOf(g) /\ CallsOf(g) \subseteq DOMAIN calls
  BY SameFiles
<1>2. SUFFICES ASSUME run.repeat, AllPlain PROVE Repeating'
  BY <1>1 DEF Repeating
<1>3. run.todo \subseteq Files
  BY DEF RunRecords
<1>4. ASSUME NEW g \in run'.todo, NEW c \in CallsOf(g)' PROVE Past(c, g, run.until, run.seen)'
  <2>1. Past(c, g, run.until, run.seen)
    BY <1>1, <1>2, <1>3, <1>4 DEF Repeating
  <2> QED BY <2>1 DEF Past, IsZeroCostSkip, IsCutoff, IsReplay, There
<1> QED BY <1>2, <1>4 DEF Repeating

\* A session that is rolled back, or only counted, and the end of a run.
LEMMA RollbackAgain ==
  ASSUME IInv, AgainInv, WriteFails
  PROVE  AgainInv'
<1>1. /\ World /\ Repeating /\ LegacyDone /\ run \in RunRecords(run.inserted)
  BY RunFacts DEF IInv, AgainInv
<1>2. /\ UNCHANGED <<calls, log, legacy>> /\ UNCHANGED rows /\ run.phase = "write"
      /\ settled' = Null
  BY DEF WriteFails, world, db
<1>3. /\ run'.phase = "read" /\ run'.todo = run.todo /\ run'.until = run.until
      /\ run'.seen = run.seen /\ run'.inserted = run.inserted /\ run'.repeat = run.repeat
  <2>1. PICK n \in 0 .. Len(run.plan) :
          run' = [run EXCEPT !.phase = "read", !.seenTools = WrittenTo(n).seenTools,
                             !.counts = WrittenTo(n).counts, !.failed = TRUE]
    BY DEF WriteFails
  <2>2. PICK S : S = WrittenTo(n).seenTools
    OBVIOUS
  <2>3. PICK C : C = WrittenTo(n).counts
    OBVIOUS
  <2>4. run' = [run EXCEPT !.phase = "read", !.seenTools = S, !.counts = C, !.failed = TRUE]
    BY <2>1, <2>2, <2>3
  <2> QED BY <1>1, <2>4 DEF RunRecords
<1>4. Repeating'
  BY <1>1, <1>2, <1>3, GoesOn
<1>5. Done'
  BY <1>2, OptionsApart DEF Done
<1>6. LegacyDone'
  <2>1. legacy.phase = "idle" /\ IsFiniteSet(rows') /\ run'.phase # "idle"
    BY <1>1, <1>2, <1>3 DEF LegacyDone
  <2>2. settled' # LegacyOptions
    BY <1>2, NullAssumption
  <2> QED BY <1>1, <1>2, <2>1, <2>2, LegacyApart
<1> QED BY <1>4, <1>5, <1>6 DEF AgainInv

\* A step after which the same calls are past as before, and no run writes.
LEMMA LeftOver ==
  ASSUME World, Done, UNCHANGED <<calls, log, settled>>, UNCHANGED rows, ~Writes',
         ~Writes \/ run.todo = {}, run.phase # "write" \/ run.dry
  PROVE  Done'
<1>1. /\ AllPlain' = AllPlain
      /\ \A g \in Files : CallsOf(g)' = CallsOf(g)
      /\ \A e : Seeded(e)' = Seeded(e)
      /\ \A e, g : Discovered(e, g)' = Discovered(e, g)
      /\ \A e, g : Discovered(e, g) \subseteq Files
  BY SameFiles
<1>2. SUFFICES ASSUME NEW e \in Files, NEW t \in 2 .. MaxFiles + 1,
                      NEW u \in {MaxCalls, MaxCalls + 1},
                      settled = Options(e, t, u), AllPlain
               PROVE  Left(e, t, u)'
  BY <1>1 DEF Done, Options
<1>3. Left(e, t, u)
  BY <1>2 DEF Done
<1>4. ASSUME NEW g \in Discovered(e, t), NEW c \in CallsOf(g)
      PROVE  Past(c, g, u, Seeded(e))'
  <2>1. Past(c, g, u, Seeded(e))
    BY <1>3, <1>4 DEF Left, Coming, Ahead
  <2> QED BY <1>1, <2>1 DEF Past, IsZeroCostSkip, IsCutoff, IsReplay, There
<1> QED BY <1>1, <1>4 DEF Left

LEMMA CountSessionAgain ==
  ASSUME IInv, AgainInv, CountSession
  PROVE  AgainInv'
<1>1. /\ World /\ Repeating /\ Done /\ LegacyDone /\ run \in RunRecords(run.inserted)
  BY RunFacts DEF IInv, AgainInv
<1>2. /\ UNCHANGED <<calls, log, legacy, settled>> /\ UNCHANGED rows /\ run.phase = "write"
      /\ run.dry
  BY DEF CountSession, world, db
<1>3. /\ run'.phase = "read" /\ run'.todo = run.todo /\ run'.until = run.until /\ run'.dry
      /\ run'.seen = run.seen /\ run'.inserted = run.inserted /\ run'.repeat = run.repeat
  <2>1. PICK S : S = ForeseenAll.seenTools
    OBVIOUS
  <2>2. PICK C : C = ForeseenAll.counts
    OBVIOUS
  <2>3. run' = [run EXCEPT !.phase = "read", !.seenTools = S, !.counts = C]
    BY <2>1, <2>2 DEF CountSession
  <2> QED BY <1>1, <1>2, <2>3 DEF RunRecords
<1>4. Repeating'
  BY <1>1, <1>2, <1>3, GoesOn
<1>5. Done'
  BY <1>1, <1>2, <1>3, LeftOver DEF Writes
<1>6. LegacyDone'
  <2>1. legacy.phase = "idle" /\ IsFiniteSet(rows') /\ run'.phase # "idle"
    BY <1>1, <1>2, <1>3 DEF LegacyDone
  <2> QED BY <1>1, <1>2, <1>3, <2>1, LegacyApart
<1> QED BY <1>4, <1>5, <1>6 DEF AgainInv

LEMMA FinishImportAgain ==
  ASSUME IInv, AgainInv, FinishImport
  PROVE  AgainInv'
<1>1. /\ World /\ Repeating /\ Done /\ LegacyDone
  BY DEF IInv, AgainInv
<1>2. /\ UNCHANGED <<calls, log, legacy, settled>> /\ UNCHANGED rows /\ run.phase = "read"
      /\ run.todo = {} /\ run' = NoRun
  BY DEF FinishImport, world, db
<1>3. run'.phase = "idle" /\ ~run'.repeat
  BY <1>2 DEF NoRun
<1>4. Repeating'
  BY <1>3 DEF Repeating
<1>5. Done'
  BY <1>1, <1>2, <1>3, LeftOver DEF Writes
<1>6. LegacyDone'
  <2>1. legacy.phase = "idle" /\ IsFiniteSet(rows')
    BY <1>1, <1>2 DEF LegacyDone
  <2> QED BY <1>1, <1>2, <1>3, <2>1, LegacyApart
<1> QED BY <1>4, <1>5, <1>6 DEF AgainInv

LEMMA ImportAbortsAgain ==
  ASSUME IInv, AgainInv, ImportAborts
  PROVE  AgainInv'
<1>1. /\ World /\ Repeating /\ Done /\ LegacyDone
  BY DEF IInv, AgainInv
<1>2. /\ UNCHANGED <<calls, log, legacy>> /\ UNCHANGED rows /\ run.phase # "idle"
      /\ run' = NoRun
      /\ settled' = IF run.dry THEN settled ELSE Null
  BY DEF ImportAborts, world, db
<1>3. run'.phase = "idle" /\ ~run'.repeat
  BY <1>2 DEF NoRun
<1>4. Repeating'
  BY <1>3 DEF Repeating
<1>5. CASE run.dry
  <2>1. UNCHANGED settled
    BY <1>2, <1>5
  <2>2. Done'
    BY <1>1, <1>2, <1>3, <1>5, <2>1, LeftOver DEF Writes
  <2>3. legacy.phase = "idle" /\ IsFiniteSet(rows')
    BY <1>1, <1>2 DEF LegacyDone
  <2>4. LegacyDone'
    BY <1>1, <1>2, <1>3, <2>1, <2>3, LegacyApart
  <2> QED BY <1>4, <2>2, <2>4 DEF AgainInv
<1>6. CASE ~run.dry
  <2>1. settled' = Null
    BY <1>2, <1>6
  <2>2. Done'
    BY <2>1, OptionsApart DEF Done
  <2>3. legacy.phase = "idle" /\ IsFiniteSet(rows') /\ settled' # LegacyOptions
    BY <1>1, <1>2, <2>1, NullAssumption DEF LegacyDone
  <2>4. LegacyDone'
    BY <1>1, <1>2, <1>3, <2>3, LegacyApart
  <2> QED BY <1>4, <2>2, <2>4 DEF AgainInv
<1> QED BY <1>5, <1>6

\* What the legacy import does to no row leaves the other import as it is.
LEMMA ImportApart ==
  ASSUME World, Repeating, Done, UNCHANGED <<calls, log, run>>, UNCHANGED rows,
         settled' \in {settled, Null, LegacyOptions}
  PROVE  Repeating' /\ Done'
<1>1. /\ AllPlain' = AllPlain
      /\ \A g \in Files : CallsOf(g)' = CallsOf(g)
      /\ \A e : Seeded(e)' = Seeded(e)
      /\ \A e, g : Discovered(e, g)' = Discovered(e, g)
      /\ \A e, g : Discovered(e, g) \subseteq Files
  BY SameFiles
<1>2. ASSUME NEW c, NEW g, NEW u, NEW seen, Past(c, g, u, seen) PROVE Past(c, g, u, seen)'
  BY <1>2 DEF Past, IsZeroCostSkip, IsCutoff, IsReplay, There
<1>3. Repeating'
  <2>1. \A g \in Files : CallsOf(g)' = CallsOf(g)
    BY <1>1
  <2>2. SUFFICES ASSUME run.repeat, AllPlain PROVE Repeating'
    BY <1>1 DEF Repeating
  <2>3. ASSUME NEW g \in run'.todo, NEW c \in CallsOf(g)' PROVE Past(c, g, run.until, run.seen)'
    <3>1. c \in CallsOf(g) /\ g \in run.todo
      BY <2>3 DEF CallsOf
    <3>2. Past(c, g, run.until, run.seen)
      BY <2>2, <3>1 DEF Repeating
    <3> QED BY <3>2 DEF Past, IsZeroCostSkip, IsCutoff, IsReplay, There
  <2> QED BY <2>2, <2>3 DEF Repeating
<1>4. Done'
  <2>1. SUFFICES ASSUME NEW e \in Files, NEW t \in 2 .. MaxFiles + 1,
                        NEW u \in {MaxCalls, MaxCalls + 1},
                        settled' = Options(e, t, u), AllPlain
                 PROVE  Left(e, t, u)'
    BY <1>1 DEF Done, Options
  <2>2. settled = Options(e, t, u)
    BY <2>1, OptionsApart
  <2>3. Left(e, t, u)
    BY <2>1, <2>2 DEF Done
  <2>4. ASSUME NEW c, NEW g, Coming(c, g) PROVE Coming(c, g)'
    BY <2>4 DEF Coming, Ahead
  <2>5. ASSUME NEW g \in Discovered(e, t), ~(Writes' /\ g \in run'.todo), NEW c \in CallsOf(g)
        PROVE  Past(c, g, u, Seeded(e))' \/ Coming(c, g)'
    <3>1. Past(c, g, u, Seeded(e)) \/ Coming(c, g)
      BY <2>3, <2>5 DEF Left, Writes
    <3>2. CASE Past(c, g, u, Seeded(e))
      BY <1>1, <3>2 DEF Past, IsZeroCostSkip, IsCutoff, IsReplay, There
    <3> QED BY <2>4, <3>1, <3>2
  <2>6. Writes' => (run'.until = u /\ run'.seeded = Seeded(e)' /\ ~run'.failed)
    BY <1>1, <2>3 DEF Left, Writes
  <2> QED BY <1>1, <2>5, <2>6 DEF Left
<1> QED BY <1>3, <1>4

LEMMA LegacyLooksAgain ==
  ASSUME IInv, AgainInv, StartLegacy \/ LegacyFails \/ CountLegacy \/ FinishLegacy
  PROVE  AgainInv'
<1>1. World /\ Repeating /\ Done /\ LegacyDone
  BY DEF IInv, AgainInv
<1>2. /\ UNCHANGED <<calls, log, run>> /\ UNCHANGED rows
      /\ settled' \in {settled, Null, LegacyOptions}
  BY DEF StartLegacy, LegacyFails, CountLegacy, FinishLegacy, world, db
<1>3. Repeating' /\ Done'
  BY <1>1, <1>2, ImportApart
<1>4. UNCHANGED LegacyRows
  BY DEF LegacyRows, Row, LegacyId
<1>5. IsFiniteSet(rows) /\ Cardinality(rows) \in Nat
  BY <1>1, FS_CardinalityType DEF LegacyDone
<1>6. ASSUME StartLegacy PROVE LegacyDone'
  <2>1. PICK again \in BOOLEAN : again = (settled = LegacyOptions)
    OBVIOUS
  <2>2. legacy' = [phase |-> "write", before |-> Cardinality(rows), added |-> 0, repeat |-> again]
    BY <1>6, <2>1 DEF StartLegacy, NoLegacy
  <2>3. run.phase = "idle" /\ legacy.phase = "idle"
    BY <1>6 DEF StartLegacy, Idle
  <2>4. again => LegacyRows \subseteq rows
    BY <1>1, <2>1, <2>3 DEF LegacyDone
  <2>5. run.phase = "idle" => ~run.repeat
    BY <1>1 DEF LegacyDone
  <2> QED BY <1>2, <1>4, <1>5, <2>2, <2>3, <2>4, <2>5 DEF LegacyDone
<1>7. ASSUME LegacyFails \/ FinishLegacy PROVE LegacyDone'
  <2>1. legacy' = [phase |-> "idle", before |-> 0, added |-> 0, repeat |-> FALSE]
    BY <1>7 DEF LegacyFails, FinishLegacy, NoLegacy
  <2>2. /\ legacy.phase \in {"write", "report"}
        /\ settled' = Null \/ (settled' = settled /\ legacy.phase = "report")
    BY <1>7 DEF LegacyFails, FinishLegacy
  <2>3. settled' = LegacyOptions => settled = LegacyOptions /\ legacy.phase = "report"
    BY <2>2, NullAssumption
  <2>4. run.phase = "idle" /\ ~run.repeat
    BY <1>1, <2>2 DEF LegacyDone
  <2>5. settled' = LegacyOptions => LegacyRows \subseteq rows
    BY <1>1, <2>3 DEF LegacyDone
  <2> QED BY <1>2, <1>4, <1>5, <2>1, <2>4, <2>5 DEF LegacyDone
<1>8. ASSUME CountLegacy PROVE LegacyDone'
  <2>1. PICK n : n = Cardinality(rows) - legacy.before
    OBVIOUS
  <2>2. legacy' = [legacy EXCEPT !.phase = "report", !.added = n] /\ settled' = settled
        /\ legacy.phase = "count"
    BY <1>8, <2>1 DEF CountLegacy
  <2>3. n \in Int /\ (legacy.repeat => n = 0)
    BY <1>1, <1>5, <2>1, <2>2 DEF LegacyDone
  <2>4. /\ legacy' \in [phase : {"idle", "write", "count", "report"}, before : Int, added : Int,
                        repeat : BOOLEAN]
        /\ legacy'.phase = "report" /\ legacy'.added = n /\ legacy'.repeat = legacy.repeat
    BY <1>1, <2>2, <2>3 DEF LegacyDone
  <2>5. /\ run.phase = "idle" /\ ~run.repeat
        /\ (settled = LegacyOptions \/ legacy.repeat) => LegacyRows \subseteq rows
    BY <1>1, <2>2 DEF LegacyDone
  <2> QED BY <1>2, <1>4, <1>5, <2>2, <2>3, <2>4, <2>5 DEF LegacyDone
<1> QED BY <1>3, <1>6, <1>7, <1>8 DEF AgainInv

\* There are finitely many legacy rows.
LEMMA LegacyRowsFinite == IsFiniteSet(LegacyRows)
<1> DEFINE S == {l \in Legacy : ~l.orphan}
           g == [m \in S |-> Row(LegacyId(m.call), OfLegacy, 0, m.call, "legacy")]
<1>1. IsFiniteSet(S)
  BY LegacyAssumption, FS_Subset
<1>2. LegacyRows = {g[m] : m \in S} /\ DOMAIN g = S
  BY DEF LegacyRows
<1> HIDE DEF g, S
<1> QED BY <1>1, <1>2, FiniteImage

LEMMA WriteLegacyAgain ==
  ASSUME IInv, AgainInv, WriteLegacy
  PROVE  AgainInv'
<1>1. World /\ Stored /\ Repeating /\ Done /\ LegacyDone
  BY DEF IInv, AgainInv
<1>2. /\ UNCHANGED <<calls, log, run, settled>> /\ legacy.phase = "write"
      /\ rows' = {r \in rows : \A q \in LegacyRows : q.id # r.id} \cup LegacyRows
      /\ legacy' = [legacy EXCEPT !.phase = "count"]
  BY DEF WriteLegacy, world
<1>3. run.phase = "idle" /\ ~run.repeat /\ ~Writes
  BY <1>1, <1>2 DEF LegacyDone, Writes
<1>4. Repeating'
  BY <1>2, <1>3 DEF Repeating
<1>5. Done'
  <2>1. /\ AllPlain' = AllPlain
        /\ \A g \in Files : CallsOf(g)' = CallsOf(g) /\ CallsOf(g) \subseteq DOMAIN calls
        /\ \A e : Seeded(e)' = Seeded(e)
        /\ \A e, g : Discovered(e, g)' = Discovered(e, g)
        /\ \A e, g : Discovered(e, g) \subseteq Files
    BY <1>1, <1>2, SameFiles
  <2>2. Remain
    BY <1>1, WriteLegacyKeeps, WorldFacts DEF Remain
  <2>3. SUFFICES ASSUME NEW e \in Files, NEW t \in 2 .. MaxFiles + 1,
                        NEW u \in {MaxCalls, MaxCalls + 1},
                        settled = Options(e, t, u), AllPlain
                 PROVE  Left(e, t, u)'
    BY <1>2, <2>1 DEF Done, Options
  <2>4. ASSUME NEW g \in Discovered(e, t), NEW c \in CallsOf(g)
        PROVE  Past(c, g, u, Seeded(e))'
    <3>1. Left(e, t, u)
      BY <1>1, <2>3 DEF Done
    <3>2. Past(c, g, u, Seeded(e))
      BY <1>3, <2>4, <3>1 DEF Left, Coming, Ahead
    <3>3. PICK old : old = Seeded(e)
      OBVIOUS
    <3>4. c \in DOMAIN calls
      BY <2>1, <2>4
    <3>5. Past(c, g, u, old)'
      BY <1>1, <1>2, <2>2, <3>2, <3>3, <3>4, PastStays
    <3> QED BY <2>1, <3>3, <3>5
  <2>5. ~Writes'
    BY <1>2, <1>3 DEF Writes
  <2> QED BY <2>1, <2>4, <2>5 DEF Left
<1>6. LegacyDone'
  <2>1. UNCHANGED LegacyRows
    BY DEF LegacyRows, Row, LegacyId
  <2>2. IsFiniteSet(rows')
    <3>1. IsFiniteSet({r \in rows : \A q \in LegacyRows : q.id # r.id})
      BY <1>1, FS_Subset DEF LegacyDone
    <3> QED BY <1>2, <3>1, LegacyRowsFinite, FS_Union
  <2>3. ASSUME LegacyRows \subseteq rows PROVE rows' = rows
    <3>1. \A r \in rows, q \in LegacyRows : q.id = r.id => r = q
      BY <1>1, <2>3 DEF Stored, IdsUnique
    <3> HIDE DEF LegacyRows
    <3> QED BY <1>2, <2>3, <3>1
  <2>4. /\ legacy' \in [phase : {"idle", "write", "count", "report"}, before : Int, added : Int,
                        repeat : BOOLEAN]
        /\ legacy'.phase = "count" /\ legacy'.before = legacy.before
        /\ legacy'.repeat = legacy.repeat
    BY <1>1, <1>2 DEF LegacyDone
  <2>5. LegacyRows \subseteq rows'
    BY <1>2
  <2>6. legacy.repeat => LegacyRows \subseteq rows /\ legacy.before = Cardinality(rows)
    BY <1>1, <1>2 DEF LegacyDone
  <2> HIDE DEF LegacyRows
  <2> QED BY <1>2, <1>3, <2>1, <2>2, <2>3, <2>4, <2>5, <2>6 DEF LegacyDone
<1> QED BY <1>4, <1>5, <1>6 DEF AgainInv

LEMMA AgainInit == Init => AgainInv
<1>1. SUFFICES ASSUME Init PROVE AgainInv
  OBVIOUS
<1>2. run.phase = "idle" /\ ~run.repeat /\ settled = Null /\ rows = {}
      /\ legacy = [phase |-> "idle", before |-> 0, added |-> 0, repeat |-> FALSE]
  BY <1>1 DEF Init, NoRun, NoLegacy
<1>3. Repeating
  BY <1>2 DEF Repeating
<1>4. Done
  BY <1>2, OptionsApart DEF Done
<1>5. LegacyDone
  <2>1. settled # LegacyOptions /\ IsFiniteSet(rows)
    BY <1>2, NullAssumption, FS_EmptySet
  <2> QED BY <1>2, <2>1 DEF LegacyDone
<1> QED BY <1>3, <1>4, <1>5 DEF AgainInv

LEMMA AgainStep == IInv /\ AgainInv /\ [Next]_vars => AgainInv'
<1> SUFFICES ASSUME IInv, AgainInv, [Next]_vars PROVE AgainInv'
  OBVIOUS
<1>1. LegacyDone
  BY DEF AgainInv
<1>2. ASSUME NEW f \in Files, NEW named \in BOOLEAN, NEW costly \in BOOLEAN, NEW t \in Tokens,
             NEW live \in {"none", "spool", "old"}, Call(f, named, costly, t, live)
      PROVE  AgainInv'
  BY <1>1, <1>2, CallAgain
<1>3. ASSUME NEW f \in Files, NEW g \in Files, NEW n \in DOMAIN log[f], Fork(f, g, n)
      PROVE  AgainInv'
  BY <1>1, <1>3, ForkAgain
<1>4. ASSUME NEW r \in pending, Drain(r) PROVE AgainInv'
  BY <1>1, <1>4, DrainAgain
<1>5. ASSUME NEW from \in Files, NEW to \in 2 .. MaxFiles + 1,
             NEW until \in {MaxCalls, MaxCalls + 1}, NEW dry \in BOOLEAN,
             StartImport(from, to, until, dry)
      PROVE  AgainInv'
  BY <1>5, StartImportAgain
<1>6. ASSUME \/ ReadSession \/ WriteSession \/ WriteFails \/ CountSession
             \/ ImportAborts \/ FinishImport
      PROVE  AgainInv'
  BY <1>6, ReadSessionAgain, WriteSessionAgain, RollbackAgain, CountSessionAgain,
     ImportAbortsAgain, FinishImportAgain
<1>7. ASSUME StartLegacy \/ WriteLegacy \/ LegacyFails \/ CountLegacy \/ FinishLegacy
      PROVE  AgainInv'
  BY <1>7, LegacyLooksAgain, WriteLegacyAgain
<1>8. ASSUME UNCHANGED vars PROVE AgainInv'
  <2>1. UNCHANGED <<calls, log, run, rows, legacy, settled>>
    BY <1>8 DEF vars
  <2>2. Repeating' /\ Done'
    BY <2>1, ImportApart DEF IInv, AgainInv
  <2>3. UNCHANGED LegacyRows
    BY DEF LegacyRows, Row, LegacyId
  <2>4. LegacyDone'
    BY <1>1, <2>1, <2>3 DEF LegacyDone
  <2> QED BY <2>2, <2>4 DEF AgainInv
<1>9. CASE Next
  BY <1>2, <1>3, <1>4, <1>5, <1>6, <1>7, <1>9 DEF Next
<1> QED BY <1>8, <1>9

LEMMA AgainHolds == AgainInv => RepeatAddsNothing
<1>1. SUFFICES ASSUME AgainInv PROVE RepeatAddsNothing
  OBVIOUS
<1>2. (run.repeat /\ Plain = DOMAIN calls) => run.inserted = 0
  BY <1>1 DEF AgainInv, Repeating, AllPlain
<1>3. (legacy.phase = "report" /\ legacy.repeat) => legacy.added = 0
  BY <1>1 DEF AgainInv, LegacyDone
<1> QED BY <1>2, <1>3 DEF RepeatAddsNothing

-----------------------------------------------------------------------------
(* Theorems                                                                *)

\* The importers keep the inductive invariant, whatever Pi, the live writer
\* and the daemon do between their steps.
THEOREM ImportsInvariant == Spec => []IInv
BY InitRight, StepRight, PTL DEF Spec

LEMMA InvariantTypes == IInv => TypeOK
<1>1. SUFFICES ASSUME IInv PROVE TypeOK
  OBVIOUS
<1>2. \A f \in Files : log[f] \in Seq(DOMAIN calls)
  BY <1>1, WorldFacts DEF IInv
<1>3. run.phase \in {"idle", "read", "write"} /\ run.counts \in Counts
  BY <1>1 DEF IInv, Running, RunRecords
<1>4. \A r, q \in rows : r.id = q.id => r = q
  BY <1>1 DEF IInv, Stored, IdsUnique
<1>5. \A r \in rows : <<r.session, r.turn>> \in turns /\ <<r.session, -1>> \in turns
  BY <1>1 DEF IInv, Stored, Placed
<1>6. \A t, u \in tools : t.call = u.call => t = u
  BY <1>1 DEF IInv, Tooled
<1> QED BY <1>2, <1>3, <1>4, <1>5, <1>6 DEF TypeOK, Counts

\* The shape of every variable: ids are keys, rows refer to rows of turns and
\* sessions, and no count runs over.
THEOREM ImportTypes == Spec => []TypeOK
BY ImportsInvariant, InvariantTypes, PTL

\* An API call with a provider id has one row, whatever files and writers
\* brought it, in whatever order, for any number of imports and failures.
THEOREM OneRowEach == Spec => []OnceEach
<1>1. IInv => OnceEach
  BY DEF IInv
<1> QED BY <1>1, ImportsInvariant, PTL

LEMMA InvariantMisses == IInv => NothingMissing
<1>1. SUFFICES ASSUME IInv, run.phase = "read", ~run.dry, ~run.failed,
                      NEW c \in run.covered \cap Plain, ~IsZeroCostSkip(c),
                      ~IsCutoff(c, run.until), c \notin run.seeded
               PROVE  \E r \in rows : r.call = c
  BY DEF NothingMissing
<1> QED BY <1>1 DEF IInv, Covered, Ahead

\* No call that was read is missing after a run without failures.
THEOREM NoneMissing == Spec => []NothingMissing
BY ImportsInvariant, InvariantMisses, PTL

\* A tool call from a log is in the session of its message's row, which may
\* be that of a message like it by now.
THEOREM ToolsWithMessages == Spec => []ToolsFollow
<1>1. IInv => ToolsFollow
  BY DEF IInv
<1> QED BY <1>1, ImportsInvariant, PTL

\* The counts of a dry run are those of the run.
THEOREM PreviewCounts == Spec => []PreviewExact
BY ImportsInvariant, PreviewRight, PTL

\* A live row keeps its session, its turn, its call and its writer, and gets
\* at most the provider's id of its own call, unless an import has given it the
\* id of a call that is like its own and this call's record is drained.
THEOREM LiveRowsStayPut == Spec => LiveRowsKept
<1> DEFINE A == \A r \in rows :
                  (r.by = "live" /\ \A p \in pending \ pending' : p.id = r.id => ~Mistaken(r)) =>
                  \E q \in rows' :
                    /\ [q EXCEPT !.id = r.id] = r
                    /\ q.id = r.id \/ (r.call \in Plain => q.id = ResponseId(r.call))
<1>1. IInv /\ [Next]_vars => [A]_rows
  <2>1. SUFFICES ASSUME IInv, [Next]_vars PROVE A
    OBVIOUS
  <2>2. IInv' /\ LiveRowsStay
    BY <2>1, StepRight
  <2>3. SUFFICES ASSUME NEW r \in rows, r.by = "live",
                        \A p \in pending \ pending' : p.id = r.id => ~Mistaken(r)
                 PROVE  \E q \in rows' :
                          /\ [q EXCEPT !.id = r.id] = r
                          /\ q.id = r.id \/ (r.call \in Plain => q.id = ResponseId(r.call))
    OBVIOUS
  <2>4. PICK q \in rows' : Kept(r, q)
    BY <2>2, <2>3 DEF LiveRowsStay
  <2>5. r \in Rows
    BY <2>1 DEF IInv, Stored, RowOK
  <2>6. q \in Rows
    BY <2>2 DEF IInv, Stored, RowOK
  <2>7. [q EXCEPT !.id = r.id] = r
    BY <2>4, <2>5, <2>6 DEF Kept, Rows
  <2> QED BY <2>4, <2>7 DEF Kept
<1> HIDE DEF A
<1>2. Spec => [][A]_rows
  BY <1>1, ImportsInvariant, PTL DEF Spec
<1> QED BY <1>2 DEF LiveRowsKept, A

\* The same import again, with nothing new to read, adds no row.
THEOREM RepeatsAddNothing == Spec => []RepeatAddsNothing
BY ImportsInvariant, AgainInit, AgainStep, AgainHolds, PTL DEF Spec
=============================================================================
