------------------------- MODULE PiExtensionProofs -------------------------
(***************************************************************************)
(* What the Pi writer guarantees about the order, the completeness and the *)
(* ids of what it records, for every set of session files, tools and       *)
(* models, every plan of loads and any number of events and faults.        *)
(***************************************************************************)
EXTENDS PiExtension, SequenceTheorems, TLAPS

-----------------------------------------------------------------------------
(* Sequences of records                                                    *)

\* What a queue whose first record is written may rely on: every record has
\* its parents in B or before it.
Ordered(B, q) == \A j \in DOMAIN q : HasParents(q[j], B \cup {q[k] : k \in 1 .. j - 1})

\* Parents that are above something are above it however much else is.
LEMMA ParentsMonotone ==
  ASSUME NEW r, NEW A, NEW B, HasParents(r, A), A \subseteq B
  PROVE  HasParents(r, B)
BY DEF HasParents

\* A queue that gets one record more.
LEMMA AppendFacts ==
  ASSUME NEW S, NEW q \in Seq(S), NEW r \in S
  PROVE  /\ Append(q, r) \in Seq(S)
         /\ Range(Append(q, r)) = Range(q) \cup {r}
<1>1. /\ Len(Append(q, r)) = Len(q) + 1
      /\ \A i \in 1 .. Len(q) : Append(q, r)[i] = q[i]
      /\ Append(q, r)[Len(q) + 1] = r
      /\ Append(q, r) \in Seq(S) /\ Len(q) \in Nat
  BY AppendProperties, LenProperties
<1>2. DOMAIN Append(q, r) = 1 .. Len(q) + 1 /\ DOMAIN q = 1 .. Len(q)
  BY <1>1, LenProperties
<1> QED BY <1>1, <1>2 DEF Range

\* A queue that loses its first record.
LEMMA TailFacts ==
  ASSUME NEW S, NEW q \in Seq(S), q # <<>>
  PROVE  /\ Head(q) \in S /\ Tail(q) \in Seq(S)
         /\ Range(q) = {Head(q)} \cup Range(Tail(q))
         /\ Len(q) \in Nat \ {0} /\ Len(Tail(q)) = Len(q) - 1
         /\ DOMAIN q = 1 .. Len(q) /\ DOMAIN Tail(q) = 1 .. Len(q) - 1
         /\ Head(q) = q[1]
         /\ \A i \in 1 .. Len(q) - 1 : Tail(q)[i] = q[i + 1]
<1>1. /\ Head(q) \in S /\ Tail(q) \in Seq(S)
      /\ Len(Tail(q)) = Len(q) - 1
      /\ \A i \in 1 .. Len(Tail(q)) : Tail(q)[i] = q[i + 1]
  BY HeadTailProperties
<1>2. Len(q) \in Nat \ {0} /\ DOMAIN q = 1 .. Len(q)
  BY EmptySeq, LenProperties
<1>3. DOMAIN Tail(q) = 1 .. Len(q) - 1
  BY <1>1, LenProperties
<1>4. Head(q) = q[1]
  BY DEF Head
<1>5. Range(q) = {Head(q)} \cup Range(Tail(q))
  <2>1. ASSUME NEW i \in DOMAIN q PROVE q[i] \in {Head(q)} \cup Range(Tail(q))
    <3>1. CASE i = 1
      BY <1>4, <3>1
    <3>2. CASE i # 1
      <4>1. i - 1 \in 1 .. Len(q) - 1 /\ (i - 1) + 1 = i
        BY <1>2, <3>2
      <4>2. Tail(q)[i - 1] = q[i]
        BY <1>1, <4>1
      <4> QED BY <1>3, <4>1, <4>2 DEF Range
    <3> QED BY <3>1, <3>2
  <2>2. ASSUME NEW i \in DOMAIN Tail(q) PROVE Tail(q)[i] \in Range(q)
    <3>1. i + 1 \in DOMAIN q /\ Tail(q)[i] = q[i + 1]
      BY <1>1, <1>2, <1>3
    <3> QED BY <3>1 DEF Range
  <2>3. Head(q) \in Range(q)
    BY <1>2, <1>4 DEF Range
  <2> QED BY <2>1, <2>2, <2>3 DEF Range
<1> QED BY <1>1, <1>2, <1>3, <1>4, <1>5

\* A record whose parents are said may be queued.
LEMMA OrderedAppend ==
  ASSUME NEW S, NEW q \in Seq(S), NEW r \in S, NEW B, Ordered(B, q),
         HasParents(r, B \cup Range(q))
  PROVE  Ordered(B, Append(q, r))
<1> DEFINE t == Append(q, r)
<1>1. /\ Len(q) \in Nat /\ DOMAIN q = 1 .. Len(q) /\ DOMAIN t = 1 .. Len(q) + 1
      /\ \A i \in 1 .. Len(q) : t[i] = q[i]
      /\ t[Len(q) + 1] = r
  <2>1. t \in Seq(S) /\ Len(t) = Len(q) + 1
    BY AppendProperties
  <2>2. DOMAIN t = 1 .. Len(t)
    <3> HIDE DEF t
    <3> QED BY <2>1, LenProperties
  <2> QED BY <2>1, <2>2, AppendProperties, LenProperties
<1> HIDE DEF t
<1>2. ASSUME NEW j \in DOMAIN t
      PROVE  HasParents(t[j], B \cup {t[k] : k \in 1 .. j - 1})
  <2>1. CASE j \in 1 .. Len(q)
    <3>1. {t[k] : k \in 1 .. j - 1} = {q[k] : k \in 1 .. j - 1}
      BY <1>1, <2>1
    <3>2. HasParents(q[j], B \cup {q[k] : k \in 1 .. j - 1})
      BY <1>1, <2>1 DEF Ordered
    <3> QED BY <1>1, <2>1, <3>1, <3>2
  <2>2. CASE j = Len(q) + 1
    <3>1. {t[k] : k \in 1 .. j - 1} = Range(q)
      BY <1>1, <2>2 DEF Range
    <3> QED BY <1>1, <2>2, <3>1
  <2> QED BY <1>1, <2>1, <2>2
<1> QED BY <1>2 DEF Ordered, t

\* What is written next has its parents in the file.
LEMMA OrderedTail ==
  ASSUME NEW S, NEW q \in Seq(S), q # <<>>, NEW B, Ordered(B, q)
  PROVE  HasParents(Head(q), B) /\ Ordered(B \cup {Head(q)}, Tail(q))
<1>1. HasParents(Head(q), B)
  <2>1. 1 \in DOMAIN q /\ q[1] = Head(q)
    BY TailFacts
  <2>2. {q[k] : k \in 1 .. 1 - 1} = {}
    OBVIOUS
  <2>3. B \cup {} = B
    OBVIOUS
  <2> QED BY <2>1, <2>2, <2>3 DEF Ordered
<1>2. ASSUME NEW j \in DOMAIN Tail(q)
      PROVE  HasParents(Tail(q)[j], (B \cup {Head(q)}) \cup {Tail(q)[k] : k \in 1 .. j - 1})
  <2>1. j + 1 \in DOMAIN q /\ Tail(q)[j] = q[j + 1] /\ j \in Nat /\ j + 1 - 1 = j
    BY TailFacts
  <2>2. HasParents(q[j + 1], B \cup {q[k] : k \in 1 .. j + 1 - 1})
    BY <2>1 DEF Ordered
  <2>3. ASSUME NEW k \in 1 .. j + 1 - 1
        PROVE  q[k] \in {Head(q)} \cup {Tail(q)[l] : l \in 1 .. j - 1}
    <3>1. CASE k = 1
      BY <3>1, TailFacts
    <3>2. CASE k # 1
      <4>1. k - 1 \in 1 .. j - 1 /\ (k - 1) + 1 = k
        BY <2>1, <3>2
      <4>2. k - 1 \in 1 .. Len(q) - 1
        BY <4>1, TailFacts
      <4>3. Tail(q)[k - 1] = q[k]
        BY <4>1, <4>2, TailFacts
      <4> QED BY <4>1, <4>3
    <3> QED BY <3>1, <3>2
  <2>4. B \cup {q[k] : k \in 1 .. j + 1 - 1}
          \subseteq (B \cup {Head(q)}) \cup {Tail(q)[k] : k \in 1 .. j - 1}
    BY <2>3
  <2> QED BY <2>1, <2>2, <2>4, ParentsMonotone
<1> QED BY <1>1, <1>2 DEF Ordered

\* Records that wait may be queued together, as none needs another.
LEMMA OrderedConcat ==
  ASSUME NEW S, NEW q \in Seq(S), NEW t \in Seq(S), NEW B, Ordered(B, q),
         \A r \in Range(t) : HasParents(r, B \cup Range(q))
  PROVE  Ordered(B, q \o t)
<1> DEFINE u == q \o t
<1>1. /\ Len(q) \in Nat /\ Len(t) \in Nat
      /\ DOMAIN q = 1 .. Len(q) /\ DOMAIN t = 1 .. Len(t)
  BY LenProperties
<1>2. /\ u \in Seq(S) /\ Len(u) = Len(q) + Len(t)
      /\ \A i \in 1 .. Len(q) + Len(t) : u[i] = IF i <= Len(q) THEN q[i] ELSE t[i - Len(q)]
  BY ConcatProperties
<1>3. DOMAIN u = 1 .. Len(q) + Len(t)
  <2> HIDE DEF u
  <2> QED BY <1>2, LenProperties
<1> HIDE DEF u
<1>4. ASSUME NEW j \in DOMAIN u
      PROVE  HasParents(u[j], B \cup {u[k] : k \in 1 .. j - 1})
  <2>1. CASE j <= Len(q)
    <3>1. {u[k] : k \in 1 .. j - 1} = {q[k] : k \in 1 .. j - 1}
      <4>1. \A k \in 1 .. j - 1 : k \in 1 .. Len(q) + Len(t) /\ k <= Len(q)
        BY <1>1, <1>3, <2>1
      <4>2. \A k \in 1 .. j - 1 : u[k] = q[k]
        BY <1>2, <4>1
      <4> QED BY <4>2
    <3>2. HasParents(q[j], B \cup {q[k] : k \in 1 .. j - 1})
      BY <1>1, <1>3, <2>1 DEF Ordered
    <3>3. u[j] = q[j]
      BY <1>2, <1>3, <2>1
    <3> QED BY <3>1, <3>2, <3>3
  <2>2. CASE ~ (j <= Len(q))
    <3>1. j - Len(q) \in DOMAIN t /\ u[j] = t[j - Len(q)]
      BY <1>1, <1>2, <1>3, <2>2
    <3>2. HasParents(u[j], B \cup Range(q))
      BY <3>1 DEF Range
    <3>3. \A k \in DOMAIN q : k \in 1 .. j - 1 /\ u[k] = q[k]
      BY <1>1, <1>2, <1>3, <2>2
    <3>4. B \cup Range(q) \subseteq B \cup {u[k] : k \in 1 .. j - 1}
      BY <3>3 DEF Range
    <3> QED BY <3>2, <3>4, ParentsMonotone
  <2> QED BY <2>1, <2>2
<1> QED BY <1>4 DEF Ordered, u

-----------------------------------------------------------------------------
(* The inductive invariant                                                 *)

TurnIds == Sessions \X Nat
MessageIds == ({"response"} \X Nat) \cup (Sessions \X Nat \X Nat)
MessageRecords ==
  [type : {"message"}, session : Sessions, turn : TurnIds \cup {None}, id : MessageIds, message : Nat]
Records ==
  [type : {"session"}, session : Sessions, end : BOOLEAN]
    \cup [type : {"turn"}, session : Sessions, turn : TurnIds \cup {None},
          model : Models \cup {None}, end : BOOLEAN]
    \cup MessageRecords
    \cup [type : {"tool"}, session : Sessions, turn : TurnIds \cup {None}, id : Tools]

Writers ==
  [closed : BOOLEAN, queue : Seq(Records), file : Seq(Records),
   state : {"active", "none", "closed", "left"}, lost : BOOLEAN]

Pi ==
  [plan : Plans, alive : BOOLEAN, loaded : BOOLEAN, started : BOOLEAN, key : Keys,
   turn : Nat \cup {None}, turns : [Keys -> Nat], tools : SUBSET Tools, events : 0 .. MaxEvents]

\* The sets the variables are in.
Shape ==
  /\ registry \in [Keys -> Registered \cup {None}]
  /\ activeTurns \in [Sessions -> InFlight \cup {None}]
  /\ activeModels \in [Sessions -> Models \cup {None}]
  /\ activeTools \subseteq Tools
  /\ pricing \in BOOLEAN
  /\ writers \in Seq(Writers)
  /\ waiting \in [DOMAIN writers -> Seq(MessageRecords)]
  /\ captures \subseteq [key : Keys, session : Sessions, writer : DOMAIN writers]
  /\ pi \in Pi
  /\ Len(writers) <= Len(pi.plan)
  /\ ended \in Seq([session : Sessions, turn : TurnIds, model : Models, writer : Nat])
  /\ closing \in Seq([session : Sessions, writer : Nat, late : SUBSET Nat])
  /\ faults \in 0 .. MaxFaults

\* The session Pi has open.
Cur == HarnessSessionId(pi.key)

\* Only the session Pi has open is registered, and only its turn is in flight.
Registry ==
  /\ \A k \in Keys : registry[k] # None => pi.started /\ k = pi.key
  /\ pi.started => /\ pi.loaded
                   /\ registry[pi.key] # None
                   /\ registry[pi.key].id = Cur

Turns ==
  /\ \A s \in Sessions : activeTurns[s] # None =>
       /\ s = Cur /\ pi.turn # None
       /\ activeTurns[s].id = HarnessTurnId(s, pi.turn)
       /\ activeTurns[s].turnIndex = pi.turn
       /\ activeTurns[s].messageCounter <= pi.events
  /\ pi.turn # None => /\ pi.started /\ activeTurns[Cur] # None
                       /\ pi.turn < pi.turns[pi.key]
  /\ \A k \in Keys : pi.turns[k] <= pi.events

\* Only the writer of the last load takes records, until the session is over.
Open ==
  /\ pi.loaded => Loaded > 0
  /\ \A n \in DOMAIN writers : ~writers[n].closed <=> (n = Loaded /\ pi.loaded)

\* The process works on one session at a time.
Alive == pi.alive => Registry /\ Turns /\ Open

\* What a writer has written or is to write.
Said(w) == Range(w.file) \cup Range(w.queue)

\* A writer's file and queue are in order; it is rotated when it is empty.
InOrder(w) == ~w.lost => Ordered({}, w.file) /\ Ordered(Range(w.file), w.queue)
Rotated(w) == w.state # "active" => w.closed /\ w.queue = <<>>
Filed == \A n \in DOMAIN writers : InOrder(writers[n]) /\ Rotated(writers[n])

\* The session and its turn have been recorded.
Announced ==
  (pi.alive /\ pi.started /\ ~writers[Loaded].lost) =>
    /\ \E q \in Said(writers[Loaded]) : q.type = "session" /\ q.session = Cur
    /\ pi.turn # None =>
         \E q \in Said(writers[Loaded]) : q.type = "turn" /\ q.turn = HarnessTurnId(Cur, pi.turn)

\* So have the parents of what the handlers will record that wait.
WaitsBacked ==
  \A n \in DOMAIN writers : ~writers[n].lost =>
    \A r \in Range(waiting[n]) : HasParents(r, Said(writers[n]))

Told == Announced /\ WaitsBacked

\* A message that ended is recorded.
HasMessage(n, S) == \E r \in S : r.type = "message" /\ r.message = n

\* Every message that ended in the open load is recorded or waits.
EndedHere == \A n \in DOMAIN ended : ended[n].writer \in DOMAIN writers
OpenWhole ==
  (pi.alive /\ pi.loaded /\ ~writers[Loaded].lost) =>
    \A n \in DOMAIN ended : ended[n].writer = Loaded =>
      HasMessage(n, Said(writers[Loaded]) \cup Range(waiting[Loaded]))

\* What was closed has the session's end, and every message that did not wait.
\* A process that is killed loses what it had not written.
ClosedWhole ==
  \A c \in Range(closing) :
    /\ c.writer \in DOMAIN writers /\ writers[c.writer].closed
    /\ (~writers[c.writer].lost /\ (pi.alive \/ writers[c.writer].state = "closed")) =>
         /\ SessionRecord(c.session, TRUE) \in Said(writers[c.writer])
         /\ \A n \in DOMAIN ended : (ended[n].writer = c.writer /\ n \notin c.late) =>
              HasMessage(n, Said(writers[c.writer]))

Whole == EndedHere /\ OpenWhole /\ ClosedWhole

\* All there is of messages.
Messages ==
  {r \in UNION {Said(writers[n]) \cup Range(waiting[n]) : n \in DOMAIN writers} : r.type = "message"}

\* An id is a response's, or was given once in its turn.
Numbered(r) ==
  \/ r.id = <<"response", r.message>>
  \/ \E s \in Sessions, i, k \in Nat :
       /\ r.id = SynthesizedId(s, i, k)
       /\ i < pi.turns[s[1]]
       /\ (pi.alive /\ pi.turn # None /\ s = Cur /\ i = pi.turn) => k < activeTurns[s].messageCounter

Meant(r) ==
  /\ r.message \in DOMAIN ended
  /\ r.turn = ended[r.message].turn
  /\ r.session = ended[r.message].session

Ids ==
  /\ \A r \in Messages : Meant(r) /\ Numbered(r)
  /\ \A r, q \in Messages : r.id = q.id => r.message = q.message

\* A turn in flight counts no further than the events there were.
Bounded ==
  \A s \in Sessions : activeTurns[s] # None =>
    activeTurns[s].turnIndex <= MaxEvents /\ activeTurns[s].messageCounter <= MaxEvents

PInv == Shape /\ Alive /\ Bounded /\ Filed /\ Told /\ Whole /\ Ids

-----------------------------------------------------------------------------
(* What the steps do to the writers                                        *)

\* A writer that has recorded R.
Moved(w, v, R) ==
  /\ w.lost => v.lost
  /\ w.closed => v.closed
  /\ Said(v) \subseteq Said(w) \cup R
  /\ ~v.lost => Said(w) \cup R \subseteq Said(v)
  /\ (InOrder(w) /\ (~w.lost => \A r \in R : HasParents(r, Said(w)))) => InOrder(v)
  /\ Rotated(w) => Rotated(v)

\* What stays as it is has moved.
LEMMA StaysMoved ==
  ASSUME NEW w
  PROVE  Moved(w, w, {})
BY DEF Moved

\* A record that is queued, or comes after close.
LEMMA EnqueueMoved ==
  ASSUME NEW w \in Writers, NEW r \in Records
  PROVE  /\ Enqueue(w, r) \in Writers
         /\ Enqueue(w, r).closed = w.closed /\ Enqueue(w, r).lost = w.lost
         /\ Enqueue(w, r).state = w.state
         /\ Moved(w, Enqueue(w, r), IF w.closed THEN {} ELSE {r})
<1> DEFINE v == Enqueue(w, r)
<1>1. CASE w.closed
  <2>1. v = w
    BY <1>1 DEF Enqueue
  <2> QED BY <1>1, <2>1, StaysMoved
<1>2. CASE ~w.closed
  <2>1. w.queue \in Seq(Records) /\ w.file \in Seq(Records)
    BY DEF Writers
  <2>2. v = [w EXCEPT !.queue = Append(w.queue, r)] /\ Append(w.queue, r) \in Seq(Records)
    BY <1>2, <2>1, AppendFacts DEF Enqueue
  <2>3. /\ v \in Writers /\ v.queue = Append(w.queue, r) /\ v.file = w.file
        /\ v.closed = w.closed /\ v.lost = w.lost /\ v.state = w.state
    BY <2>2 DEF Writers
  <2>4. Said(v) = Said(w) \cup {r}
    BY <2>1, <2>3, AppendFacts DEF Said
  <2>5. ASSUME InOrder(w), ~w.lost => HasParents(r, Said(w))
        PROVE  InOrder(v)
    <3>1. ASSUME ~w.lost
          PROVE  Ordered(Range(w.file), Append(w.queue, r))
      <4>1. Ordered(Range(w.file), w.queue) /\ HasParents(r, Range(w.file) \cup Range(w.queue))
        BY <2>5, <3>1 DEF InOrder, Said
      <4> QED BY <2>1, <4>1, OrderedAppend
    <3> QED BY <2>3, <2>5, <3>1 DEF InOrder
  <2>6. Rotated(w) => Rotated(v)
    BY <1>2, <2>3 DEF Rotated
  <2> HIDE DEF v
  <2>7. Moved(w, v, {r})
    BY <2>3, <2>4, <2>5, <2>6 DEF Moved
  <2> QED BY <1>2, <2>3, <2>7 DEF v
<1> QED BY <1>1, <1>2

\* What close does.
LEMMA CloseMoved ==
  ASSUME NEW w \in Writers
  PROVE  /\ Close(w) \in Writers /\ Close(w).closed
         /\ Close(w).lost = w.lost /\ Close(w).state = w.state
         /\ Close(w).file = w.file /\ Close(w).queue = w.queue
         /\ Moved(w, Close(w), {})
<1>1. /\ Close(w) \in Writers /\ Close(w).closed
      /\ Close(w).lost = w.lost /\ Close(w).state = w.state
      /\ Close(w).file = w.file /\ Close(w).queue = w.queue
  BY DEF Close, Writers
<1>2. Said(Close(w)) = Said(w)
  BY <1>1 DEF Said
<1> QED BY <1>1, <1>2 DEF Moved, InOrder, Rotated

\* One step after the other.
LEMMA MovedTwice ==
  ASSUME NEW u, NEW v, NEW w, NEW R, Moved(u, v, R), Moved(v, w, {})
  PROVE  Moved(u, w, R)
BY DEF Moved

\* One of several writers changes.
LEMMA OneChanges ==
  ASSUME NEW ws \in Seq(Writers), NEW n \in DOMAIN ws, NEW v \in Writers
  PROVE  /\ [ws EXCEPT ![n] = v] \in Seq(Writers)
         /\ Len([ws EXCEPT ![n] = v]) = Len(ws)
         /\ DOMAIN [ws EXCEPT ![n] = v] = DOMAIN ws
         /\ [ws EXCEPT ![n] = v][n] = v
         /\ \A m \in DOMAIN ws : m # n => [ws EXCEPT ![n] = v][m] = ws[m]
         /\ ws[n] \in Writers
<1>1. n \in 1 .. Len(ws)
  BY LenProperties
<1> QED BY <1>1, ExceptSeq, ElementOfSeq, LenProperties

\* Writers keep their number and what they are, and have recorded R(m).
Wrote(R) ==
  /\ writers' \in Seq(Writers) /\ Len(writers') = Len(writers) /\ DOMAIN writers' = DOMAIN writers
  /\ \A m \in DOMAIN writers :
       /\ writers[m] \in Writers /\ writers'[m] \in Writers
       /\ Moved(writers[m], writers'[m], R[m])

Nothing == [m \in DOMAIN writers |-> {}]
Only(n, r) == [m \in DOMAIN writers |-> IF m = n /\ ~writers[n].closed THEN {r} ELSE {}]

\* A record call.
LEMMA RecordWrites ==
  ASSUME writers \in Seq(Writers), NEW n \in DOMAIN writers, NEW r \in Records, Record(n, r)
  PROVE  /\ Wrote(Only(n, r))
         /\ \A m \in DOMAIN writers : writers'[m].closed = writers[m].closed
<1> DEFINE v == Enqueue(writers[n], r)
<1>0. \A m \in DOMAIN writers : writers[m] \in Writers
  BY LenProperties, ElementOfSeq
<1>1. /\ v \in Writers /\ v.closed = writers[n].closed
      /\ Moved(writers[n], v, IF writers[n].closed THEN {} ELSE {r})
  BY <1>0, EnqueueMoved
<1>2. writers' = [writers EXCEPT ![n] = v]
  BY DEF Record
<1> HIDE DEF v
<1>3. /\ writers' \in Seq(Writers) /\ Len(writers') = Len(writers) /\ DOMAIN writers' = DOMAIN writers
      /\ writers'[n] = v /\ \A m \in DOMAIN writers : m # n => writers'[m] = writers[m]
  BY <1>1, <1>2, OneChanges
<1>4. ASSUME NEW m \in DOMAIN writers
      PROVE  /\ writers[m] \in Writers /\ writers'[m] \in Writers
             /\ Moved(writers[m], writers'[m], Only(n, r)[m])
             /\ writers'[m].closed = writers[m].closed
  <2>1. CASE m = n
    BY <1>0, <1>1, <1>3, <2>1 DEF Only
  <2>2. CASE m # n
    <3>1. Only(n, r)[m] = {}
      BY <2>2 DEF Only
    <3> QED BY <1>0, <1>3, <2>2, <3>1, StaysMoved
  <2> QED BY <2>1, <2>2
<1> QED BY <1>3, <1>4 DEF Wrote

\* Nobody records anything.
LEMMA SilentWrites ==
  ASSUME writers \in Seq(Writers), UNCHANGED writers
  PROVE  Wrote(Nothing)
<1>1. \A m \in DOMAIN writers : writers[m] \in Writers
  BY LenProperties, ElementOfSeq
<1> QED BY <1>1, StaysMoved DEF Wrote, Nothing

Flush(n) == AppendNext(n) \/ AppendFails(n) \/ Rotate(n) \/ RotateFails(n)

\* What the queue of a writer does records nothing new and loses nothing but
\* what failed.
LEMMA FlushMoves ==
  ASSUME writers \in Seq(Writers), NEW n \in DOMAIN writers, Flush(n)
  PROVE  \E v \in Writers : /\ writers' = [writers EXCEPT ![n] = v]
                            /\ v.closed = writers[n].closed
                            /\ Moved(writers[n], v, {})
<1> DEFINE w == writers[n]
<1>0. w \in Writers /\ w.queue \in Seq(Records) /\ w.file \in Seq(Records)
  <2>1. w \in Writers
    BY LenProperties, ElementOfSeq
  <2> QED BY <2>1 DEF Writers
<1>1. CASE AppendNext(n)
  <2> DEFINE v == [w EXCEPT !.queue = Tail(w.queue), !.file = Append(w.file, Head(w.queue))]
  <2>1. w.queue # <<>> /\ writers' = [writers EXCEPT ![n] = v]
    BY <1>1 DEF AppendNext
  <2>2. /\ Tail(w.queue) \in Seq(Records) /\ Head(w.queue) \in Records
        /\ Append(w.file, Head(w.queue)) \in Seq(Records)
        /\ Range(Append(w.file, Head(w.queue))) = Range(w.file) \cup {Head(w.queue)}
        /\ Range(w.queue) = {Head(w.queue)} \cup Range(Tail(w.queue))
    BY <1>0, <2>1, TailFacts, AppendFacts
  <2>3. /\ v \in Writers /\ v.queue = Tail(w.queue) /\ v.file = Append(w.file, Head(w.queue))
        /\ v.closed = w.closed /\ v.lost = w.lost /\ v.state = w.state
    BY <1>0, <2>2 DEF Writers
  <2>4. Said(v) = Said(w)
    BY <2>2, <2>3 DEF Said
  <2>5. ASSUME InOrder(w), ~w.lost PROVE InOrder(v)
    <3>1. Ordered({}, w.file) /\ Ordered(Range(w.file), w.queue)
      BY <2>5 DEF InOrder
    <3>2. HasParents(Head(w.queue), Range(w.file))
          /\ Ordered(Range(w.file) \cup {Head(w.queue)}, Tail(w.queue))
      BY <1>0, <2>1, <3>1, OrderedTail
    <3>3. {} \cup Range(w.file) = Range(w.file)
      OBVIOUS
    <3>4. Ordered({}, Append(w.file, Head(w.queue)))
      BY <1>0, <2>2, <3>1, <3>2, <3>3, OrderedAppend
    <3> QED BY <2>2, <2>3, <3>2, <3>4 DEF InOrder
  <2>6. Rotated(w) => Rotated(v)
    BY <2>1, <2>3 DEF Rotated
  <2>7. ~v.lost => ~w.lost
    BY <2>3
  <2>8. ~w.lost \/ InOrder(v)
    BY <2>3 DEF InOrder
  <2> HIDE DEF v
  <2>9. Moved(w, v, {})
    BY <2>3, <2>4, <2>5, <2>6, <2>8 DEF Moved
  <2> QED BY <2>1, <2>3, <2>9
<1>2. CASE AppendFails(n)
  <2> DEFINE v == [w EXCEPT !.queue = Tail(w.queue), !.lost = TRUE]
  <2>1. w.queue # <<>> /\ writers' = [writers EXCEPT ![n] = v]
    BY <1>2 DEF AppendFails
  <2>2. Tail(w.queue) \in Seq(Records) /\ Range(Tail(w.queue)) \subseteq Range(w.queue)
    BY <1>0, <2>1, TailFacts
  <2>3. /\ v \in Writers /\ v.queue = Tail(w.queue) /\ v.file = w.file
        /\ v.closed = w.closed /\ v.lost /\ v.state = w.state
    BY <1>0, <2>2 DEF Writers
  <2>4. Said(v) \subseteq Said(w)
    BY <2>2, <2>3 DEF Said
  <2>5. Rotated(w) => Rotated(v)
    BY <2>1, <2>3 DEF Rotated
  <2> HIDE DEF v
  <2>6. Moved(w, v, {})
    BY <2>3, <2>4, <2>5 DEF Moved, InOrder
  <2> QED BY <2>1, <2>3, <2>6
<1>3. CASE Rotate(n) \/ RotateFails(n)
  <2>1. PICK st \in {"none", "closed", "left"} : writers' = [writers EXCEPT ![n].state = st]
    BY <1>3 DEF Rotate, RotateFails
  <2>2. w.closed /\ w.queue = <<>>
    BY <1>3 DEF Rotate, RotateFails
  <2> DEFINE v == [w EXCEPT !.state = st]
  <2>3. writers' = [writers EXCEPT ![n] = v]
    BY <2>1
  <2>4. /\ v \in Writers /\ v.queue = w.queue /\ v.file = w.file
        /\ v.closed = w.closed /\ v.lost = w.lost
    BY <1>0, <2>1 DEF Writers
  <2>5. Said(v) = Said(w)
    BY <2>4 DEF Said
  <2> HIDE DEF v
  <2>6. Moved(w, v, {})
    BY <2>2, <2>4, <2>5 DEF Moved, InOrder, Rotated
  <2> QED BY <2>3, <2>4, <2>6
<1> QED BY <1>1, <1>2, <1>3 DEF Flush

\* The same of all writers.
LEMMA FlushWrites ==
  ASSUME writers \in Seq(Writers), NEW n \in DOMAIN writers, Flush(n)
  PROVE  /\ Wrote(Nothing)
         /\ \A m \in DOMAIN writers : writers'[m].closed = writers[m].closed
<1>1. PICK v \in Writers : /\ writers' = [writers EXCEPT ![n] = v]
                           /\ v.closed = writers[n].closed
                           /\ Moved(writers[n], v, {})
  BY FlushMoves
<1>2. /\ writers' \in Seq(Writers) /\ Len(writers') = Len(writers) /\ DOMAIN writers' = DOMAIN writers
      /\ writers'[n] = v /\ \A m \in DOMAIN writers : m # n => writers'[m] = writers[m]
  BY <1>1, OneChanges
<1>3. \A m \in DOMAIN writers : writers[m] \in Writers
  BY LenProperties, ElementOfSeq
<1>4. ASSUME NEW m \in DOMAIN writers
      PROVE  Moved(writers[m], writers'[m], {}) /\ writers'[m] \in Writers
             /\ writers'[m].closed = writers[m].closed
  BY <1>1, <1>2, <1>3, StaysMoved
<1> QED BY <1>2, <1>3, <1>4 DEF Wrote, Nothing

Resuming == [n \in DOMAIN writers |-> IF writers[n].closed THEN {} ELSE Range(waiting[n])]

\* The handlers that waited for the pricing module record what they were to.
LEMMA PricingWrites ==
  ASSUME writers \in Seq(Writers), waiting \in [DOMAIN writers -> Seq(MessageRecords)], PricingLoads
  PROVE  /\ Wrote(Resuming)
         /\ \A m \in DOMAIN writers : writers'[m].closed = writers[m].closed
<1>0. \A m \in DOMAIN writers : writers[m] \in Writers
  BY LenProperties, ElementOfSeq
<1>1. ASSUME NEW n \in DOMAIN writers
      PROVE  /\ writers'[n] \in Writers /\ writers'[n].closed = writers[n].closed
             /\ Moved(writers[n], writers'[n], Resuming[n])
  <2> DEFINE w == writers[n]
             t == waiting[n]
             v == writers'[n]
  <2>1. CASE w.closed
    <3>1. v = w /\ Resuming[n] = {}
      BY <2>1 DEF PricingLoads, Resuming
    <3> QED BY <1>0, <3>1, StaysMoved
  <2>2. CASE ~w.closed
    <3>1. t \in Seq(MessageRecords)
      OBVIOUS
    <3>2. t \in Seq(Records) /\ w.queue \in Seq(Records) /\ w.file \in Seq(Records) /\ w \in Writers
      BY <1>0, <3>1, SeqMonotonic DEF Records, Writers
    <3>3. Resumptions(n) = t
      BY <3>1 DEF Resumptions, Resumed
    <3>4. v = [w EXCEPT !.queue = w.queue \o t]
      BY <2>2, <3>3 DEF PricingLoads
    <3>5. w.queue \o t \in Seq(Records)
      BY <3>2, ConcatProperties
    <3>6. /\ v \in Writers /\ v.queue = w.queue \o t /\ v.file = w.file
          /\ v.closed = w.closed /\ v.lost = w.lost /\ v.state = w.state
      BY <3>2, <3>4, <3>5 DEF Writers
    <3>7. Range(w.queue \o t) = Range(w.queue) \cup Range(t)
      BY <3>2, RangeConcatenation
    <3>8. Said(v) = Said(w) \cup Range(t) /\ Resuming[n] = Range(t)
      BY <2>2, <3>6, <3>7 DEF Said, Resuming
    <3>9. ASSUME InOrder(w), ~w.lost, \A r \in Range(t) : HasParents(r, Said(w))
          PROVE  InOrder(v)
      <4>1. Ordered({}, w.file) /\ Ordered(Range(w.file), w.queue)
        BY <3>9 DEF InOrder
      <4>2. Ordered(Range(w.file), w.queue \o t)
        BY <3>2, <3>9, <4>1, OrderedConcat DEF Said
      <4> QED BY <3>6, <4>1, <4>2 DEF InOrder
    <3>10. w.lost => InOrder(v)
      BY <3>6 DEF InOrder
    <3>11. Rotated(w) => Rotated(v)
      BY <2>2, <3>6 DEF Rotated
    <3> HIDE DEF v, t, w
    <3>12. Moved(w, v, Range(t))
      BY <3>6, <3>8, <3>9, <3>10, <3>11 DEF Moved
    <3> QED BY <3>6, <3>8, <3>12 DEF v, w, t
  <2> QED BY <2>1, <2>2
<1>2. writers' \in Seq(Writers) /\ Len(writers') = Len(writers) /\ DOMAIN writers' = DOMAIN writers
  <2>1. writers' = [n \in DOMAIN writers |-> writers'[n]] /\ DOMAIN writers = 1 .. Len(writers)
        /\ Len(writers) \in Nat
    BY LenProperties DEF PricingLoads
  <2>2. writers' \in [1 .. Len(writers) -> Writers]
    BY <1>1, <2>1
  <2> QED BY <2>1, <2>2
<1> QED BY <1>0, <1>1, <1>2 DEF Wrote

-----------------------------------------------------------------------------
(* What the steps do to the rest, and types                                *)

\* The session that is open.
LEMMA OpenSession ==
  ASSUME Shape, Alive, pi.alive, pi.loaded
  PROVE  /\ Cur \in Sessions /\ pi.key \in Keys
         /\ Loaded \in DOMAIN writers /\ Loaded \in Nat /\ writers[Loaded] \in Writers
         /\ ~writers[Loaded].closed
<1>1. /\ Loaded \in Nat /\ Loaded > 0 /\ DOMAIN writers = 1 .. Loaded
  BY LenProperties DEF Shape, Alive, Open, Loaded
<1>2. pi.key \in Keys /\ pi.plan \in Plans
  BY DEF Shape, Pi
<1>3. pi.plan \in Seq(Keys) /\ Len(pi.plan) <= MaxLoads
  BY <1>2, PlansAssumption
<1>4. Loaded \in 1 .. MaxLoads
  <2>1. Len(pi.plan) \in Nat /\ MaxLoads \in Nat
    BY <1>3, LenProperties, BoundsAssumption
  <2>2. Loaded <= Len(pi.plan)
    BY DEF Shape, Loaded
  <2> QED BY <1>1, <1>3, <2>1, <2>2
<1>5. Cur \in Sessions
  <2>1. CASE pi.key = Ephemeral
    BY <1>4, <2>1 DEF Cur, HarnessSessionId, Sessions
  <2>2. CASE pi.key # Ephemeral
    BY <1>2, <2>2 DEF Cur, HarnessSessionId, Sessions, Keys
  <2> QED BY <2>1, <2>2
<1>6. writers[Loaded] \in Writers /\ ~writers[Loaded].closed
  <2>1. writers \in Seq(Writers) /\ Loaded \in 1 .. Len(writers)
    BY <1>1 DEF Shape, Loaded
  <2>2. writers[Loaded] \in Writers
    BY <2>1, ElementOfSeq
  <2> QED BY <1>1, <2>2 DEF Alive, Open
<1> QED BY <1>1, <1>2, <1>5, <1>6

\* The session whose events Pi reports.
LEMMA Working ==
  ASSUME Shape, Alive, pi.alive, pi.started
  PROVE  /\ pi.loaded /\ Cur \in Sessions /\ pi.key \in Keys
         /\ Loaded \in DOMAIN writers /\ Loaded \in Nat /\ writers[Loaded] \in Writers
         /\ ~writers[Loaded].closed
         /\ registry[pi.key] \in Registered /\ registry[pi.key] # None
         /\ registry[pi.key].id = Cur
         /\ Session(pi.key) # None /\ Session(pi.key).id = Cur
BY OpenSession DEF Alive, Registry, Shape, Session

\* What a turn in flight is.
LEMMA TurnFacts ==
  ASSUME Shape, NEW s \in Sessions
  PROVE  /\ TurnOf(s) \in TurnIds \cup {None}
         /\ activeTurns[s] # None =>
              /\ activeTurns[s] \in InFlight /\ activeTurns[s].id \in TurnIds
              /\ activeTurns[s].turnIndex \in Nat /\ activeTurns[s].messageCounter \in Nat
              /\ TurnOf(s) = activeTurns[s].id
         /\ activeModels[s] \in Models \cup {None}
BY DEF Shape, InFlight, TurnOf, TurnIds

\* The records the handlers make.
LEMMA RecordTypes ==
  ASSUME NEW s \in Sessions, NEW t \in TurnIds \cup {None}
  PROVE  /\ \A end \in BOOLEAN : SessionRecord(s, end) \in Records
         /\ \A m \in Models \cup {None}, end \in BOOLEAN : TurnRecord(s, t, m, end) \in Records
         /\ \A id \in MessageIds, n \in Nat :
              MessageRecord(s, t, id, n) \in MessageRecords /\ MessageRecord(s, t, id, n) \in Records
         /\ \A c \in Tools : ToolRecord(s, t, c) \in Records
BY DEF SessionRecord, TurnRecord, MessageRecord, ToolRecord, Records, MessageRecords

\* The parts of pi.
LEMMA PiTypes ==
  ASSUME pi \in Pi
  PROVE  /\ pi.plan \in Plans /\ pi.key \in Keys /\ pi.turn \in Nat \cup {None}
         /\ pi.turns \in [Keys -> Nat] /\ pi.events \in Nat
         /\ pi.events \in 0 .. MaxEvents /\ pi.tools \subseteq Tools
         /\ pi.alive \in BOOLEAN /\ pi.loaded \in BOOLEAN /\ pi.started \in BOOLEAN
BY DEF Pi

\* What is not about the writers.
Rest ==
  /\ registry \in [Keys -> Registered \cup {None}]
  /\ activeTurns \in [Sessions -> InFlight \cup {None}]
  /\ activeModels \in [Sessions -> Models \cup {None}]
  /\ activeTools \subseteq Tools
  /\ pricing \in BOOLEAN
  /\ pi \in Pi
  /\ ended \in Seq([session : Sessions, turn : TurnIds, model : Models, writer : Nat])
  /\ closing \in Seq([session : Sessions, writer : Nat, late : SUBSET Nat])
  /\ faults \in 0 .. MaxFaults

\* Steps that keep the number of writers.
LEMMA ShapeKept ==
  ASSUME Shape, Rest', writers' \in Seq(Writers), Len(writers') = Len(writers),
         DOMAIN writers' = DOMAIN writers, pi'.plan = pi.plan,
         waiting' \in [DOMAIN writers -> Seq(MessageRecords)],
         captures' \subseteq [key : Keys, session : Sessions, writer : DOMAIN writers]
  PROVE  Shape'
BY DEF Shape, Rest

\* An append or a rename keeps every variable in its set.
LEMMA FlushShape ==
  ASSUME Shape, NEW n \in DOMAIN writers, Flush(n)
  PROVE  Shape'
<1>1. Wrote(Nothing)
  BY FlushWrites DEF Shape
<1>2. UNCHANGED <<maps, pricing, waiting, captures, pi, history>>
  BY DEF Flush, AppendNext, AppendFails, Rotate, RotateFails
<1>3. faults' \in 0 .. MaxFaults
  <2>1. UNCHANGED faults \/ (faults < MaxFaults /\ faults' = faults + 1)
    BY DEF Flush, AppendNext, AppendFails, Rotate, RotateFails
  <2> QED BY <2>1, BoundsAssumption DEF Shape
<1>4. Rest'
  BY <1>2, <1>3 DEF Rest, Shape, maps, history
<1> QED BY <1>1, <1>2, <1>4, ShapeKept DEF Wrote, Shape

\* A session starts.
LEMMA SessionStartDoes ==
  ASSUME Shape, Alive, NEW repository \in BOOLEAN, SessionStart(repository)
  PROVE  /\ Shape'
         /\ pi.alive /\ pi.loaded /\ ~pi.started /\ Loaded \in DOMAIN writers
         /\ Record(Loaded, SessionRecord(Cur, FALSE)) /\ SessionRecord(Cur, FALSE) \in Records
         /\ registry' = [registry EXCEPT ![pi.key] = [id |-> Cur, git |-> FALSE]]
         /\ [id |-> Cur, git |-> FALSE] \in Registered
         /\ pi' \in Pi /\ pi'.started
         /\ pi'.plan = pi.plan /\ pi'.alive = pi.alive /\ pi'.loaded = pi.loaded /\ pi'.key = pi.key
         /\ pi'.turn = pi.turn /\ pi'.turns = pi.turns /\ pi'.events = pi.events
         /\ UNCHANGED <<activeTurns, waiting, history>>
<1>1. pi.alive /\ pi.loaded /\ ~pi.started
  BY DEF SessionStart
<1>2. Cur \in Sessions /\ Loaded \in DOMAIN writers /\ pi.key \in Keys
  BY <1>1, OpenSession
<1>3. /\ registry' = [registry EXCEPT ![pi.key] = [id |-> Cur, git |-> FALSE]]
      /\ Record(Loaded, SessionRecord(Cur, FALSE))
      /\ UNCHANGED <<activeTurns, activeModels, activeTools, pricing, waiting, history, faults>>
  BY DEF SessionStart, Cur
<1>4. captures' \subseteq [key : Keys, session : Sessions, writer : DOMAIN writers]
  BY <1>2 DEF SessionStart, Cur, Shape
<1>5. [id |-> Cur, git |-> FALSE] \in Registered /\ SessionRecord(Cur, FALSE) \in Records
  BY <1>2, RecordTypes DEF Registered
<1>6. /\ pi' \in Pi /\ pi'.started
      /\ pi'.plan = pi.plan /\ pi'.alive = pi.alive /\ pi'.loaded = pi.loaded /\ pi'.key = pi.key
      /\ pi'.turn = pi.turn /\ pi'.turns = pi.turns /\ pi'.events = pi.events
  BY DEF SessionStart, Shape, Pi
<1>7. Rest'
  BY <1>2, <1>3, <1>5, <1>6 DEF Rest, Shape, history
<1>8. Wrote(Only(Loaded, SessionRecord(Cur, FALSE)))
  BY <1>2, <1>3, <1>5, RecordWrites DEF Shape
<1>9. Shape'
  BY <1>3, <1>4, <1>6, <1>7, <1>8, ShapeKept DEF Wrote, Shape
<1> QED BY <1>1, <1>2, <1>3, <1>5, <1>6, <1>9

\* Git has answered, perhaps after the session's end.
LEMMA GitCapturedDoes ==
  ASSUME Shape, NEW c \in captures, GitCaptured(c)
  PROVE  /\ Shape'
         /\ c.writer \in DOMAIN writers
         /\ Record(c.writer, SessionRecord(c.session, FALSE))
         /\ SessionRecord(c.session, FALSE) \in Records
         /\ \A k \in Keys : /\ registry'[k] # None <=> registry[k] # None
                            /\ registry'[k] # None => registry'[k].id = registry[k].id
         /\ UNCHANGED <<activeTurns, pi, waiting, history>>
<1>1. c.key \in Keys /\ c.session \in Sessions /\ c.writer \in DOMAIN writers
  BY DEF Shape
<1>2. /\ registry' = [registry EXCEPT ![c.key] = Patched(c.key)]
      /\ Record(c.writer, SessionRecord(c.session, FALSE))
      /\ captures' \subseteq captures
      /\ UNCHANGED <<activeTurns, activeModels, activeTools, pricing, waiting, pi, history, faults>>
  BY DEF GitCaptured
<1>3. /\ Patched(c.key) \in Registered \cup {None}
      /\ Patched(c.key) # None <=> registry[c.key] # None
      /\ registry[c.key] # None => Patched(c.key).id = registry[c.key].id
  <2>1. CASE registry[c.key] = None
    BY <2>1 DEF Patched
  <2>2. CASE registry[c.key] # None
    <3>1. registry[c.key] \in Registered
      BY <1>1, <2>2 DEF Shape
    <3>2. Patched(c.key) = [registry[c.key] EXCEPT !.git = TRUE]
      BY <2>2 DEF Patched
    <3>3. Patched(c.key) \in Registered /\ Patched(c.key).id = registry[c.key].id
      BY <3>1, <3>2 DEF Registered
    <3>4. None \notin Registered
      BY NoneAssumption
    <3> QED BY <2>2, <3>3, <3>4
  <2> QED BY <2>1, <2>2
<1>4. registry' \in [Keys -> Registered \cup {None}]
  BY <1>1, <1>2, <1>3 DEF Shape
<1>5. \A k \in Keys : /\ registry'[k] # None <=> registry[k] # None
                      /\ registry'[k] # None => registry'[k].id = registry[k].id
  BY <1>1, <1>2, <1>3 DEF Shape
<1>6. SessionRecord(c.session, FALSE) \in Records
  BY <1>1, RecordTypes
<1>7. Wrote(Only(c.writer, SessionRecord(c.session, FALSE)))
  BY <1>1, <1>2, <1>6, RecordWrites DEF Shape
<1>8. Rest'
  BY <1>2, <1>4 DEF Rest, Shape, history
<1>9. Shape'
  BY <1>2, <1>7, <1>8, ShapeKept DEF Wrote, Shape
<1> QED BY <1>1, <1>2, <1>5, <1>6, <1>9

\* The late messages of a shutdown.
LEMMA LateType ==
  ASSUME Shape, NEW n \in DOMAIN writers
  PROVE  {r.message : r \in Range(waiting[n])} \in SUBSET Nat
<1>1. waiting[n] \in Seq(MessageRecords)
  BY DEF Shape
<1>2. Range(waiting[n]) \in SUBSET MessageRecords
  BY <1>1, RangeOfSeq
<1> QED BY <1>2 DEF MessageRecords

\* A session ends, and its writer closes.
LEMMA ShutdownDoes ==
  ASSUME Shape, Alive, SessionShutdown
  PROVE  /\ Shape'
         /\ pi.alive /\ pi.started /\ Loaded \in DOMAIN writers
         /\ Wrote(Only(Loaded, SessionRecord(Cur, TRUE)))
         /\ writers'[Loaded].closed
         /\ \A m \in DOMAIN writers : m # Loaded => writers'[m] = writers[m]
         /\ registry' = [registry EXCEPT ![pi.key] = None]
         /\ activeTurns' = [activeTurns EXCEPT ![Cur] = None]
         /\ closing' = Append(closing, [session |-> Cur, writer |-> Loaded,
                                        late |-> {r.message : r \in Range(waiting[Loaded])}])
         /\ [session |-> Cur, writer |-> Loaded, late |-> {r.message : r \in Range(waiting[Loaded])}]
              \in [session : Sessions, writer : Nat, late : SUBSET Nat]
         /\ pi' \in Pi /\ ~pi'.started /\ ~pi'.loaded /\ pi'.turn = None
         /\ pi'.plan = pi.plan /\ pi'.alive = pi.alive /\ pi'.key = pi.key
         /\ pi'.turns = pi.turns /\ pi'.events = pi.events
         /\ UNCHANGED <<waiting, ended>>
<1>1. pi.alive /\ pi.started
  BY DEF SessionShutdown
<1>2. /\ Cur \in Sessions /\ Loaded \in DOMAIN writers /\ pi.key \in Keys /\ Loaded \in Nat
      /\ writers[Loaded] \in Writers /\ ~writers[Loaded].closed
      /\ Session(pi.key) # None /\ Session(pi.key).id = Cur
  BY <1>1, Working
<1> DEFINE w == writers[Loaded]
           r == SessionRecord(Cur, TRUE)
           v == Close(Enqueue(w, r))
           late == {q.message : q \in Range(waiting[Loaded])}
<1>3. /\ writers' = [writers EXCEPT ![Loaded] = v]
      /\ registry' = [registry EXCEPT ![pi.key] = None]
      /\ activeTurns' = [activeTurns EXCEPT ![Cur] = None]
      /\ activeModels' = [activeModels EXCEPT ![Cur] = None]
      /\ closing' = Append(closing, [session |-> Cur, writer |-> Loaded, late |-> late])
      /\ UNCHANGED <<activeTools, ended, pricing, waiting, captures, faults>>
  BY <1>2 DEF SessionShutdown
<1>4. r \in Records
  BY <1>2, RecordTypes
<1>5. v \in Writers /\ v.closed /\ Moved(w, v, {r})
  <2>1. Enqueue(w, r) \in Writers /\ Moved(w, Enqueue(w, r), {r})
    BY <1>2, <1>4, EnqueueMoved
  <2>2. v \in Writers /\ v.closed /\ Moved(Enqueue(w, r), v, {})
    BY <2>1, CloseMoved
  <2> QED BY <2>1, <2>2, MovedTwice
<1> HIDE DEF v
<1>6. /\ writers' \in Seq(Writers) /\ Len(writers') = Len(writers) /\ DOMAIN writers' = DOMAIN writers
      /\ writers'[Loaded] = v /\ \A m \in DOMAIN writers : m # Loaded => writers'[m] = writers[m]
  BY <1>2, <1>3, <1>5, OneChanges DEF Shape
<1>7. \A m \in DOMAIN writers : writers[m] \in Writers
  BY LenProperties, ElementOfSeq DEF Shape
<1>8. Wrote(Only(Loaded, r))
  <2>1. ASSUME NEW m \in DOMAIN writers
        PROVE  writers'[m] \in Writers /\ Moved(writers[m], writers'[m], Only(Loaded, r)[m])
    <3>1. CASE m = Loaded
      BY <1>2, <1>5, <1>6, <3>1 DEF Only
    <3>2. CASE m # Loaded
      <4>1. Only(Loaded, r)[m] = {}
        BY <3>2 DEF Only
      <4> QED BY <1>6, <1>7, <3>2, <4>1, StaysMoved
    <3> QED BY <3>1, <3>2
  <2> QED BY <1>6, <1>7, <2>1 DEF Wrote
<1>9. [session |-> Cur, writer |-> Loaded, late |-> late]
        \in [session : Sessions, writer : Nat, late : SUBSET Nat]
  BY <1>2, LateType
<1>10. /\ pi' \in Pi /\ ~pi'.started /\ ~pi'.loaded /\ pi'.turn = None
       /\ pi'.plan = pi.plan /\ pi'.alive = pi.alive /\ pi'.key = pi.key
       /\ pi'.turns = pi.turns /\ pi'.events = pi.events
  BY DEF SessionShutdown, Shape, Pi
<1> HIDE DEF late
<1>11. closing' \in Seq([session : Sessions, writer : Nat, late : SUBSET Nat])
  BY <1>3, <1>9, AppendFacts DEF Shape
<1>12. Rest'
  BY <1>3, <1>10, <1>11 DEF Rest, Shape
<1>13. Shape'
  BY <1>3, <1>6, <1>10, <1>12, ShapeKept DEF Shape
<1> QED BY <1>1, <1>2, <1>3, <1>5, <1>6, <1>8, <1>9, <1>10, <1>13 DEF late

\* What a handler does that records nothing: a model is chosen, a tool starts.
Silent == (\E m \in Models : ModelSelect(m)) \/ (\E c \in Tools : ToolExecutionStart(c))

\* Such a handler leaves the session and its turn as they are.
LEMMA SilentDoes ==
  ASSUME Shape, Alive, Silent
  PROVE  /\ Shape'
         /\ UNCHANGED <<registry, activeTurns, writers, waiting, history>>
         /\ pi' \in Pi /\ pi'.events >= pi.events
         /\ pi'.plan = pi.plan /\ pi'.alive = pi.alive /\ pi'.loaded = pi.loaded
         /\ pi'.started = pi.started /\ pi'.key = pi.key
         /\ pi'.turn = pi.turn /\ pi'.turns = pi.turns
<1>1. /\ pi.alive /\ pi.started
      /\ UNCHANGED <<registry, activeTurns, writers, waiting, history, pricing, captures, faults>>
  BY DEF Silent, ModelSelect, ToolExecutionStart
<1>2. /\ pi' \in Pi /\ pi'.events >= pi.events
      /\ pi'.plan = pi.plan /\ pi'.alive = pi.alive /\ pi'.loaded = pi.loaded
      /\ pi'.started = pi.started /\ pi'.key = pi.key
      /\ pi'.turn = pi.turn /\ pi'.turns = pi.turns
  <2>1. pi.events \in 0 .. MaxEvents /\ pi.events < MaxEvents /\ MaxEvents \in Nat
    BY BoundsAssumption, PiTypes DEF Silent, ModelSelect, ToolExecutionStart, Shape
  <2>2. \/ pi' = [pi EXCEPT !.events = pi.events + 1]
        \/ \E c \in Tools : pi' = [pi EXCEPT !.tools = pi.tools \ {c}, !.events = pi.events + 1]
    BY DEF Silent, ModelSelect, ToolExecutionStart
  <2>3. pi.events + 1 \in 0 .. MaxEvents
    BY <2>1
  <2>4. pi \in Pi /\ pi.events + 1 >= pi.events
    BY <2>1 DEF Shape
  <2> QED BY <2>2, <2>3, <2>4 DEF Pi
<1>3. activeModels' \in [Sessions -> Models \cup {None}] /\ activeTools' \subseteq Tools
  <2>1. activeModels \in [Sessions -> Models \cup {None}] /\ activeTools \subseteq Tools
    BY DEF Shape
  <2>2. ASSUME NEW m \in Models, ModelSelect(m) PROVE activeModels' \in [Sessions -> Models \cup {None}]
    <3>1. activeModels' = [activeModels EXCEPT ![Cur] = m] /\ Cur \in Sessions
      BY <1>1, <2>2, Working DEF ModelSelect
    <3> QED BY <2>1, <3>1
  <2>3. ASSUME NEW m \in Models, ModelSelect(m) PROVE activeTools' = activeTools
    BY <2>3 DEF ModelSelect
  <2>4. ASSUME NEW c \in Tools, ToolExecutionStart(c)
        PROVE  activeTools' \subseteq Tools /\ activeModels' = activeModels
    BY <2>1, <2>4 DEF ToolExecutionStart
  <2> QED BY <2>1, <2>2, <2>3, <2>4 DEF Silent
<1>4. Rest'
  BY <1>1, <1>2, <1>3 DEF Rest, Shape, history
<1> QED BY <1>1, <1>2, <1>4, ShapeKept DEF Shape

\* A turn begins.
LEMMA TurnStartDoes ==
  ASSUME Shape, Alive, TurnStart
  PROVE  /\ Shape'
         /\ pi.alive /\ pi.started /\ pi.turn = None
         /\ \E r \in Records : /\ r.type = "turn" /\ r.session = Cur
                               /\ r.turn = HarnessTurnId(Cur, pi'.turn)
                               /\ Record(Loaded, r)
         /\ activeTurns' = [activeTurns EXCEPT ![Cur] =
              [id |-> HarnessTurnId(Cur, pi'.turn), turnIndex |-> pi'.turn, messageCounter |-> 0]]
         /\ pi' \in Pi /\ pi'.turn = pi.turns[pi.key] /\ pi'.turn \in Nat
         /\ pi'.turns = [pi.turns EXCEPT ![pi.key] = pi.turns[pi.key] + 1]
         /\ pi'.events = pi.events + 1
         /\ pi'.plan = pi.plan /\ pi'.alive = pi.alive /\ pi'.loaded = pi.loaded
         /\ pi'.started = pi.started /\ pi'.key = pi.key
         /\ UNCHANGED <<registry, waiting, history>>
<1>1. /\ pi.alive /\ pi.started /\ pi.turn = None /\ pi.events < MaxEvents
      /\ UNCHANGED <<registry, activeModels, activeTools, pricing, waiting, captures, history, faults>>
  BY DEF TurnStart
<1>2. /\ Cur \in Sessions /\ Loaded \in DOMAIN writers /\ pi.key \in Keys
      /\ Session(pi.key).id = Cur
  BY <1>1, Working
<1>3. /\ pi' \in Pi /\ pi'.turn = pi.turns[pi.key] /\ pi'.turn \in Nat
      /\ pi'.turns = [pi.turns EXCEPT ![pi.key] = pi.turns[pi.key] + 1]
      /\ pi'.events = pi.events + 1
      /\ pi'.plan = pi.plan /\ pi'.alive = pi.alive /\ pi'.loaded = pi.loaded
      /\ pi'.started = pi.started /\ pi'.key = pi.key
  <2>1. pi.events + 1 \in 0 .. MaxEvents
    BY <1>1, BoundsAssumption, PiTypes DEF Shape
  <2>2. pi.turns[pi.key] \in Nat /\ [pi.turns EXCEPT ![pi.key] = pi.turns[pi.key] + 1] \in [Keys -> Nat]
    BY <1>2, PiTypes DEF Shape
  <2>3. pi \in Pi
    BY DEF Shape
  <2>4. pi' = [pi EXCEPT !.turn = pi.turns[pi.key],
                         !.turns = [pi.turns EXCEPT ![pi.key] = pi.turns[pi.key] + 1],
                         !.events = pi.events + 1]
    BY <2>3 DEF TurnStart, Pi
  <2> DEFINE ts == [pi.turns EXCEPT ![pi.key] = pi.turns[pi.key] + 1]
  <2> HIDE DEF ts
  <2>5. pi' = [pi EXCEPT !.turn = pi.turns[pi.key], !.turns = ts, !.events = pi.events + 1]
    BY <2>4 DEF ts
  <2>6. ts \in [Keys -> Nat]
    BY <2>2 DEF ts
  <2>7. /\ pi' \in Pi /\ pi'.turn = pi.turns[pi.key] /\ pi'.turns = ts /\ pi'.events = pi.events + 1
        /\ pi'.plan = pi.plan /\ pi'.alive = pi.alive /\ pi'.loaded = pi.loaded
        /\ pi'.started = pi.started /\ pi'.key = pi.key
    BY <2>1, <2>2, <2>3, <2>5, <2>6 DEF Pi
  <2> QED BY <2>2, <2>7 DEF ts
<1> DEFINE t == HarnessTurnId(Cur, pi'.turn)
           a == [id |-> t, turnIndex |-> pi'.turn, messageCounter |-> 0]
           r == TurnRecord(Cur, t, activeModels[Cur], FALSE)
<1>4. activeTurns' = [activeTurns EXCEPT ![Cur] = a] /\ Record(Loaded, r)
  BY <1>2 DEF TurnStart
<1>5. t \in TurnIds
  BY <1>2, <1>3 DEF TurnIds, HarnessTurnId
<1>6. a \in InFlight
  BY <1>3, <1>5 DEF InFlight, TurnIds
<1>7. activeTurns' \in [Sessions -> InFlight \cup {None}]
  <2> HIDE DEF a
  <2> QED BY <1>2, <1>4, <1>6 DEF Shape
<1>8. r \in Records /\ r.type = "turn" /\ r.session = Cur /\ r.turn = t
  <2>1. activeModels[Cur] \in Models \cup {None}
    BY <1>2 DEF Shape
  <2> QED BY <1>2, <1>5, <2>1, RecordTypes DEF TurnRecord
<1> HIDE DEF r, a
<1>9. Wrote(Only(Loaded, r))
  BY <1>2, <1>4, <1>8, RecordWrites DEF Shape
<1>10. Rest'
  BY <1>1, <1>3, <1>7 DEF Rest, Shape, history
<1>11. Shape'
  BY <1>1, <1>3, <1>9, <1>10, ShapeKept DEF Wrote, Shape
<1> QED BY <1>1, <1>3, <1>4, <1>8, <1>11 DEF a

\* The turn that is in flight.
LEMMA InTurn ==
  ASSUME Shape, Alive, pi.alive, pi.started, pi.turn # None
  PROVE  /\ activeTurns[Cur] # None /\ activeTurns[Cur] \in InFlight
         /\ TurnOf(Cur) = HarnessTurnId(Cur, pi.turn)
         /\ activeTurns[Cur].id = HarnessTurnId(Cur, pi.turn)
         /\ activeTurns[Cur].turnIndex = pi.turn /\ pi.turn \in Nat
         /\ activeTurns[Cur].messageCounter \in Nat
         /\ activeTurns[Cur].messageCounter <= pi.events
         /\ HarnessTurnId(Cur, pi.turn) \in TurnIds
<1>1. Cur \in Sessions
  BY Working
<1>2. activeTurns[Cur] # None
  BY DEF Alive, Turns
<1>3. /\ activeTurns[Cur] \in InFlight /\ activeTurns[Cur].messageCounter \in Nat
      /\ TurnOf(Cur) = activeTurns[Cur].id
  BY <1>1, <1>2, TurnFacts
<1>4. /\ activeTurns[Cur].id = HarnessTurnId(Cur, pi.turn)
      /\ activeTurns[Cur].turnIndex = pi.turn
      /\ activeTurns[Cur].messageCounter <= pi.events
  BY <1>1, <1>2 DEF Alive, Turns
<1>5. pi.turn \in Nat
  BY PiTypes DEF Shape
<1>6. HarnessTurnId(Cur, pi.turn) \in TurnIds
  BY <1>1, <1>5 DEF TurnIds, HarnessTurnId
<1> QED BY <1>2, <1>3, <1>4, <1>5, <1>6

\* A turn ends.
LEMMA TurnEndDoes ==
  ASSUME Shape, Alive, TurnEnd
  PROVE  /\ Shape'
         /\ pi.alive /\ pi.started /\ pi.turn # None
         /\ \E r \in Records : r.type = "turn" /\ r.session = Cur /\ Record(Loaded, r)
         /\ activeTurns' = [activeTurns EXCEPT ![Cur] = None]
         /\ pi' \in Pi /\ pi'.turn = None /\ pi'.turns = pi.turns /\ pi'.events = pi.events
         /\ pi'.plan = pi.plan /\ pi'.alive = pi.alive /\ pi'.loaded = pi.loaded
         /\ pi'.started = pi.started /\ pi'.key = pi.key
         /\ UNCHANGED <<registry, waiting, history>>
<1>1. /\ pi.alive /\ pi.started /\ pi.turn # None
      /\ UNCHANGED <<registry, activeModels, activeTools, pricing, waiting, captures, history, faults>>
  BY DEF TurnEnd
<1>2. /\ Cur \in Sessions /\ Loaded \in DOMAIN writers /\ pi.key \in Keys
      /\ Session(pi.key).id = Cur
  BY <1>1, Working
<1>3. /\ pi' \in Pi /\ pi'.turn = None /\ pi'.turns = pi.turns /\ pi'.events = pi.events
      /\ pi'.plan = pi.plan /\ pi'.alive = pi.alive /\ pi'.loaded = pi.loaded
      /\ pi'.started = pi.started /\ pi'.key = pi.key
  BY DEF TurnEnd, Shape, Pi
<1> DEFINE r == TurnRecord(Cur, TurnOf(Cur), activeModels[Cur], TRUE)
<1>4. activeTurns' = [activeTurns EXCEPT ![Cur] = None] /\ Record(Loaded, r)
  BY <1>2 DEF TurnEnd
<1>5. activeTurns' \in [Sessions -> InFlight \cup {None}]
  BY <1>2, <1>4 DEF Shape
<1>6. r \in Records /\ r.type = "turn" /\ r.session = Cur
  BY <1>2, TurnFacts, RecordTypes DEF TurnRecord
<1> HIDE DEF r
<1>7. Wrote(Only(Loaded, r))
  BY <1>2, <1>4, <1>6, RecordWrites DEF Shape
<1>8. Rest'
  BY <1>1, <1>3, <1>5 DEF Rest, Shape, history
<1>9. Shape'
  BY <1>1, <1>3, <1>7, <1>8, ShapeKept DEF Wrote, Shape
<1> QED BY <1>1, <1>3, <1>4, <1>6, <1>9

\* A tool ends.
LEMMA ToolEndDoes ==
  ASSUME Shape, Alive, NEW c \in Tools, ToolExecutionEnd(c)
  PROVE  /\ Shape'
         /\ pi.alive /\ pi.started /\ pi.turn # None
         /\ \E r \in Records : /\ r.type = "tool" /\ r.session = Cur
                               /\ r.turn = HarnessTurnId(Cur, pi.turn)
                               /\ Record(Loaded, r)
         /\ UNCHANGED <<registry, activeTurns, pi, waiting, history>>
<1>1. /\ pi.alive /\ pi.started /\ pi.turn # None /\ activeTools' \subseteq activeTools
      /\ UNCHANGED <<registry, activeTurns, activeModels, pricing, waiting, captures, pi,
                     history, faults>>
  BY DEF ToolExecutionEnd
<1>2. /\ Cur \in Sessions /\ Loaded \in DOMAIN writers /\ pi.key \in Keys
      /\ Session(pi.key).id = Cur
  BY <1>1, Working
<1> DEFINE r == ToolRecord(Cur, TurnOf(Cur), c)
<1>3. Record(Loaded, r)
  BY <1>2 DEF ToolExecutionEnd
<1>4. r \in Records /\ r.type = "tool" /\ r.session = Cur /\ r.turn = HarnessTurnId(Cur, pi.turn)
  BY <1>1, <1>2, TurnFacts, InTurn, RecordTypes DEF ToolRecord
<1> HIDE DEF r
<1>5. Wrote(Only(Loaded, r))
  BY <1>2, <1>3, <1>4, RecordWrites DEF Shape
<1>6. Rest'
  BY <1>1 DEF Rest, Shape, history
<1>7. Shape'
  BY <1>1, <1>5, <1>6, ShapeKept DEF Wrote, Shape
<1> QED BY <1>1, <1>3, <1>4, <1>7

\* The pricing module has loaded.
LEMMA PricingDoes ==
  ASSUME Shape, PricingLoads
  PROVE  /\ Shape'
         /\ \A n \in DOMAIN writers : waiting'[n] = <<>>
         /\ UNCHANGED <<registry, activeTurns, pi, history>>
<1>1. Wrote(Resuming)
  BY PricingWrites DEF Shape
<1>2. /\ pricing' = TRUE /\ waiting' = [n \in DOMAIN writers |-> <<>>]
      /\ UNCHANGED <<maps, captures, pi, history, faults>>
  BY DEF PricingLoads, Shape
<1>3. waiting' \in [DOMAIN writers -> Seq(MessageRecords)]
  BY <1>2, EmptySeq
<1>4. Rest'
  BY <1>2 DEF Rest, Shape, maps, history
<1>5. Shape'
  BY <1>1, <1>2, <1>3, <1>4, ShapeKept DEF Wrote, Shape
<1> QED BY <1>2, <1>5 DEF maps

\* A message ends: it is recorded, or its handler waits.
LEMMA MessageEndDoes ==
  ASSUME Shape, Alive, NEW responded \in BOOLEAN, NEW priced \in BOOLEAN, NEW m \in Models,
         MessageEnd(responded, priced, m)
  PROVE  /\ Shape'
         /\ pi.alive /\ pi.started /\ pi.turn # None
         /\ \E r \in MessageRecords :
              /\ r \in Records /\ r.type = "message" /\ r.session = Cur
              /\ r.turn = HarnessTurnId(Cur, pi.turn) /\ r.message = Len(ended) + 1
              /\ \/ r.id = <<"response", Len(ended) + 1>>
                 \/ r.id = SynthesizedId(Cur, pi.turn, activeTurns[Cur].messageCounter)
              /\ \/ Record(Loaded, r) /\ UNCHANGED waiting
                 \/ /\ waiting' = [waiting EXCEPT ![Loaded] = Append(waiting[Loaded], r)]
                    /\ UNCHANGED writers
         /\ activeTurns' = [activeTurns EXCEPT ![Cur] = Counted(activeTurns[Cur])]
         /\ \E e \in [session : Sessions, turn : TurnIds, model : Models, writer : Nat] :
              /\ e.session = Cur /\ e.turn = HarnessTurnId(Cur, pi.turn) /\ e.writer = Loaded
              /\ ended' = Append(ended, e)
         /\ pi' \in Pi /\ pi'.turn = pi.turn /\ pi'.turns = pi.turns /\ pi'.events = pi.events + 1
         /\ pi'.plan = pi.plan /\ pi'.alive = pi.alive /\ pi'.loaded = pi.loaded
         /\ pi'.started = pi.started /\ pi'.key = pi.key
         /\ UNCHANGED <<registry, closing>>
<1>1. /\ pi.alive /\ pi.started /\ pi.turn # None /\ pi.events < MaxEvents
      /\ UNCHANGED <<registry, activeTools, pricing, captures, closing, faults>>
  BY DEF MessageEnd
<1>2. /\ Cur \in Sessions /\ Loaded \in DOMAIN writers /\ pi.key \in Keys /\ Loaded \in Nat
      /\ Session(pi.key).id = Cur
  BY <1>1, Working
<1>3. /\ pi' \in Pi /\ pi'.turn = pi.turn /\ pi'.turns = pi.turns /\ pi'.events = pi.events + 1
      /\ pi'.plan = pi.plan /\ pi'.alive = pi.alive /\ pi'.loaded = pi.loaded
      /\ pi'.started = pi.started /\ pi'.key = pi.key
  <2>1. pi.events + 1 \in 0 .. MaxEvents
    BY <1>1, BoundsAssumption, PiTypes DEF Shape
  <2>2. pi \in Pi /\ pi' = [pi EXCEPT !.events = pi.events + 1]
    BY DEF Shape, MessageEnd
  <2> QED BY <2>1, <2>2 DEF Pi
<1> DEFINE t == HarnessTurnId(Cur, pi.turn)
           k == Len(ended) + 1
           id == HarnessMessageId(Cur, k, responded)
           r == MessageRecord(Cur, TurnOf(Cur), id, k)
           e == [session |-> Cur, turn |-> t, model |-> m, writer |-> Loaded]
<1>4. /\ TurnOf(Cur) = t /\ t \in TurnIds /\ activeTurns[Cur] # None
      /\ activeTurns[Cur] \in InFlight /\ activeTurns[Cur].messageCounter \in Nat
      /\ activeTurns[Cur].turnIndex = pi.turn /\ pi.turn \in Nat
  BY <1>1, InTurn
<1>5. k \in Nat
  BY LenProperties DEF Shape
<1>6. /\ id \in MessageIds
      /\ id = <<"response", k>> \/ id = SynthesizedId(Cur, pi.turn, activeTurns[Cur].messageCounter)
  BY <1>2, <1>4, <1>5 DEF HarnessMessageId, SynthesizedId, MessageIds
<1> HIDE DEF t, k, id
<1>7. /\ r \in MessageRecords /\ r \in Records /\ r.type = "message" /\ r.session = Cur
      /\ r.turn = t /\ r.message = k /\ r.id = id
  BY <1>2, <1>4, <1>5, <1>6, RecordTypes DEF MessageRecord
<1> HIDE DEF r
<1>8. /\ activeTurns' = [activeTurns EXCEPT ![Cur] = Counted(activeTurns[Cur])]
      /\ activeModels' = [activeModels EXCEPT ![Cur] = m]
      /\ ended' = Append(ended, e)
      /\ \/ Record(Loaded, r) /\ UNCHANGED waiting
         \/ /\ waiting' = [waiting EXCEPT ![Loaded] = Append(waiting[Loaded], r)]
            /\ UNCHANGED writers
  <2>1. /\ activeTurns' = [activeTurns EXCEPT ![Cur] = IF @ = None THEN None ELSE Counted(@)]
        /\ activeModels' = [activeModels EXCEPT ![Cur] = m]
        /\ ended' = Append(ended, e)
        /\ IF priced \/ pricing
             THEN Record(Loaded, r) /\ UNCHANGED waiting
             ELSE /\ waiting' = [waiting EXCEPT ![Loaded] = Append(@, r)]
                  /\ UNCHANGED writers
    BY <1>2 DEF MessageEnd, r, e, id, k, t
  <2>2. activeTurns' = [activeTurns EXCEPT ![Cur] = Counted(activeTurns[Cur])]
    BY <1>2, <1>4, <2>1 DEF Shape
  <2> QED BY <2>1, <2>2
<1>9. Counted(activeTurns[Cur]) \in InFlight
  BY <1>4 DEF Counted, InFlight
<1>10. activeTurns' \in [Sessions -> InFlight \cup {None}]
  BY <1>2, <1>8, <1>9 DEF Shape
<1>11. e \in [session : Sessions, turn : TurnIds, model : Models, writer : Nat]
  BY <1>2, <1>4
<1>12. ended' \in Seq([session : Sessions, turn : TurnIds, model : Models, writer : Nat])
  <2> HIDE DEF e
  <2> QED BY <1>8, <1>11, AppendFacts DEF Shape
<1>13. Rest'
  BY <1>1, <1>2, <1>3, <1>8, <1>10, <1>12 DEF Rest, Shape
<1>14. /\ writers' \in Seq(Writers) /\ Len(writers') = Len(writers)
       /\ DOMAIN writers' = DOMAIN writers
       /\ waiting' \in [DOMAIN writers -> Seq(MessageRecords)]
  <2>1. CASE Record(Loaded, r) /\ UNCHANGED waiting
    <3>1. Wrote(Only(Loaded, r))
      BY <1>2, <1>7, <2>1, RecordWrites DEF Shape
    <3> QED BY <2>1, <3>1 DEF Wrote, Shape
  <2>2. CASE /\ waiting' = [waiting EXCEPT ![Loaded] = Append(waiting[Loaded], r)]
             /\ UNCHANGED writers
    <3>1. waiting[Loaded] \in Seq(MessageRecords)
      BY <1>2 DEF Shape
    <3>2. Append(waiting[Loaded], r) \in Seq(MessageRecords)
      BY <1>7, <3>1, AppendFacts
    <3> QED BY <1>2, <2>2, <3>2 DEF Shape
  <2> QED BY <1>8, <2>1, <2>2
<1>15. Shape'
  BY <1>1, <1>3, <1>13, <1>14, ShapeKept DEF Shape
<1> QED
  <2>1. /\ e.session = Cur /\ e.turn = t /\ e.writer = Loaded
    OBVIOUS
  <2> HIDE DEF e
  <2> QED BY <1>1, <1>3, <1>6, <1>7, <1>8, <1>11, <1>15, <2>1 DEF t, k

\* The length of a sequence is known from its domain.
LEMMA SameRange ==
  ASSUME NEW a \in Nat, NEW b \in Nat, 1 .. a = 1 .. b
  PROVE  a = b
<1>1. CASE a < b
  <2>1. b \in 1 .. b /\ b \notin 1 .. a
    BY <1>1
  <2> QED BY <2>1
<1>2. CASE b < a
  <2>1. a \in 1 .. a /\ a \notin 1 .. b
    BY <1>2
  <2> QED BY <2>1
<1> QED BY <1>1, <1>2

\* Pi opens the next session of its plan.
LEMMA LoadDoes ==
  ASSUME Shape, NEW k \in Keys, Load(k)
  PROVE  /\ Shape'
         /\ pi.alive /\ ~pi.loaded /\ Loaded \in Nat /\ Loaded' = Loaded + 1
         /\ DOMAIN writers' = DOMAIN writers \cup {Loaded + 1} /\ DOMAIN writers = 1 .. Loaded
         /\ \A n \in DOMAIN writers : writers'[n] = writers[n] /\ waiting'[n] = waiting[n]
         /\ writers'[Loaded + 1] = Writer /\ waiting'[Loaded + 1] = <<>>
         /\ pi' \in Pi /\ pi'.loaded /\ pi'.key = k
         /\ pi'.plan = pi.plan /\ pi'.alive = pi.alive /\ pi'.started = pi.started
         /\ pi'.turn = pi.turn /\ pi'.turns = pi.turns /\ pi'.events = pi.events
         /\ UNCHANGED <<registry, activeTurns, history>>
<1>1. /\ pi.alive /\ ~pi.loaded /\ Loaded < Len(pi.plan)
      /\ writers' = Append(writers, Writer) /\ waiting' = Append(waiting, <<>>)
      /\ pi' = [pi EXCEPT !.loaded = TRUE, !.key = k]
      /\ UNCHANGED <<maps, pricing, captures, history, faults>>
  BY DEF Load
<1>2. Writer \in Writers
  <2>1. <<>> \in Seq(Records)
    BY EmptySeq
  <2> QED BY <2>1 DEF Writer, Writers
<1>3. /\ Loaded \in Nat /\ DOMAIN writers = 1 .. Loaded /\ Len(writers) = Loaded
      /\ writers \in Seq(Writers)
  BY LenProperties DEF Shape, Loaded
<1>4. /\ writers' \in Seq(Writers) /\ Len(writers') = Loaded + 1
      /\ \A n \in 1 .. Loaded : writers'[n] = writers[n]
      /\ writers'[Loaded + 1] = Writer
  BY <1>1, <1>2, <1>3, AppendProperties
<1>5. DOMAIN writers' = 1 .. Loaded + 1
  BY <1>4, LenProperties
<1>6. waiting \in Seq(Seq(MessageRecords)) /\ Len(waiting) = Loaded
  <2>1. waiting \in [1 .. Loaded -> Seq(MessageRecords)]
    BY <1>3 DEF Shape
  <2>2. waiting \in Seq(Seq(MessageRecords))
    BY <1>3, <2>1
  <2>3. DOMAIN waiting = 1 .. Len(waiting) /\ DOMAIN waiting = 1 .. Loaded /\ Len(waiting) \in Nat
    BY <2>1, <2>2, LenProperties
  <2>4. Len(waiting) = Loaded
    BY <1>3, <2>3, SameRange
  <2> QED BY <2>2, <2>4
<1>7. /\ waiting' \in Seq(Seq(MessageRecords)) /\ Len(waiting') = Loaded + 1
      /\ \A n \in 1 .. Loaded : waiting'[n] = waiting[n]
      /\ waiting'[Loaded + 1] = <<>>
  <2>1. <<>> \in Seq(MessageRecords)
    BY EmptySeq
  <2> QED BY <1>1, <1>6, <2>1, AppendProperties
<1>8. waiting' \in [DOMAIN writers' -> Seq(MessageRecords)]
  <2>1. waiting' \in [1 .. Len(waiting') -> Seq(MessageRecords)]
    BY <1>7, LenProperties, ElementOfSeq
  <2> QED BY <1>5, <1>7, <2>1
<1>9. 1 .. Loaded + 1 = 1 .. Loaded \cup {Loaded + 1}
  BY <1>3
<1>10. /\ pi' \in Pi /\ pi'.loaded /\ pi'.key = k
       /\ pi'.plan = pi.plan /\ pi'.alive = pi.alive /\ pi'.started = pi.started
       /\ pi'.turn = pi.turn /\ pi'.turns = pi.turns /\ pi'.events = pi.events
  BY <1>1 DEF Shape, Pi
<1>11. Len(writers') <= Len(pi'.plan)
  <2>1. pi.plan \in Seq(Keys)
    BY PiTypes, PlansAssumption DEF Shape
  <2>2. Len(pi.plan) \in Nat
    BY <2>1, LenProperties
  <2> QED BY <1>1, <1>3, <1>4, <1>10, <2>2
<1>12. captures' \subseteq [key : Keys, session : Sessions, writer : DOMAIN writers']
  BY <1>1, <1>3, <1>5, <1>9 DEF Shape
<1>13. Shape'
  BY <1>1, <1>4, <1>8, <1>10, <1>11, <1>12 DEF Shape, maps, history
<1>14. Loaded' = Loaded + 1
  BY <1>4 DEF Loaded
<1> QED BY <1>1, <1>3, <1>4, <1>5, <1>7, <1>9, <1>10, <1>13, <1>14 DEF maps

\* Pi's process is gone.
LEMMA KilledDoes ==
  ASSUME Shape, Killed
  PROVE  /\ Shape'
         /\ ~pi'.alive
         /\ pi'.turns = pi.turns
         /\ \A s \in Sessions : activeTurns'[s] = None
         /\ DOMAIN writers' = DOMAIN writers
         /\ \A n \in DOMAIN writers :
              /\ writers[n] \in Writers
              /\ writers'[n].queue = <<>> /\ writers'[n].file = writers[n].file
              /\ writers'[n].closed = writers[n].closed /\ writers'[n].lost = writers[n].lost
              /\ writers'[n].state = writers[n].state
              /\ waiting'[n] = <<>>
         /\ UNCHANGED history
<1>1. /\ faults < MaxFaults /\ faults' = faults + 1
      /\ pi' = [pi EXCEPT !.alive = FALSE]
      /\ Forgotten
      /\ waiting' = [n \in DOMAIN writers |-> <<>>]
      /\ captures' = {}
      /\ writers' = [n \in DOMAIN writers |-> [writers[n] EXCEPT !.queue = <<>>]]
      /\ UNCHANGED <<pricing, history>>
  BY DEF Killed, Shape
<1>2. \A n \in DOMAIN writers : writers[n] \in Writers
  BY LenProperties, ElementOfSeq DEF Shape
<1>3. <<>> \in Seq(Records) /\ <<>> \in Seq(MessageRecords)
  BY EmptySeq
<1>4. ASSUME NEW n \in DOMAIN writers
      PROVE  /\ writers'[n] \in Writers
             /\ writers'[n].queue = <<>> /\ writers'[n].file = writers[n].file
             /\ writers'[n].closed = writers[n].closed /\ writers'[n].lost = writers[n].lost
             /\ writers'[n].state = writers[n].state
  <2>1. writers'[n] = [writers[n] EXCEPT !.queue = <<>>]
    BY <1>1
  <2> QED BY <1>2, <1>3, <2>1 DEF Writers
<1>5. /\ DOMAIN writers' = DOMAIN writers /\ writers' \in Seq(Writers)
      /\ Len(writers') = Len(writers)
  <2>1. Len(writers) \in Nat /\ DOMAIN writers = 1 .. Len(writers)
    BY LenProperties DEF Shape
  <2>2. writers' \in [1 .. Len(writers) -> Writers]
    BY <1>1, <1>4, <2>1
  <2>3. writers' \in Seq(Writers)
    BY <2>1, <2>2
  <2>4. DOMAIN writers' = 1 .. Len(writers') /\ Len(writers') \in Nat
    BY <2>3, LenProperties
  <2> QED BY <2>1, <2>2, <2>3, <2>4
<1>6. waiting' \in [DOMAIN writers -> Seq(MessageRecords)]
  BY <1>1, <1>3
<1>7. pi' \in Pi /\ ~pi'.alive /\ pi'.turns = pi.turns /\ pi'.plan = pi.plan
  BY <1>1 DEF Shape, Pi
<1>8. faults' \in 0 .. MaxFaults
  BY <1>1, BoundsAssumption DEF Shape
<1>9. Rest'
  BY <1>1, <1>7, <1>8 DEF Rest, Shape, Forgotten, history
<1>10. Shape'
  BY <1>1, <1>5, <1>6, <1>7, <1>9, ShapeKept
<1>11. \A s \in Sessions : activeTurns'[s] = None
  BY <1>1 DEF Forgotten
<1> QED BY <1>1, <1>2, <1>4, <1>5, <1>7, <1>10, <1>11

-----------------------------------------------------------------------------
(* One session at a time                                                   *)

\* The open session stays what it is while its load does.
LEMMA CurKept ==
  ASSUME pi'.key = pi.key, Len(writers') = Len(writers)
  PROVE  Cur' = Cur /\ Loaded' = Loaded
BY DEF Cur, HarnessSessionId, Loaded

\* The same writers are open.
ClosedKept ==
  /\ Len(writers') = Len(writers) /\ DOMAIN writers' = DOMAIN writers
  /\ \A m \in DOMAIN writers : writers'[m].closed = writers[m].closed

\* Steps that touch neither the session nor the turn.
LEMMA AliveKept ==
  ASSUME Shape, Alive, pi' \in Pi, pi'.events >= pi.events, ClosedKept,
         \A k \in Keys : /\ registry'[k] # None <=> registry[k] # None
                         /\ registry'[k] # None => registry'[k].id = registry[k].id,
         pi'.alive = pi.alive, pi'.loaded = pi.loaded, pi'.started = pi.started,
         pi'.key = pi.key, pi'.turn = pi.turn, pi'.turns = pi.turns, UNCHANGED activeTurns
  PROVE  Alive'
<1> SUFFICES ASSUME pi.alive PROVE (Registry /\ Turns /\ Open)'
  BY DEF Alive
<1>0. Registry /\ Turns /\ Open
  BY DEF Alive
<1>1. Cur' = Cur /\ Loaded' = Loaded
  BY CurKept DEF ClosedKept
<1>2. pi.key \in Keys /\ pi.events \in Nat /\ pi'.events \in Nat /\ \A k \in Keys : pi.turns[k] \in Nat
  <2>1. pi.key \in Keys /\ pi.events \in Nat /\ pi.turns \in [Keys -> Nat]
    BY PiTypes DEF Shape
  <2>2. pi'.events \in Nat
    BY BoundsAssumption DEF Pi
  <2> QED BY <2>1, <2>2
<1>3. Registry'
  BY <1>0, <1>1, <1>2 DEF Registry
<1>4. Turns'
  <2>1. \A s \in Sessions : activeTurns[s] # None => activeTurns[s].messageCounter \in Nat
    BY TurnFacts
  <2> QED BY <1>0, <1>1, <1>2, <2>1 DEF Turns
<1>5. Open'
  BY <1>0, <1>1 DEF Open, ClosedKept
<1> QED BY <1>3, <1>4, <1>5

\* A record call closes nothing.
LEMMA RecordKeepsOpen ==
  ASSUME Shape, NEW n \in DOMAIN writers, NEW r \in Records, Record(n, r)
  PROVE  ClosedKept
BY RecordWrites DEF Wrote, ClosedKept, Shape

\* A session that starts is the one that is registered.
LEMMA AliveStart ==
  ASSUME Shape, Alive, NEW repository \in BOOLEAN, SessionStart(repository)
  PROVE  Alive'
<1>0. pi.alive /\ Registry /\ Turns /\ Open
  BY SessionStartDoes DEF Alive
<1>1. ClosedKept
  BY SessionStartDoes, RecordKeepsOpen
<1>2. Cur' = Cur /\ Loaded' = Loaded
  BY <1>1, SessionStartDoes, CurKept DEF ClosedKept
<1>3. pi.key \in Keys
  BY PiTypes DEF Shape
<1>4. Registry'
  <2>1. \A k \in Keys : registry[k] = None
    BY <1>0, SessionStartDoes DEF Registry
  <2>2. [id |-> Cur, git |-> FALSE] # None
    BY SessionStartDoes, NoneAssumption
  <2>3. registry'[pi.key] = [id |-> Cur, git |-> FALSE]
        /\ \A k \in Keys : k # pi.key => registry'[k] = registry[k]
    BY <1>3, SessionStartDoes DEF Shape
  <2>4. pi'.started /\ pi'.loaded /\ pi'.key = pi.key
    BY SessionStartDoes
  <2>5. registry'[pi.key].id = Cur
    BY <2>3
  <2>6. registry'[pi.key] # None /\ \A k \in Keys : k # pi.key => registry'[k] = None
    BY <2>1, <2>2, <2>3
  <2> QED BY <1>2, <2>4, <2>5, <2>6 DEF Registry
<1>5. Turns'
  BY <1>0, <1>2, SessionStartDoes DEF Turns
<1>6. Open'
  BY <1>0, <1>1, <1>2, SessionStartDoes DEF Open, ClosedKept
<1> QED BY <1>4, <1>5, <1>6 DEF Alive

\* A shutdown leaves nothing registered, in flight or open.
LEMMA AliveShutdown ==
  ASSUME Shape, Alive, SessionShutdown
  PROVE  Alive'
<1>0. pi.alive /\ Registry /\ Turns /\ Open
  BY ShutdownDoes DEF Alive
<1>1. Wrote(Only(Loaded, SessionRecord(Cur, TRUE)))
  BY ShutdownDoes
<1>2. Cur' = Cur /\ Loaded' = Loaded /\ DOMAIN writers' = DOMAIN writers
  BY <1>1, ShutdownDoes, CurKept DEF Wrote
<1>3. pi.key \in Keys /\ Cur \in Sessions
  BY ShutdownDoes, Working
<1>4. \A k \in Keys : registry'[k] = None
  <2>1. \A k \in Keys : k # pi.key => registry[k] = None
    BY <1>0 DEF Registry
  <2> QED BY <1>3, <2>1, ShutdownDoes DEF Shape
<1>5. \A s \in Sessions : activeTurns'[s] = None
  <2>1. \A s \in Sessions : s # Cur => activeTurns[s] = None
    BY <1>0 DEF Turns
  <2> QED BY <1>3, <2>1, ShutdownDoes DEF Shape
<1>6. Registry'
  BY <1>4, ShutdownDoes DEF Registry
<1>7. Turns'
  BY <1>0, <1>5, ShutdownDoes DEF Turns
<1>8. Open'
  <2>1. ASSUME NEW n \in DOMAIN writers PROVE writers'[n].closed
    BY <1>0, <2>1, ShutdownDoes DEF Open
  <2> QED BY <1>2, <2>1, ShutdownDoes DEF Open
<1> QED BY <1>6, <1>7, <1>8 DEF Alive

\* A turn that begins is the one in flight.
LEMMA AliveTurnStart ==
  ASSUME Shape, Alive, TurnStart
  PROVE  Alive'
<1>0. pi.alive /\ Registry /\ Turns /\ Open
  BY TurnStartDoes DEF Alive
<1>1. /\ pi.key \in Keys /\ Cur \in Sessions /\ Loaded \in DOMAIN writers
      /\ pi.events \in Nat /\ \A k \in Keys : pi.turns[k] \in Nat
  BY TurnStartDoes, Working, PiTypes DEF Shape
<1>2. ClosedKept
  BY <1>1, TurnStartDoes, RecordKeepsOpen
<1>3. Cur' = Cur /\ Loaded' = Loaded
  BY <1>2, TurnStartDoes, CurKept DEF ClosedKept
<1>4. Registry'
  BY <1>0, <1>3, TurnStartDoes DEF Registry
<1>5. Turns'
  <2>1. \A s \in Sessions : activeTurns[s] = None
    BY <1>0, TurnStartDoes DEF Turns
  <2>2. /\ activeTurns'[Cur] =
             [id |-> HarnessTurnId(Cur, pi'.turn), turnIndex |-> pi'.turn, messageCounter |-> 0]
        /\ \A s \in Sessions : s # Cur => activeTurns'[s] = None
    <3>1. activeTurns' = [activeTurns EXCEPT ![Cur] =
             [id |-> HarnessTurnId(Cur, pi'.turn), turnIndex |-> pi'.turn, messageCounter |-> 0]]
      BY TurnStartDoes
    <3>2. DOMAIN activeTurns = Sessions
      BY DEF Shape
    <3> QED BY <1>1, <2>1, <3>1, <3>2
  <2>3. activeTurns'[Cur] # None
    <3>1. activeTurns'[Cur] \in InFlight
      <4>1. HarnessTurnId(Cur, pi'.turn) \in Sessions \X Nat
        BY <1>1, TurnStartDoes DEF HarnessTurnId
      <4> QED BY <2>2, <4>1, TurnStartDoes DEF InFlight
    <3> QED BY <3>1, NoneAssumption
  <2>4. pi'.turn # None
    BY TurnStartDoes, NoneAssumption
  <2>5. \A k \in Keys : pi'.turns[k] <= pi'.events
    <3>1. \A k \in Keys : pi.turns[k] <= pi.events
      BY <1>0 DEF Turns
    <3>2. \A k \in Keys : pi'.turns[k] = pi.turns[k] \/ pi'.turns[k] = pi.turns[k] + 1
      <4>1. pi.turns \in [Keys -> Nat]
        BY PiTypes DEF Shape
      <4>2. pi'.turns = [pi.turns EXCEPT ![pi.key] = pi.turns[pi.key] + 1]
        BY TurnStartDoes
      <4> QED BY <4>1, <4>2
    <3>3. pi'.events = pi.events + 1
      BY TurnStartDoes
    <3> QED BY <1>1, <3>1, <3>2, <3>3
  <2>6. pi'.turn < pi'.turns[pi'.key]
    <3>1. pi.turns \in [Keys -> Nat]
      BY PiTypes DEF Shape
    <3>2. pi'.turns[pi.key] = pi.turns[pi.key] + 1
      BY <1>1, <3>1, TurnStartDoes
    <3>3. pi'.turn = pi.turns[pi.key] /\ pi'.key = pi.key
      BY TurnStartDoes
    <3> QED BY <1>1, <3>2, <3>3
  <2>7. pi'.events >= 0
    BY <1>1, TurnStartDoes
  <2>8. pi'.started
    BY TurnStartDoes
  <2> QED
    BY <1>3, <2>2, <2>3, <2>4, <2>5, <2>6, <2>7, <2>8 DEF Turns
<1>6. Open'
  BY <1>0, <1>2, <1>3, TurnStartDoes DEF Open, ClosedKept
<1> QED BY <1>4, <1>5, <1>6 DEF Alive

\* A turn that ends leaves none in flight.
LEMMA AliveTurnEnd ==
  ASSUME Shape, Alive, TurnEnd
  PROVE  Alive'
<1>0. pi.alive /\ Registry /\ Turns /\ Open
  BY TurnEndDoes DEF Alive
<1>1. pi.key \in Keys /\ Cur \in Sessions /\ Loaded \in DOMAIN writers
  BY TurnEndDoes, Working
<1>2. ClosedKept
  BY <1>1, TurnEndDoes, RecordKeepsOpen
<1>3. Cur' = Cur /\ Loaded' = Loaded
  BY <1>2, TurnEndDoes, CurKept DEF ClosedKept
<1>4. Registry'
  BY <1>0, <1>3, TurnEndDoes DEF Registry
<1>5. Turns'
  <2>1. \A s \in Sessions : activeTurns'[s] = None
    BY <1>0, <1>1, TurnEndDoes DEF Turns, Shape
  <2> QED BY <1>0, <2>1, TurnEndDoes DEF Turns
<1>6. Open'
  BY <1>0, <1>2, <1>3, TurnEndDoes DEF Open, ClosedKept
<1> QED BY <1>4, <1>5, <1>6 DEF Alive

\* A message that ends is counted in the turn in flight.
LEMMA AliveMessage ==
  ASSUME Shape, Alive, NEW responded \in BOOLEAN, NEW priced \in BOOLEAN, NEW m \in Models,
         MessageEnd(responded, priced, m)
  PROVE  Alive'
<1>0. pi.alive /\ Registry /\ Turns /\ Open
  BY MessageEndDoes DEF Alive
<1>1. /\ pi.key \in Keys /\ Cur \in Sessions /\ Loaded \in DOMAIN writers
      /\ pi.events \in Nat /\ pi'.events = pi.events + 1 /\ \A k \in Keys : pi.turns[k] \in Nat
  BY MessageEndDoes, Working, PiTypes DEF Shape
<1>2. ClosedKept
  <2>1. PICK r \in Records : Record(Loaded, r) \/ UNCHANGED writers
    BY MessageEndDoes
  <2>2. CASE Record(Loaded, r)
    BY <1>1, <2>2, RecordKeepsOpen
  <2> QED BY <2>1, <2>2 DEF ClosedKept
<1>3. Cur' = Cur /\ Loaded' = Loaded
  BY <1>2, MessageEndDoes, CurKept DEF ClosedKept
<1>4. Registry'
  BY <1>0, <1>3, MessageEndDoes DEF Registry
<1>5. Turns'
  <2> DEFINE a == activeTurns[Cur]
  <2>1. /\ a # None /\ a \in InFlight /\ a.id = HarnessTurnId(Cur, pi.turn)
        /\ a.turnIndex = pi.turn /\ a.messageCounter \in Nat /\ a.messageCounter <= pi.events
    BY MessageEndDoes, InTurn
  <2>2. /\ Counted(a).id = a.id /\ Counted(a).turnIndex = a.turnIndex
        /\ Counted(a).messageCounter = a.messageCounter + 1 /\ Counted(a) \in InFlight
    BY <2>1 DEF Counted, InFlight
  <2>3. Counted(a) # None
    BY <2>2, NoneAssumption
  <2>4. /\ activeTurns'[Cur] = Counted(a)
        /\ \A s \in Sessions : s # Cur => activeTurns'[s] = None
    <3>1. activeTurns' = [activeTurns EXCEPT ![Cur] = Counted(a)]
      BY MessageEndDoes
    <3>2. \A s \in Sessions : s # Cur => activeTurns[s] = None
      BY <1>0 DEF Turns
    <3> QED BY <1>1, <3>1, <3>2 DEF Shape
  <2>5. a.messageCounter + 1 <= pi'.events
    BY <1>1, <2>1
  <2>6. pi'.turn # None /\ pi'.turn = pi.turn /\ pi'.started /\ pi'.turn < pi'.turns[pi'.key]
    BY <1>0, MessageEndDoes DEF Turns
  <2>7. \A k \in Keys : pi'.turns[k] <= pi'.events
    <3>1. \A k \in Keys : pi.turns[k] <= pi.events
      BY <1>0 DEF Turns
    <3>2. pi'.turns = pi.turns
      BY MessageEndDoes
    <3> QED BY <1>1, <3>1, <3>2
  <2> HIDE DEF a
  <2> QED BY <1>3, <2>1, <2>2, <2>3, <2>4, <2>5, <2>6, <2>7 DEF Turns
<1>6. Open'
  BY <1>0, <1>2, <1>3, MessageEndDoes DEF Open, ClosedKept
<1> QED BY <1>4, <1>5, <1>6 DEF Alive

\* A new load opens the one writer that takes records.
LEMMA AliveLoad ==
  ASSUME Shape, Alive, NEW k \in Keys, Load(k)
  PROVE  Alive'
<1>0. pi.alive /\ Registry /\ Turns /\ Open
  BY LoadDoes DEF Alive
<1>1. ~pi.started /\ pi.turn = None
  BY <1>0, LoadDoes DEF Registry, Turns
<1>2. Registry'
  BY <1>0, <1>1, LoadDoes DEF Registry
<1>3. Turns'
  BY <1>0, <1>1, LoadDoes DEF Turns
<1>4. Open'
  <2>1. ~Writer.closed
    BY DEF Writer
  <2>2. \A n \in DOMAIN writers : writers[n].closed /\ n # Loaded + 1
    <3>1. Loaded \in Nat /\ DOMAIN writers = 1 .. Loaded /\ ~pi.loaded
      BY LoadDoes
    <3>2. \A n \in 1 .. Loaded : n # Loaded + 1
      BY <3>1
    <3> QED BY <1>0, <3>1, <3>2 DEF Open
  <2>3. Loaded' > 0
    BY LoadDoes
  <2> QED BY <2>1, <2>2, <2>3, LoadDoes DEF Open
<1> QED BY <1>2, <1>3, <1>4 DEF Alive

\* The steps of the system, by what they do.
LEMMA NextCases ==
  ASSUME Next
  PROVE  \/ \E n \in DOMAIN writers : Flush(n)
         \/ \E repository \in BOOLEAN : SessionStart(repository)
         \/ \E c \in captures : GitCaptured(c)
         \/ SessionShutdown
         \/ Silent
         \/ TurnStart
         \/ TurnEnd
         \/ \E responded \in BOOLEAN, priced \in BOOLEAN, m \in Models : MessageEnd(responded, priced, m)
         \/ PricingLoads
         \/ \E c \in Tools : ToolExecutionEnd(c)
         \/ \E k \in Keys : Load(k)
         \/ Killed
BY DEF Next, Flush, Silent

\* Every step keeps every variable in its set.
LEMMA NextShape ==
  ASSUME Shape, Alive, Next
  PROVE  Shape'
BY NextCases, FlushShape, SessionStartDoes, GitCapturedDoes, ShutdownDoes, SilentDoes, TurnStartDoes,
   TurnEndDoes, MessageEndDoes, PricingDoes, ToolEndDoes, LoadDoes, KilledDoes

\* Every step leaves one session and one turn at a time.
LEMMA NextAlive ==
  ASSUME Shape, Alive, Next
  PROVE  Alive'
<1>0. \A e \in Nat : e >= e
  OBVIOUS
<1>p. pi \in Pi /\ pi.events \in Nat /\ pi.events >= pi.events
  BY <1>0, PiTypes DEF Shape
<1>1. ASSUME NEW n \in DOMAIN writers, Flush(n) PROVE Alive'
  <2>1. UNCHANGED <<maps, pi>>
    BY <1>1 DEF Flush, AppendNext, AppendFails, Rotate, RotateFails
  <2>2. ClosedKept
    BY <1>1, FlushWrites DEF Wrote, ClosedKept, Shape
  <2> QED BY <1>p, <2>1, <2>2, AliveKept DEF maps
<1>2. ASSUME NEW c \in captures, GitCaptured(c) PROVE Alive'
  <2>1. ClosedKept
    BY <1>2, GitCapturedDoes, RecordKeepsOpen
  <2> QED BY <1>2, <1>p, <2>1, GitCapturedDoes, AliveKept
<1>3. CASE Silent
  <2>1. ClosedKept
    BY <1>3, SilentDoes DEF ClosedKept
  <2> QED BY <1>3, <2>1, SilentDoes, AliveKept
<1>4. CASE PricingLoads
  <2>1. ClosedKept
    BY <1>4, PricingWrites DEF Wrote, ClosedKept, Shape
  <2> QED BY <1>4, <1>p, <2>1, PricingDoes, AliveKept
<1>5. ASSUME NEW c \in Tools, ToolExecutionEnd(c) PROVE Alive'
  <2>1. Loaded \in DOMAIN writers
    BY <1>5, ToolEndDoes, Working
  <2>2. ClosedKept
    BY <1>5, <2>1, ToolEndDoes, RecordKeepsOpen
  <2> QED BY <1>5, <1>p, <2>2, ToolEndDoes, AliveKept
<1>6. CASE Killed
  BY <1>6, KilledDoes DEF Alive
<1> QED BY <1>1, <1>2, <1>3, <1>4, <1>5, <1>6, NextCases, AliveStart, AliveShutdown, AliveTurnStart,
           AliveTurnEnd, AliveMessage, AliveLoad

-----------------------------------------------------------------------------
(* Order                                                                   *)

\* What is recorded has its parents above it.
Backed(R) ==
  \A n \in DOMAIN writers : ~writers[n].lost => \A r \in R[n] : HasParents(r, Said(writers[n]))

\* Nothing needs no parents.
LEMMA NothingBacked == Backed(Nothing)
BY DEF Backed, Nothing

\* One record that has its parents.
LEMMA OnlyBacked ==
  ASSUME NEW n, NEW r,
         (n \in DOMAIN writers /\ ~writers[n].lost) => HasParents(r, Said(writers[n]))
  PROVE  Backed(Only(n, r))
BY DEF Backed, Only

\* What a handler records of the session and the turn Pi has open.
LEMMA EventBacked ==
  ASSUME Announced, pi.alive, pi.started, NEW r, r.session = Cur, r.type # "session",
         r.type = "turn" \/ (pi.turn # None /\ r.turn = HarnessTurnId(Cur, pi.turn))
  PROVE  ~writers[Loaded].lost => HasParents(r, Said(writers[Loaded]))
BY DEF Announced, HasParents

\* A session's record needs no parents.
LEMMA SessionBacked ==
  ASSUME NEW s, NEW end, NEW A
  PROVE  HasParents(SessionRecord(s, end), A)
BY DEF HasParents, SessionRecord

\* Files and queues stay in order as long as what is recorded has its parents.
LEMMA FiledKept ==
  ASSUME Filed, NEW R, Wrote(R), Backed(R)
  PROVE  Filed'
<1>1. ASSUME NEW n \in DOMAIN writers
      PROVE  InOrder(writers'[n]) /\ Rotated(writers'[n])
  <2>1. Moved(writers[n], writers'[n], R[n]) /\ InOrder(writers[n]) /\ Rotated(writers[n])
    BY DEF Wrote, Filed
  <2>2. ~writers[n].lost => \A r \in R[n] : HasParents(r, Said(writers[n]))
    BY DEF Backed
  <2> QED BY <2>1, <2>2 DEF Moved
<1>2. DOMAIN writers' = DOMAIN writers
  BY DEF Wrote
<1>3. \A n \in DOMAIN writers' : InOrder(writers'[n]) /\ Rotated(writers'[n])
  BY <1>1, <1>2
<1> QED BY <1>3 DEF Filed, InOrder, Rotated

\* A new writer is in order.
LEMMA FiledLoad ==
  ASSUME Shape, Filed, NEW k \in Keys, Load(k)
  PROVE  Filed'
<1>1. InOrder(Writer) /\ Rotated(Writer)
  <2>1. DOMAIN <<>> = {}
    BY EmptySeq, LenProperties
  <2>2. Writer.file = <<>> /\ Writer.queue = <<>> /\ Writer.state = "active"
    BY DEF Writer
  <2> QED BY <2>1, <2>2 DEF InOrder, Rotated, Ordered
<1>2. \A n \in DOMAIN writers' : InOrder(writers'[n]) /\ Rotated(writers'[n])
  BY <1>1, LoadDoes DEF Filed
<1> QED BY <1>2 DEF Filed, InOrder, Rotated

\* A kill empties the queues, and leaves the files as they are.
LEMMA FiledKilled ==
  ASSUME Shape, Filed, Killed
  PROVE  Filed'
<1>1. ASSUME NEW n \in DOMAIN writers
      PROVE  InOrder(writers'[n]) /\ Rotated(writers'[n])
  <2>1. DOMAIN <<>> = {}
    BY EmptySeq, LenProperties
  <2>2. InOrder(writers[n]) /\ Rotated(writers[n])
    BY DEF Filed
  <2>3. /\ writers'[n].queue = <<>> /\ writers'[n].file = writers[n].file
        /\ writers'[n].closed = writers[n].closed /\ writers'[n].lost = writers[n].lost
        /\ writers'[n].state = writers[n].state
    BY KilledDoes
  <2>4. Ordered(Range(writers[n].file), <<>>)
    BY <2>1 DEF Ordered
  <2>5. InOrder(writers'[n])
    BY <2>2, <2>3, <2>4 DEF InOrder
  <2> QED BY <2>2, <2>3, <2>5 DEF Rotated
<1>2. \A n \in DOMAIN writers' : InOrder(writers'[n]) /\ Rotated(writers'[n])
  BY <1>1, KilledDoes
<1> QED BY <1>2 DEF Filed, InOrder, Rotated

\* The records of each step, with their parents.
LEMMA StartRecords ==
  ASSUME Shape, Alive, NEW repository \in BOOLEAN, SessionStart(repository)
  PROVE  /\ Wrote(Only(Loaded, SessionRecord(Cur, FALSE)))
         /\ Backed(Only(Loaded, SessionRecord(Cur, FALSE)))
BY SessionStartDoes, RecordWrites, SessionBacked, OnlyBacked DEF Shape

\* What a late snapshot records.
LEMMA GitRecords ==
  ASSUME Shape, NEW c \in captures, GitCaptured(c)
  PROVE  /\ Wrote(Only(c.writer, SessionRecord(c.session, FALSE)))
         /\ Backed(Only(c.writer, SessionRecord(c.session, FALSE)))
BY GitCapturedDoes, RecordWrites, SessionBacked, OnlyBacked DEF Shape

\* What a shutdown records.
LEMMA ShutdownRecords ==
  ASSUME Shape, Alive, SessionShutdown
  PROVE  /\ Wrote(Only(Loaded, SessionRecord(Cur, TRUE)))
         /\ Backed(Only(Loaded, SessionRecord(Cur, TRUE)))
BY ShutdownDoes, SessionBacked, OnlyBacked

\* What the beginning of a turn records.
LEMMA TurnStartRecords ==
  ASSUME Shape, Alive, Announced, TurnStart
  PROVE  \E r \in Records : /\ r.type = "turn" /\ r.turn = HarnessTurnId(Cur, pi'.turn)
                            /\ Wrote(Only(Loaded, r)) /\ Backed(Only(Loaded, r))
<1>1. PICK r \in Records : /\ r.type = "turn" /\ r.session = Cur
                           /\ r.turn = HarnessTurnId(Cur, pi'.turn) /\ Record(Loaded, r)
  BY TurnStartDoes
<1>2. pi.alive /\ pi.started /\ Loaded \in DOMAIN writers
  BY TurnStartDoes, Working
<1>3. Wrote(Only(Loaded, r))
  BY <1>1, <1>2, RecordWrites DEF Shape
<1>4. Backed(Only(Loaded, r))
  BY <1>1, <1>2, EventBacked, OnlyBacked
<1> QED BY <1>1, <1>3, <1>4

\* What the end of a turn records.
LEMMA TurnEndRecords ==
  ASSUME Shape, Alive, Announced, TurnEnd
  PROVE  \E r \in Records : r.type = "turn" /\ Wrote(Only(Loaded, r)) /\ Backed(Only(Loaded, r))
<1>1. PICK r \in Records : r.type = "turn" /\ r.session = Cur /\ Record(Loaded, r)
  BY TurnEndDoes
<1>2. pi.alive /\ pi.started /\ Loaded \in DOMAIN writers
  BY TurnEndDoes, Working
<1>3. Wrote(Only(Loaded, r))
  BY <1>1, <1>2, RecordWrites DEF Shape
<1>4. Backed(Only(Loaded, r))
  BY <1>1, <1>2, EventBacked, OnlyBacked
<1> QED BY <1>1, <1>3, <1>4

\* What the end of a tool call records.
LEMMA ToolRecords ==
  ASSUME Shape, Alive, Announced, NEW c \in Tools, ToolExecutionEnd(c)
  PROVE  \E r \in Records : r.type = "tool" /\ Wrote(Only(Loaded, r)) /\ Backed(Only(Loaded, r))
<1>1. PICK r \in Records : /\ r.type = "tool" /\ r.session = Cur
                           /\ r.turn = HarnessTurnId(Cur, pi.turn) /\ Record(Loaded, r)
  BY ToolEndDoes
<1>2. pi.alive /\ pi.started /\ pi.turn # None /\ Loaded \in DOMAIN writers
  BY ToolEndDoes, Working
<1>3. Wrote(Only(Loaded, r))
  BY <1>1, <1>2, RecordWrites DEF Shape
<1>4. Backed(Only(Loaded, r))
  BY <1>1, <1>2, EventBacked, OnlyBacked
<1> QED BY <1>1, <1>3, <1>4

\* The record of a message that ended.
NewMessage(r) ==
  /\ r \in MessageRecords /\ r.type = "message" /\ r.session = Cur
  /\ r.turn = HarnessTurnId(Cur, pi.turn) /\ r.message = Len(ended) + 1
  /\ \/ r.id = <<"response", Len(ended) + 1>>
     \/ r.id = SynthesizedId(Cur, pi.turn, activeTurns[Cur].messageCounter)
  /\ ~writers[Loaded].lost => HasParents(r, Said(writers[Loaded]))

\* What the end of a message records, at once or once pricing has loaded.
LEMMA MessageRecorded ==
  ASSUME Shape, Alive, Announced,
         NEW responded \in BOOLEAN, NEW priced \in BOOLEAN, NEW m \in Models,
         MessageEnd(responded, priced, m)
  PROVE  \E r : /\ NewMessage(r)
                /\ \/ /\ Wrote(Only(Loaded, r)) /\ Backed(Only(Loaded, r))
                      /\ UNCHANGED waiting
                   \/ /\ Wrote(Nothing) /\ Backed(Nothing) /\ UNCHANGED writers
                      /\ waiting' = [waiting EXCEPT ![Loaded] = Append(waiting[Loaded], r)]
<1>1. PICK r \in MessageRecords :
              /\ r \in Records /\ r.type = "message" /\ r.session = Cur
              /\ r.turn = HarnessTurnId(Cur, pi.turn) /\ r.message = Len(ended) + 1
              /\ \/ r.id = <<"response", Len(ended) + 1>>
                 \/ r.id = SynthesizedId(Cur, pi.turn, activeTurns[Cur].messageCounter)
              /\ \/ Record(Loaded, r) /\ UNCHANGED waiting
                 \/ /\ waiting' = [waiting EXCEPT ![Loaded] = Append(waiting[Loaded], r)]
                    /\ UNCHANGED writers
  BY MessageEndDoes
<1>2. pi.alive /\ pi.started /\ pi.turn # None /\ Loaded \in DOMAIN writers
  BY MessageEndDoes, Working
<1>3. ~writers[Loaded].lost => HasParents(r, Said(writers[Loaded]))
  BY <1>1, <1>2, EventBacked
<1>4. NewMessage(r)
  BY <1>1, <1>3 DEF NewMessage
<1>5. CASE Record(Loaded, r) /\ UNCHANGED waiting
  <2>1. Wrote(Only(Loaded, r))
    BY <1>1, <1>2, <1>5, RecordWrites DEF Shape
  <2>2. Backed(Only(Loaded, r))
    BY <1>3, OnlyBacked
  <2> QED BY <1>4, <1>5, <2>1, <2>2
<1>6. CASE /\ waiting' = [waiting EXCEPT ![Loaded] = Append(waiting[Loaded], r)]
           /\ UNCHANGED writers
  BY <1>4, <1>6, SilentWrites, NothingBacked DEF Shape
<1> QED BY <1>1, <1>5, <1>6

\* What the handlers record that waited.
LEMMA PricingRecords ==
  ASSUME Shape, WaitsBacked, PricingLoads
  PROVE  Wrote(Resuming) /\ Backed(Resuming)
BY PricingWrites DEF Shape, WaitsBacked, Backed, Resuming

\* Every step leaves files and queues in order.
LEMMA NextFiled ==
  ASSUME Shape, Alive, Filed, Told, Next
  PROVE  Filed'
<1>0. Announced /\ WaitsBacked
  BY DEF Told
<1>1. ASSUME NEW n \in DOMAIN writers, Flush(n) PROVE Filed'
  BY <1>1, FlushWrites, NothingBacked, FiledKept DEF Shape
<1>2. ASSUME NEW repository \in BOOLEAN, SessionStart(repository) PROVE Filed'
  BY <1>2, StartRecords, FiledKept
<1>3. ASSUME NEW c \in captures, GitCaptured(c) PROVE Filed'
  BY <1>3, GitRecords, FiledKept
<1>4. CASE SessionShutdown
  BY <1>4, ShutdownRecords, FiledKept
<1>5. CASE Silent
  BY <1>5, SilentDoes, SilentWrites, NothingBacked, FiledKept DEF Shape
<1>6. CASE TurnStart
  BY <1>0, <1>6, TurnStartRecords, FiledKept
<1>7. CASE TurnEnd
  BY <1>0, <1>7, TurnEndRecords, FiledKept
<1>8. ASSUME NEW responded \in BOOLEAN, NEW priced \in BOOLEAN, NEW m \in Models,
             MessageEnd(responded, priced, m)
      PROVE  Filed'
  BY <1>0, <1>8, MessageRecorded, FiledKept
<1>9. CASE PricingLoads
  BY <1>0, <1>9, PricingRecords, FiledKept
<1>10. ASSUME NEW c \in Tools, ToolExecutionEnd(c) PROVE Filed'
  BY <1>0, <1>10, ToolRecords, FiledKept
<1> QED BY <1>1, <1>2, <1>3, <1>4, <1>5, <1>6, <1>7, <1>8, <1>9, <1>10, NextCases, FiledLoad, FiledKilled

-----------------------------------------------------------------------------
(* What has been said                                                      *)

\* What a writer that loses nothing has said, it has said for good.
LEMMA SaidGrows ==
  ASSUME NEW R, Wrote(R), NEW n \in DOMAIN writers, ~writers'[n].lost
  PROVE  /\ ~writers[n].lost
         /\ Said(writers[n]) \cup R[n] \subseteq Said(writers'[n])
BY DEF Wrote, Moved

\* The session and the turn stay recorded, or are recorded by this step.
LEMMA AnnouncedKept ==
  ASSUME Announced, NEW R, Wrote(R), Loaded \in DOMAIN writers,
         pi'.alive = pi.alive, pi'.key = pi.key,
         pi'.started => \/ pi.started
                        \/ \E q \in R[Loaded] : q.type = "session" /\ q.session = Cur,
         pi'.turn # None => \/ pi.started /\ pi'.turn = pi.turn
                            \/ \E q \in R[Loaded] : q.type = "turn" /\ q.turn = HarnessTurnId(Cur, pi'.turn)
  PROVE  Announced'
<1>1. Cur' = Cur /\ Loaded' = Loaded
  BY CurKept DEF Wrote
<1>2. SUFFICES ASSUME pi'.alive, pi'.started, ~writers'[Loaded].lost
      PROVE  /\ \E q \in Said(writers'[Loaded]) : q.type = "session" /\ q.session = Cur
             /\ pi'.turn # None =>
                  \E q \in Said(writers'[Loaded]) : q.type = "turn" /\ q.turn = HarnessTurnId(Cur, pi'.turn)
  BY <1>1 DEF Announced, Said, HarnessTurnId
<1>3. ~writers[Loaded].lost /\ Said(writers[Loaded]) \cup R[Loaded] \subseteq Said(writers'[Loaded])
  BY <1>2, SaidGrows
<1>4. \E q \in Said(writers'[Loaded]) : q.type = "session" /\ q.session = Cur
  BY <1>2, <1>3 DEF Announced
<1>5. ASSUME pi'.turn # None
      PROVE  \E q \in Said(writers'[Loaded]) : q.type = "turn" /\ q.turn = HarnessTurnId(Cur, pi'.turn)
  <2>1. CASE pi.started /\ pi'.turn = pi.turn
    BY <1>2, <1>3, <1>5, <2>1 DEF Announced
  <2>2. CASE \E q \in R[Loaded] : q.type = "turn" /\ q.turn = HarnessTurnId(Cur, pi'.turn)
    BY <1>3, <2>2
  <2> QED BY <1>5, <2>1, <2>2
<1> QED BY <1>4, <1>5

\* The handlers that wait keep their parents, and one that begins to has them.
LEMMA WaitsKept ==
  ASSUME WaitsBacked, NEW R, Wrote(R),
         \A n \in DOMAIN writers : \A r \in Range(waiting'[n]) :
           \/ r \in Range(waiting[n])
           \/ ~writers[n].lost => HasParents(r, Said(writers[n]))
  PROVE  WaitsBacked'
<1>1. ASSUME NEW n \in DOMAIN writers, ~writers'[n].lost, NEW r \in Range(waiting'[n])
      PROVE  HasParents(r, Said(writers'[n]))
  <2>1. ~writers[n].lost /\ Said(writers[n]) \subseteq Said(writers'[n])
    BY <1>1, SaidGrows
  <2>2. HasParents(r, Said(writers[n]))
    BY <2>1 DEF WaitsBacked
  <2> QED BY <2>1, <2>2, ParentsMonotone
<1>2. DOMAIN writers' = DOMAIN writers
  BY DEF Wrote
<1>3. \A n \in DOMAIN writers' : ~writers'[n].lost =>
        \A r \in Range(waiting'[n]) : HasParents(r, Said(writers'[n]))
  BY <1>1, <1>2
<1> QED BY <1>3 DEF WaitsBacked, HasParents, Said, Range

\* A handler that begins to wait is the last that waits in its load.
LEMMA WaitLonger ==
  ASSUME Shape, NEW n \in DOMAIN writers, NEW r \in MessageRecords,
         waiting' = [waiting EXCEPT ![n] = Append(waiting[n], r)]
  PROVE  /\ Range(waiting'[n]) = Range(waiting[n]) \cup {r}
         /\ \A m \in DOMAIN writers : m # n => waiting'[m] = waiting[m]
<1>1. waiting[n] \in Seq(MessageRecords) /\ DOMAIN waiting = DOMAIN writers
  BY DEF Shape
<1>2. waiting'[n] = Append(waiting[n], r) /\ \A m \in DOMAIN writers : m # n => waiting'[m] = waiting[m]
  BY <1>1
<1> QED BY <1>1, <1>2, AppendFacts

\* Nothing is in an empty queue.
LEMMA EmptyRange == Range(<<>>) = {}
<1>1. DOMAIN <<>> = {}
  BY EmptySeq, LenProperties
<1> QED BY <1>1 DEF Range

\* A new load has announced nothing, and needs not.
LEMMA ToldLoad ==
  ASSUME Shape, Alive, Told, NEW k \in Keys, Load(k)
  PROVE  Told'
<1>1. ~pi'.started
  BY LoadDoes DEF Alive, Registry
<1>2. \A n \in DOMAIN writers' : ~writers'[n].lost =>
        \A r \in Range(waiting'[n]) : HasParents(r, Said(writers'[n]))
  BY EmptyRange, LoadDoes DEF Told, WaitsBacked
<1>3. WaitsBacked'
  BY <1>2 DEF WaitsBacked, HasParents, Said, Range
<1> QED BY <1>1, <1>3 DEF Told, Announced

\* After a kill no handler waits.
LEMMA ToldKilled ==
  ASSUME Shape, Killed
  PROVE  Told'
<1>1. \A n \in DOMAIN writers' : Range(waiting'[n]) = {}
  BY EmptyRange, KilledDoes
<1> QED BY <1>1, KilledDoes DEF Told, Announced, WaitsBacked, Range

\* Every step leaves the open session and turn announced, and the waits with parents.
LEMMA NextTold ==
  ASSUME Shape, Alive, Told, Next
  PROVE  Told'
<1>0. Announced /\ WaitsBacked
  BY DEF Told
<1>t. (pi.alive /\ pi.turn # None) => pi.started
  BY DEF Alive, Turns
<1>1. ASSUME NEW n \in DOMAIN writers, Flush(n) PROVE Told'
  <2>1. Wrote(Nothing)
    BY <1>1, FlushWrites DEF Shape
  <2>2. UNCHANGED <<pi, waiting>> /\ pi.alive
    BY <1>1 DEF Flush, AppendNext, AppendFails, Rotate, RotateFails
  <2>3. WaitsBacked'
    BY <1>0, <2>1, <2>2, WaitsKept
  <2>4. CASE pi.started
    <3>1. Loaded \in DOMAIN writers
      BY <2>2, <2>4, Working
    <3> QED BY <1>0, <2>1, <2>2, <2>3, <2>4, <3>1, AnnouncedKept DEF Told
  <2>5. CASE ~pi.started
    BY <2>2, <2>3, <2>5 DEF Told, Announced
  <2> QED BY <2>4, <2>5
<1>2. ASSUME NEW repository \in BOOLEAN, SessionStart(repository) PROVE Told'
  <2> DEFINE R == Only(Loaded, SessionRecord(Cur, FALSE))
  <2>1. Wrote(R) /\ Loaded \in DOMAIN writers /\ ~writers[Loaded].closed
    BY <1>2, StartRecords, SessionStartDoes, OpenSession
  <2>2. R[Loaded] = {SessionRecord(Cur, FALSE)}
    BY <2>1 DEF Only
  <2> HIDE DEF R
  <2>3. \E q \in R[Loaded] : q.type = "session" /\ q.session = Cur
    <3>1. SessionRecord(Cur, FALSE).type = "session" /\ SessionRecord(Cur, FALSE).session = Cur
      BY DEF SessionRecord
    <3> QED BY <2>2, <3>1
  <2>4. pi'.turn = None /\ pi'.alive = pi.alive /\ pi'.key = pi.key /\ UNCHANGED waiting
    BY <1>2, <1>t, SessionStartDoes
  <2>5. Announced'
    BY <1>0, <2>1, <2>3, <2>4, AnnouncedKept
  <2>6. WaitsBacked'
    BY <1>0, <2>1, <2>4, WaitsKept
  <2> QED BY <2>5, <2>6 DEF Told
<1>3. ASSUME NEW c \in captures, GitCaptured(c) PROVE Told'
  <2>1. PICK R : Wrote(R)
    BY <1>3, GitRecords
  <2>2. UNCHANGED <<pi, waiting>> /\ pi.alive
    BY <1>3 DEF GitCaptured
  <2>3. WaitsBacked'
    BY <1>0, <2>1, <2>2, WaitsKept
  <2>4. CASE pi.started
    <3>1. Loaded \in DOMAIN writers
      BY <2>2, <2>4, Working
    <3> QED BY <1>0, <2>1, <2>2, <2>3, <2>4, <3>1, AnnouncedKept DEF Told
  <2>5. CASE ~pi.started
    BY <2>2, <2>3, <2>5 DEF Told, Announced
  <2> QED BY <2>4, <2>5
<1>4. CASE SessionShutdown
  <2>1. PICK R : Wrote(R)
    BY <1>4, ShutdownRecords
  <2>2. ~pi'.started /\ UNCHANGED waiting
    BY <1>4, ShutdownDoes
  <2>3. WaitsBacked'
    BY <1>0, <2>1, <2>2, WaitsKept
  <2> QED BY <2>2, <2>3 DEF Told, Announced
<1>5. CASE Silent
  <2>1. Wrote(Nothing)
    BY <1>5, SilentDoes, SilentWrites DEF Shape
  <2>2. /\ pi'.alive = pi.alive /\ pi'.key = pi.key /\ pi'.started = pi.started /\ pi'.turn = pi.turn
        /\ UNCHANGED waiting /\ pi.alive /\ pi.started
    BY <1>5, SilentDoes DEF Silent, ModelSelect, ToolExecutionStart
  <2>3. Loaded \in DOMAIN writers
    BY <2>2, Working
  <2>4. WaitsBacked'
    BY <1>0, <2>1, <2>2, WaitsKept
  <2>5. Announced'
    BY <1>0, <2>1, <2>2, <2>3, AnnouncedKept
  <2> QED BY <2>4, <2>5 DEF Told
<1>6. CASE TurnStart
  <2>1. PICK r \in Records : /\ r.type = "turn" /\ r.turn = HarnessTurnId(Cur, pi'.turn)
                             /\ Wrote(Only(Loaded, r))
    BY <1>0, <1>6, TurnStartRecords
  <2>2. /\ pi'.alive = pi.alive /\ pi'.key = pi.key /\ pi'.started = pi.started
        /\ UNCHANGED waiting /\ pi.alive /\ pi.started
    BY <1>6, TurnStartDoes
  <2>3. Loaded \in DOMAIN writers /\ ~writers[Loaded].closed
    BY <2>2, Working
  <2>4. Only(Loaded, r)[Loaded] = {r}
    BY <2>3 DEF Only
  <2>5. WaitsBacked'
    BY <1>0, <2>1, <2>2, WaitsKept
  <2>6. Announced'
    BY <1>0, <2>1, <2>2, <2>3, <2>4, AnnouncedKept
  <2> QED BY <2>5, <2>6 DEF Told
<1>7. CASE TurnEnd
  <2>1. PICK R : Wrote(R)
    BY <1>0, <1>7, TurnEndRecords
  <2>2. /\ pi'.alive = pi.alive /\ pi'.key = pi.key /\ pi'.started = pi.started /\ pi'.turn = None
        /\ UNCHANGED waiting /\ pi.alive /\ pi.started
    BY <1>7, TurnEndDoes
  <2>3. Loaded \in DOMAIN writers
    BY <2>2, Working
  <2>4. WaitsBacked'
    BY <1>0, <2>1, <2>2, WaitsKept
  <2>5. Announced'
    BY <1>0, <2>1, <2>2, <2>3, AnnouncedKept
  <2> QED BY <2>4, <2>5 DEF Told
<1>8. ASSUME NEW responded \in BOOLEAN, NEW priced \in BOOLEAN, NEW m \in Models,
             MessageEnd(responded, priced, m)
      PROVE  Told'
  <2>1. PICK r : /\ NewMessage(r)
                 /\ \/ /\ Wrote(Only(Loaded, r)) /\ Backed(Only(Loaded, r))
                       /\ UNCHANGED waiting
                    \/ /\ Wrote(Nothing) /\ Backed(Nothing) /\ UNCHANGED writers
                       /\ waiting' = [waiting EXCEPT ![Loaded] = Append(waiting[Loaded], r)]
    BY <1>0, <1>8, MessageRecorded
  <2>2. /\ pi'.alive = pi.alive /\ pi'.key = pi.key /\ pi'.started = pi.started /\ pi'.turn = pi.turn
        /\ pi.alive /\ pi.started
    BY <1>8, MessageEndDoes
  <2>3. Loaded \in DOMAIN writers
    BY <2>2, Working
  <2>4. Announced'
    BY <1>0, <2>1, <2>2, <2>3, AnnouncedKept
  <2>5. WaitsBacked'
    <3>1. CASE Wrote(Only(Loaded, r)) /\ UNCHANGED waiting
      BY <1>0, <3>1, WaitsKept
    <3>2. CASE /\ Wrote(Nothing)
               /\ waiting' = [waiting EXCEPT ![Loaded] = Append(waiting[Loaded], r)]
      <4>1. r \in MessageRecords /\ (~writers[Loaded].lost => HasParents(r, Said(writers[Loaded])))
        BY <2>1 DEF NewMessage
      <4>2. /\ Range(waiting'[Loaded]) = Range(waiting[Loaded]) \cup {r}
            /\ \A n \in DOMAIN writers : n # Loaded => waiting'[n] = waiting[n]
        BY <2>3, <3>2, <4>1, WaitLonger
      <4> QED BY <1>0, <3>2, <4>1, <4>2, WaitsKept
    <3> QED BY <2>1, <3>1, <3>2
  <2> QED BY <2>4, <2>5 DEF Told
<1>9. CASE PricingLoads
  <2>1. Wrote(Resuming)
    BY <1>0, <1>9, PricingRecords
  <2>2. UNCHANGED pi /\ pi.alive /\ \A n \in DOMAIN writers : Range(waiting'[n]) = {}
    BY <1>9, EmptyRange, PricingDoes DEF PricingLoads
  <2>3. WaitsBacked'
    BY <1>0, <2>1, <2>2, WaitsKept
  <2>4. CASE pi.started
    <3>1. Loaded \in DOMAIN writers
      BY <2>2, <2>4, Working
    <3> QED BY <1>0, <2>1, <2>2, <2>3, <2>4, <3>1, AnnouncedKept DEF Told
  <2>5. CASE ~pi.started
    BY <2>2, <2>3, <2>5 DEF Told, Announced
  <2> QED BY <2>4, <2>5
<1>10. ASSUME NEW c \in Tools, ToolExecutionEnd(c) PROVE Told'
  <2>1. PICK R : Wrote(R)
    BY <1>0, <1>10, ToolRecords
  <2>2. UNCHANGED <<pi, waiting>> /\ pi.alive /\ pi.started
    BY <1>10, ToolEndDoes
  <2>3. Loaded \in DOMAIN writers
    BY <2>2, Working
  <2>4. WaitsBacked'
    BY <1>0, <2>1, <2>2, WaitsKept
  <2>5. Announced'
    BY <1>0, <2>1, <2>2, <2>3, AnnouncedKept
  <2> QED BY <2>4, <2>5 DEF Told
<1> QED BY <1>1, <1>2, <1>3, <1>4, <1>5, <1>6, <1>7, <1>8, <1>9, <1>10, NextCases, ToldLoad, ToldKilled

-----------------------------------------------------------------------------
(* What ended is not forgotten                                             *)

\* A message that is recorded is recorded however much else is.
LEMMA HasMonotone ==
  ASSUME NEW n, NEW A, NEW B, HasMessage(n, A), A \subseteq B
  PROVE  HasMessage(n, B)
BY DEF HasMessage

\* What the invariant needs the primed form of.
LEMMA WholeFrom ==
  ASSUME \A n \in DOMAIN ended' : ended'[n].writer \in DOMAIN writers',
         (pi'.alive /\ pi'.loaded /\ ~writers'[Loaded'].lost) =>
            \A n \in DOMAIN ended' : ended'[n].writer = Loaded' =>
              HasMessage(n, Said(writers'[Loaded']) \cup Range(waiting'[Loaded'])),
         \A c \in Range(closing') :
            /\ c.writer \in DOMAIN writers' /\ writers'[c.writer].closed
            /\ (~writers'[c.writer].lost /\ (pi'.alive \/ writers'[c.writer].state = "closed")) =>
                 /\ SessionRecord(c.session, TRUE) \in Said(writers'[c.writer])
                 /\ \A n \in DOMAIN ended' : (ended'[n].writer = c.writer /\ n \notin c.late) =>
                      HasMessage(n, Said(writers'[c.writer]))
  PROVE  Whole'
BY DEF Whole, EndedHere, OpenWhole, ClosedWhole, Said, HasMessage, Range, SessionRecord, Loaded

\* What a closing has, it keeps, whatever ends after it.
LEMMA ClosingKept ==
  ASSUME ClosedWhole, pi.alive, NEW R, Wrote(R), NEW c \in Range(closing),
         \A n \in DOMAIN ended' :
            \/ n \in DOMAIN ended /\ ended'[n] = ended[n]
            \/ ~writers[ended'[n].writer].closed
  PROVE  /\ c.writer \in DOMAIN writers' /\ writers'[c.writer].closed
         /\ ~writers'[c.writer].lost =>
              /\ SessionRecord(c.session, TRUE) \in Said(writers'[c.writer])
              /\ \A n \in DOMAIN ended' : (ended'[n].writer = c.writer /\ n \notin c.late) =>
                   HasMessage(n, Said(writers'[c.writer]))
<1> DEFINE w == c.writer
<1>1. /\ w \in DOMAIN writers /\ writers[w].closed
      /\ ~writers[w].lost =>
           /\ SessionRecord(c.session, TRUE) \in Said(writers[w])
           /\ \A n \in DOMAIN ended : (ended[n].writer = w /\ n \notin c.late) =>
                HasMessage(n, Said(writers[w]))
  BY DEF ClosedWhole
<1>2. w \in DOMAIN writers' /\ writers'[w].closed
  BY <1>1 DEF Wrote, Moved
<1>3. ASSUME ~writers'[w].lost
      PROVE  /\ SessionRecord(c.session, TRUE) \in Said(writers'[w])
             /\ \A n \in DOMAIN ended' : (ended'[n].writer = w /\ n \notin c.late) =>
                  HasMessage(n, Said(writers'[w]))
  <2>1. ~writers[w].lost /\ Said(writers[w]) \subseteq Said(writers'[w])
    BY <1>1, <1>3, SaidGrows
  <2>2. ASSUME NEW n \in DOMAIN ended', ended'[n].writer = w, n \notin c.late
        PROVE  HasMessage(n, Said(writers'[w]))
    <3>1. n \in DOMAIN ended /\ ended[n].writer = w
      BY <1>1, <2>2
    <3>2. HasMessage(n, Said(writers[w]))
      BY <1>1, <2>1, <2>2, <3>1
    <3> QED BY <2>1, <3>2, HasMonotone
  <2> QED BY <1>1, <2>1, <2>2
<1> QED BY <1>2, <1>3

\* Steps in which no message ends and the session stays open, or closed.
LEMMA WholeKept ==
  ASSUME Shape, Alive, Whole, pi.alive, NEW R, Wrote(R),
         pi'.loaded = pi.loaded, UNCHANGED history,
         \A n \in DOMAIN writers :
            ~writers[n].closed => Range(waiting[n]) \subseteq Range(waiting'[n]) \cup R[n]
  PROVE  Whole'
<1>0. EndedHere /\ OpenWhole /\ ClosedWhole
  BY DEF Whole
<1>1. UNCHANGED <<ended, closing>> /\ DOMAIN writers' = DOMAIN writers /\ Loaded' = Loaded
  BY DEF history, Wrote, Loaded
<1>2. \A n \in DOMAIN ended' : ended'[n].writer \in DOMAIN writers'
  BY <1>0, <1>1 DEF EndedHere
<1>3. ASSUME pi'.loaded, ~writers'[Loaded].lost, NEW n \in DOMAIN ended, ended[n].writer = Loaded
      PROVE  HasMessage(n, Said(writers'[Loaded]) \cup Range(waiting'[Loaded]))
  <2>1. Loaded \in DOMAIN writers /\ ~writers[Loaded].closed
    BY <1>3, OpenSession
  <2>2. ~writers[Loaded].lost /\ Said(writers[Loaded]) \cup R[Loaded] \subseteq Said(writers'[Loaded])
    BY <1>3, <2>1, SaidGrows
  <2>3. HasMessage(n, Said(writers[Loaded]) \cup Range(waiting[Loaded]))
    BY <1>0, <1>3, <2>2 DEF OpenWhole
  <2>4. Said(writers[Loaded]) \cup Range(waiting[Loaded])
          \subseteq Said(writers'[Loaded]) \cup Range(waiting'[Loaded])
    BY <2>1, <2>2
  <2> QED BY <2>3, <2>4, HasMonotone
<1>4. \A n \in DOMAIN ended' : n \in DOMAIN ended /\ ended'[n] = ended[n]
  BY <1>1
<1>5. \A c \in Range(closing') :
         /\ c.writer \in DOMAIN writers' /\ writers'[c.writer].closed
         /\ ~writers'[c.writer].lost =>
              /\ SessionRecord(c.session, TRUE) \in Said(writers'[c.writer])
              /\ \A n \in DOMAIN ended' : (ended'[n].writer = c.writer /\ n \notin c.late) =>
                   HasMessage(n, Said(writers'[c.writer]))
  BY <1>0, <1>1, <1>4, ClosingKept
<1>6. \A n \in DOMAIN ended' : (pi'.loaded /\ ~writers'[Loaded'].lost /\ ended'[n].writer = Loaded') =>
         HasMessage(n, Said(writers'[Loaded']) \cup Range(waiting'[Loaded']))
  BY <1>1, <1>3
<1> QED BY <1>2, <1>5, <1>6, WholeFrom

\* A message ends in the open load, and is recorded or waits.
LEMMA WholeMessage ==
  ASSUME Shape, Alive, Told, Whole,
         NEW responded \in BOOLEAN, NEW priced \in BOOLEAN, NEW m \in Models,
         MessageEnd(responded, priced, m)
  PROVE  Whole'
<1>0. EndedHere /\ OpenWhole /\ ClosedWhole /\ Announced /\ pi.alive /\ pi.loaded
  BY MessageEndDoes, Working DEF Whole, Told
<1>1. PICK r : /\ NewMessage(r)
               /\ \/ /\ Wrote(Only(Loaded, r)) /\ Backed(Only(Loaded, r))
                     /\ UNCHANGED waiting
                  \/ /\ Wrote(Nothing) /\ Backed(Nothing) /\ UNCHANGED writers
                     /\ waiting' = [waiting EXCEPT ![Loaded] = Append(waiting[Loaded], r)]
  BY <1>0, MessageRecorded
<1>2. PICK R : Wrote(R)
  BY <1>1
<1>3. /\ pi'.loaded = pi.loaded /\ pi'.alive = pi.alive /\ UNCHANGED closing
      /\ Loaded \in DOMAIN writers /\ ~writers[Loaded].closed
  BY MessageEndDoes, Working
<1>4. /\ DOMAIN ended' = DOMAIN ended \cup {Len(ended) + 1}
      /\ \A n \in DOMAIN ended : ended'[n] = ended[n]
      /\ ended'[Len(ended) + 1].writer = Loaded
  <2>1. PICK e \in [session : Sessions, turn : TurnIds, model : Models, writer : Nat] :
           e.writer = Loaded /\ ended' = Append(ended, e)
    BY MessageEndDoes
  <2> DEFINE S == [session : Sessions, turn : TurnIds, model : Models, writer : Nat]
  <2>2. ended \in Seq(S)
    BY DEF Shape
  <2> HIDE DEF S
  <2>3. /\ Len(ended) \in Nat /\ DOMAIN ended = 1 .. Len(ended)
        /\ ended' \in Seq(S) /\ Len(ended') = Len(ended) + 1
        /\ \A n \in 1 .. Len(ended) : ended'[n] = ended[n]
        /\ ended'[Len(ended) + 1] = e
    BY <2>1, <2>2, AppendProperties, LenProperties DEF S
  <2>4. DOMAIN ended' = 1 .. Len(ended) + 1
    BY <2>3, LenProperties
  <2>5. 1 .. Len(ended) + 1 = 1 .. Len(ended) \cup {Len(ended) + 1}
    BY <2>3
  <2> QED BY <2>1, <2>3, <2>4, <2>5
<1>5. DOMAIN writers' = DOMAIN writers /\ Loaded' = Loaded
  BY <1>2 DEF Wrote, Loaded
<1>6. \A n \in DOMAIN ended' : ended'[n].writer \in DOMAIN writers'
  BY <1>0, <1>3, <1>4, <1>5 DEF EndedHere
<1>7. ASSUME ~writers'[Loaded].lost
      PROVE  /\ ~writers[Loaded].lost
             /\ Said(writers[Loaded]) \cup Range(waiting[Loaded]) \cup {r}
                  \subseteq Said(writers'[Loaded]) \cup Range(waiting'[Loaded])
  <2>1. CASE Wrote(Only(Loaded, r)) /\ UNCHANGED waiting
    <3>1. Only(Loaded, r)[Loaded] = {r}
      BY <1>3 DEF Only
    <3> QED BY <1>3, <1>7, <2>1, <3>1, SaidGrows
  <2>2. CASE /\ UNCHANGED writers
             /\ waiting' = [waiting EXCEPT ![Loaded] = Append(waiting[Loaded], r)]
    <3>1. r \in MessageRecords
      BY <1>1 DEF NewMessage
    <3>2. Range(waiting'[Loaded]) = Range(waiting[Loaded]) \cup {r}
      BY <1>3, <2>2, <3>1, WaitLonger
    <3> QED BY <1>7, <2>2, <3>2
  <2> QED BY <1>1, <2>1, <2>2
<1>8. ASSUME NEW n \in DOMAIN ended', ended'[n].writer = Loaded, ~writers'[Loaded].lost
      PROVE  HasMessage(n, Said(writers'[Loaded]) \cup Range(waiting'[Loaded]))
  <2>1. CASE n \in DOMAIN ended
    <3>1. HasMessage(n, Said(writers[Loaded]) \cup Range(waiting[Loaded]))
      BY <1>0, <1>4, <1>7, <1>8, <2>1 DEF OpenWhole
    <3> QED BY <1>7, <1>8, <3>1, HasMonotone
  <2>2. CASE n = Len(ended) + 1
    BY <1>1, <1>7, <1>8, <2>2 DEF HasMessage, NewMessage
  <2> QED BY <1>4, <2>1, <2>2
<1>9. \A n \in DOMAIN ended' :
        \/ n \in DOMAIN ended /\ ended'[n] = ended[n]
        \/ ~writers[ended'[n].writer].closed
  BY <1>3, <1>4
<1>10. \A c \in Range(closing') :
         /\ c.writer \in DOMAIN writers' /\ writers'[c.writer].closed
         /\ ~writers'[c.writer].lost =>
              /\ SessionRecord(c.session, TRUE) \in Said(writers'[c.writer])
              /\ \A n \in DOMAIN ended' : (ended'[n].writer = c.writer /\ n \notin c.late) =>
                   HasMessage(n, Said(writers'[c.writer]))
  BY <1>0, <1>2, <1>3, <1>9, ClosingKept
<1>11. (pi'.alive /\ pi'.loaded /\ ~writers'[Loaded'].lost) =>
            \A n \in DOMAIN ended' : ended'[n].writer = Loaded' =>
              HasMessage(n, Said(writers'[Loaded']) \cup Range(waiting'[Loaded']))
  BY <1>5, <1>8
<1> QED BY <1>6, <1>10, <1>11, WholeFrom

\* A session ends: what waits is late, and the rest is recorded.
LEMMA WholeShutdown ==
  ASSUME Shape, Alive, Whole, SessionShutdown
  PROVE  Whole'
<1> DEFINE late == {r.message : r \in Range(waiting[Loaded])}
           d == [session |-> Cur, writer |-> Loaded, late |-> late]
           R == Only(Loaded, SessionRecord(Cur, TRUE))
<1>0. EndedHere /\ OpenWhole /\ ClosedWhole /\ pi.alive /\ pi.loaded
  BY ShutdownDoes, Working DEF Whole
<1>1. /\ Wrote(R) /\ Loaded \in DOMAIN writers /\ ~writers[Loaded].closed
      /\ writers'[Loaded].closed /\ ~pi'.loaded /\ UNCHANGED ended
  BY <1>0, ShutdownDoes, OpenSession
<1>2. R[Loaded] = {SessionRecord(Cur, TRUE)}
  BY <1>1 DEF Only
<1>3. Range(closing') = Range(closing) \cup {d}
  <2>1. closing' = Append(closing, d) /\ d \in [session : Sessions, writer : Nat, late : SUBSET Nat]
    BY ShutdownDoes
  <2> DEFINE S == [session : Sessions, writer : Nat, late : SUBSET Nat]
  <2>2. closing \in Seq(S)
    BY DEF Shape
  <2> HIDE DEF d, S
  <2>3. d \in S
    BY <2>1 DEF S
  <2> QED BY <2>1, <2>2, <2>3, AppendFacts
<1> HIDE DEF R, late
<1>4. DOMAIN writers' = DOMAIN writers
  BY <1>1 DEF Wrote
<1>5. \A n \in DOMAIN ended' : ended'[n].writer \in DOMAIN writers'
  BY <1>0, <1>1, <1>4 DEF EndedHere
<1>6. ASSUME ~writers'[Loaded].lost
      PROVE  /\ SessionRecord(Cur, TRUE) \in Said(writers'[Loaded])
             /\ \A n \in DOMAIN ended : (ended[n].writer = Loaded /\ n \notin late) =>
                  HasMessage(n, Said(writers'[Loaded]))
  <2>1. /\ ~writers[Loaded].lost
        /\ Said(writers[Loaded]) \cup {SessionRecord(Cur, TRUE)} \subseteq Said(writers'[Loaded])
    BY <1>1, <1>2, <1>6, SaidGrows
  <2>2. ASSUME NEW n \in DOMAIN ended, ended[n].writer = Loaded, n \notin late
        PROVE  HasMessage(n, Said(writers'[Loaded]))
    <3>1. PICK r \in Said(writers[Loaded]) \cup Range(waiting[Loaded]) :
             r.type = "message" /\ r.message = n
      BY <1>0, <2>1, <2>2 DEF OpenWhole, HasMessage
    <3>2. r \notin Range(waiting[Loaded])
      BY <2>2, <3>1 DEF late
    <3> QED BY <2>1, <3>1, <3>2 DEF HasMessage
  <2> QED BY <2>1, <2>2
<1>7. \A n \in DOMAIN ended' : n \in DOMAIN ended /\ ended'[n] = ended[n]
  BY <1>1
<1>8. ASSUME NEW c \in Range(closing')
      PROVE  /\ c.writer \in DOMAIN writers' /\ writers'[c.writer].closed
             /\ ~writers'[c.writer].lost =>
                  /\ SessionRecord(c.session, TRUE) \in Said(writers'[c.writer])
                  /\ \A n \in DOMAIN ended' : (ended'[n].writer = c.writer /\ n \notin c.late) =>
                       HasMessage(n, Said(writers'[c.writer]))
  <2>1. CASE c \in Range(closing)
    BY <1>0, <1>1, <1>7, <2>1, ClosingKept
  <2>2. CASE c = d
    <3>1. c.session = Cur /\ c.writer = Loaded /\ c.late = late
      BY <2>2
    <3> HIDE DEF d
    <3> QED BY <1>1, <1>4, <1>6, <3>1
  <2> QED BY <1>3, <2>1, <2>2
<1> QED BY <1>1, <1>5, <1>8, WholeFrom

\* A new load has no messages yet, and the closings before it keep theirs.
LEMMA WholeLoad ==
  ASSUME Shape, Alive, Whole, NEW k \in Keys, Load(k)
  PROVE  Whole'
<1>0. EndedHere /\ OpenWhole /\ ClosedWhole /\ UNCHANGED <<ended, closing>>
  BY LoadDoes DEF Whole, history
<1>1. \A n \in DOMAIN ended' : ended'[n].writer \in DOMAIN writers'
  BY <1>0, LoadDoes DEF EndedHere
<1>2. \A n \in DOMAIN ended' : ended'[n].writer # Loaded'
  <2>1. Loaded \in Nat /\ Loaded' = Loaded + 1 /\ DOMAIN writers = 1 .. Loaded
    BY LoadDoes
  <2>2. Loaded' \notin DOMAIN writers
    BY <2>1
  <2> QED BY <1>0, <2>2 DEF EndedHere
<1>3. ASSUME NEW c \in Range(closing')
      PROVE  /\ c.writer \in DOMAIN writers' /\ writers'[c.writer].closed
             /\ (~writers'[c.writer].lost /\ (pi'.alive \/ writers'[c.writer].state = "closed")) =>
                  /\ SessionRecord(c.session, TRUE) \in Said(writers'[c.writer])
                  /\ \A n \in DOMAIN ended' : (ended'[n].writer = c.writer /\ n \notin c.late) =>
                       HasMessage(n, Said(writers'[c.writer]))
  <2>1. c \in Range(closing) /\ c.writer \in DOMAIN writers
    BY <1>0 DEF ClosedWhole
  <2>2. c.writer \in DOMAIN writers' /\ writers'[c.writer] = writers[c.writer] /\ pi'.alive = pi.alive
    BY <2>1, LoadDoes
  <2> QED BY <1>0, <2>1, <2>2 DEF ClosedWhole
<1> QED BY <1>1, <1>2, <1>3, WholeFrom

\* A kill loses the queue, but a rotated file had none left.
LEMMA WholeKilled ==
  ASSUME Shape, Filed, Whole, Killed
  PROVE  Whole'
<1>0. EndedHere /\ ClosedWhole /\ UNCHANGED <<ended, closing>> /\ ~pi'.alive
  BY KilledDoes DEF Whole, history
<1>1. \A n \in DOMAIN ended' : ended'[n].writer \in DOMAIN writers'
  BY <1>0, KilledDoes DEF EndedHere
<1>2. ASSUME NEW c \in Range(closing')
      PROVE  /\ c.writer \in DOMAIN writers' /\ writers'[c.writer].closed
             /\ (~writers'[c.writer].lost /\ (pi'.alive \/ writers'[c.writer].state = "closed")) =>
                  /\ SessionRecord(c.session, TRUE) \in Said(writers'[c.writer])
                  /\ \A n \in DOMAIN ended' : (ended'[n].writer = c.writer /\ n \notin c.late) =>
                       HasMessage(n, Said(writers'[c.writer]))
  <2> DEFINE w == c.writer
  <2>1. c \in Range(closing) /\ w \in DOMAIN writers /\ writers[w].closed
    BY <1>0 DEF ClosedWhole
  <2>2. /\ w \in DOMAIN writers' /\ writers'[w].closed /\ writers'[w].lost = writers[w].lost
        /\ writers'[w].state = writers[w].state /\ writers'[w].queue = <<>>
        /\ writers'[w].file = writers[w].file
    BY <2>1, KilledDoes
  <2>3. ASSUME ~writers'[w].lost, writers'[w].state = "closed"
        PROVE  /\ SessionRecord(c.session, TRUE) \in Said(writers'[w])
               /\ \A n \in DOMAIN ended : (ended[n].writer = w /\ n \notin c.late) =>
                    HasMessage(n, Said(writers'[w]))
    <3>1. writers[w].queue = <<>>
      BY <2>1, <2>2, <2>3 DEF Filed, Rotated
    <3>2. Said(writers'[w]) = Said(writers[w])
      BY <2>2, <3>1 DEF Said
    <3> QED BY <1>0, <2>1, <2>2, <2>3, <3>2 DEF ClosedWhole
  <2> QED BY <1>0, <2>1, <2>2, <2>3
<1> QED BY <1>0, <1>1, <1>2, WholeFrom

\* Every step leaves recorded or waiting what has ended.
LEMMA NextWhole ==
  ASSUME Shape, Alive, Filed, Told, Whole, Next
  PROVE  Whole'
<1>0. Announced /\ WaitsBacked
  BY DEF Told
<1>1. ASSUME NEW n \in DOMAIN writers, Flush(n) PROVE Whole'
  <2>1. Wrote(Nothing)
    BY <1>1, FlushWrites DEF Shape
  <2>2. UNCHANGED <<pi, waiting, history>> /\ pi.alive
    BY <1>1 DEF Flush, AppendNext, AppendFails, Rotate, RotateFails
  <2> QED BY <2>1, <2>2, WholeKept
<1>2. ASSUME NEW repository \in BOOLEAN, SessionStart(repository) PROVE Whole'
  BY <1>2, StartRecords, SessionStartDoes, WholeKept
<1>3. ASSUME NEW c \in captures, GitCaptured(c) PROVE Whole'
  <2>1. PICK R : Wrote(R)
    BY <1>3, GitRecords
  <2>2. UNCHANGED <<pi, waiting, history>> /\ pi.alive
    BY <1>3 DEF GitCaptured
  <2> QED BY <2>1, <2>2, WholeKept
<1>4. CASE Silent
  <2>1. Wrote(Nothing)
    BY <1>4, SilentDoes, SilentWrites DEF Shape
  <2>2. pi.alive
    BY <1>4 DEF Silent, ModelSelect, ToolExecutionStart
  <2> QED BY <1>4, <2>1, <2>2, SilentDoes, WholeKept
<1>5. CASE TurnStart
  BY <1>0, <1>5, TurnStartRecords, TurnStartDoes, WholeKept
<1>6. CASE TurnEnd
  BY <1>0, <1>6, TurnEndRecords, TurnEndDoes, WholeKept
<1>7. CASE PricingLoads
  <2>1. Wrote(Resuming)
    BY <1>0, <1>7, PricingRecords
  <2>2. \A n \in DOMAIN writers : ~writers[n].closed => Resuming[n] = Range(waiting[n])
    BY DEF Resuming
  <2>3. UNCHANGED <<pi, history>> /\ pi.alive
    BY <1>7 DEF PricingLoads
  <2> QED BY <2>1, <2>2, <2>3, WholeKept
<1>8. ASSUME NEW c \in Tools, ToolExecutionEnd(c) PROVE Whole'
  <2>1. PICK R : Wrote(R)
    BY <1>0, <1>8, ToolRecords
  <2> QED BY <1>8, <2>1, ToolEndDoes, WholeKept
<1> QED BY <1>1, <1>2, <1>3, <1>4, <1>5, <1>6, <1>7, <1>8, NextCases, WholeMessage, WholeShutdown,
           WholeLoad, WholeKilled

-----------------------------------------------------------------------------
(* Ids                                                                     *)

\* A session is of a key.
LEMMA SessionKey == \A s \in Sessions : s[1] \in Keys
BY DEF Sessions, Keys

\* The open session is of the key Pi has open.
LEMMA CurKey == Cur[1] = pi.key
BY DEF Cur, HarnessSessionId

\* What messages a step adds.
LEMMA MessagesFrom ==
  ASSUME NEW R, Wrote(R), NEW X,
         \A n \in DOMAIN writers : \A r \in R[n] : r.type = "message" => r \in Messages \cup X,
         \A n \in DOMAIN writers : Range(waiting'[n]) \subseteq Range(waiting[n]) \cup X
  PROVE  Messages' \subseteq Messages \cup X
<1> SUFFICES ASSUME NEW r \in Messages' PROVE r \in Messages \cup X
  OBVIOUS
<1>1. PICK n \in DOMAIN writers' : r \in Said(writers'[n]) \cup Range(waiting'[n])
  BY DEF Messages, Said, Range
<1>2. r.type = "message"
  BY DEF Messages
<1>3. n \in DOMAIN writers /\ Said(writers'[n]) \subseteq Said(writers[n]) \cup R[n]
  BY <1>1 DEF Wrote, Moved
<1>4. CASE r \in Said(writers[n]) \cup Range(waiting[n])
  BY <1>2, <1>3, <1>4 DEF Messages
<1>5. CASE r \in R[n] \cup X
  BY <1>2, <1>3, <1>5
<1> QED BY <1>1, <1>3, <1>4, <1>5

\* An id stays taken: no turn forgets what it has counted.
LEMMA NumberedKept ==
  ASSUME NEW r, Numbered(r), \A k \in Keys : pi'.turns[k] \in Nat /\ pi.turns[k] \in Nat,
         \A k \in Keys : pi'.turns[k] >= pi.turns[k],
         \A s \in Sessions, i \in Nat, k \in Nat :
           (/\ i < pi.turns[s[1]]
            /\ (pi.alive /\ pi.turn # None /\ s = Cur /\ i = pi.turn) => k < activeTurns[s].messageCounter
            /\ pi'.alive /\ pi'.turn # None /\ s = Cur' /\ i = pi'.turn)
           => k < activeTurns'[s].messageCounter
  PROVE  Numbered(r)'
<1>1. CASE r.id = <<"response", r.message>>
  BY <1>1 DEF Numbered
<1>2. ASSUME NEW s \in Sessions, NEW i \in Nat, NEW k \in Nat,
             r.id = SynthesizedId(s, i, k), i < pi.turns[s[1]],
             (pi.alive /\ pi.turn # None /\ s = Cur /\ i = pi.turn) => k < activeTurns[s].messageCounter
      PROVE  Numbered(r)'
  <2>1. i < pi'.turns[s[1]]
    BY <1>2, SessionKey
  <2>2. (pi'.alive /\ pi'.turn # None /\ s = Cur' /\ i = pi'.turn) => k < activeTurns'[s].messageCounter
    BY <1>2
  <2> QED BY <1>2, <2>1, <2>2 DEF Numbered, SynthesizedId
<1> QED BY <1>1, <1>2 DEF Numbered

\* Steps that make no message: the ids stay as they are.
LEMMA IdsKept ==
  ASSUME Ids, Messages' \subseteq Messages, UNCHANGED ended,
         \A r \in Messages : Numbered(r) => Numbered(r)'
  PROVE  Ids'
<1>1. \A r \in Messages' : Meant(r)' /\ Numbered(r)'
  BY DEF Ids, Meant
<1>2. \A r, q \in Messages' : r.id = q.id => r.message = q.message
  BY DEF Ids
<1> QED BY <1>1, <1>2 DEF Ids

\* Steps that record no new message leave the ids as they are.
LEMMA IdsQuiet ==
  ASSUME Shape, Alive, Ids, NEW R, Wrote(R),
         \A n \in DOMAIN writers : \A r \in R[n] : r.type = "message" => r \in Messages,
         \A n \in DOMAIN writers : Range(waiting'[n]) \subseteq Range(waiting[n]),
         UNCHANGED ended, pi.alive,
         pi'.turns = pi.turns, pi'.key = pi.key,
         pi'.turn = None \/ (pi'.turn = pi.turn /\ UNCHANGED activeTurns)
  PROVE  Ids'
<1>1. Messages' \subseteq Messages
  <2>1. Messages' \subseteq Messages \cup {}
    BY MessagesFrom
  <2> QED BY <2>1
<1>2. Cur' = Cur
  BY CurKept DEF Wrote
<1>3. \A k \in Keys : pi.turns[k] \in Nat
  BY PiTypes DEF Shape
<1>4. \A k \in Keys : pi'.turns[k] \in Nat /\ pi'.turns[k] >= pi.turns[k]
  BY <1>3
<1>5. \A r \in Messages : Numbered(r) => Numbered(r)'
  BY <1>2, <1>3, <1>4, NumberedKept
<1> QED BY <1>1, <1>5, IdsKept

\* A new turn has a number of its own.
LEMMA IdsTurnStart ==
  ASSUME Shape, Alive, Announced, Ids, TurnStart
  PROVE  Ids'
<1>1. PICK r \in Records : r.type = "turn" /\ Wrote(Only(Loaded, r))
  BY TurnStartRecords
<1>2. /\ UNCHANGED <<waiting, ended>> /\ pi'.key = pi.key /\ pi'.turn = pi.turns[pi.key]
      /\ pi'.turns = [pi.turns EXCEPT ![pi.key] = pi.turns[pi.key] + 1]
  BY TurnStartDoes DEF history
<1>3. pi.key \in Keys /\ pi.turns \in [Keys -> Nat]
  BY PiTypes DEF Shape
<1>4. Messages' \subseteq Messages
  <2>1. \A n \in DOMAIN writers : \A q \in Only(Loaded, r)[n] : q = r
    BY DEF Only
  <2>2. Messages' \subseteq Messages \cup {}
    BY <1>1, <1>2, <2>1, MessagesFrom
  <2> QED BY <2>2
<1>5. \A k \in Keys : pi.turns[k] \in Nat /\ pi'.turns[k] \in Nat /\ pi'.turns[k] >= pi.turns[k]
  BY <1>2, <1>3
<1>6. Cur' = Cur
  BY <1>1, <1>2, CurKept DEF Wrote
<1>7. \A s \in Sessions, i \in Nat : (i < pi.turns[s[1]] /\ s = Cur') => i # pi'.turn
  <2>1. \A i \in Nat : i < pi.turns[pi.key] => i # pi.turns[pi.key]
    BY <1>3
  <2> QED BY <1>2, <1>6, <2>1, CurKey
<1>8. \A q \in Messages : Numbered(q) => Numbered(q)'
  BY <1>5, <1>7, NumberedKept
<1> QED BY <1>2, <1>4, <1>8, IdsKept

\* A new message gets an id no other has.
LEMMA IdsMessage ==
  ASSUME Shape, Alive, Announced, Ids,
         NEW responded \in BOOLEAN, NEW priced \in BOOLEAN, NEW m \in Models,
         MessageEnd(responded, priced, m)
  PROVE  Ids'
<1>1. PICK r : /\ NewMessage(r)
               /\ \/ /\ Wrote(Only(Loaded, r)) /\ Backed(Only(Loaded, r))
                     /\ UNCHANGED waiting
                  \/ /\ Wrote(Nothing) /\ Backed(Nothing) /\ UNCHANGED writers
                     /\ waiting' = [waiting EXCEPT ![Loaded] = Append(waiting[Loaded], r)]
  BY MessageRecorded
<1> DEFINE k == activeTurns[Cur].messageCounter
<1>2. /\ pi.alive /\ pi.started /\ pi.turn # None /\ pi'.key = pi.key /\ pi'.turn = pi.turn
      /\ pi'.turns = pi.turns /\ pi.turn \in Nat /\ k \in Nat /\ activeTurns[Cur] \in InFlight
      /\ Cur \in Sessions /\ pi.key \in Keys /\ Loaded \in DOMAIN writers
      /\ pi.turn < pi.turns[pi.key]
  BY MessageEndDoes, InTurn, Working DEF Alive, Turns
<1>3. /\ activeTurns'[Cur].messageCounter = k + 1
      /\ \A s \in Sessions : s # Cur => activeTurns'[s] = activeTurns[s]
  <2>1. activeTurns' = [activeTurns EXCEPT ![Cur] = Counted(activeTurns[Cur])]
    BY MessageEndDoes
  <2>2. Counted(activeTurns[Cur]).messageCounter = k + 1
    BY <1>2 DEF Counted, InFlight
  <2> QED BY <1>2, <2>1, <2>2 DEF Shape
<1>4. Cur' = Cur
  BY <1>1, <1>2, CurKept DEF Wrote
<1>5. Messages' \subseteq Messages \cup {r}
  <2>1. CASE Wrote(Only(Loaded, r)) /\ UNCHANGED waiting
    <3>1. \A n \in DOMAIN writers : \A q \in Only(Loaded, r)[n] : q = r
      BY DEF Only
    <3> QED BY <2>1, <3>1, MessagesFrom
  <2>2. CASE /\ Wrote(Nothing)
             /\ waiting' = [waiting EXCEPT ![Loaded] = Append(waiting[Loaded], r)]
    <3>1. r \in MessageRecords
      BY <1>1 DEF NewMessage
    <3>2. \A n \in DOMAIN writers : Range(waiting'[n]) \subseteq Range(waiting[n]) \cup {r}
      BY <1>2, <2>2, <3>1, WaitLonger
    <3>3. \A n \in DOMAIN writers : Nothing[n] = {}
      BY DEF Nothing
    <3> QED BY <2>2, <3>2, <3>3, MessagesFrom
  <2> QED BY <1>1, <2>1, <2>2
<1>6. /\ Len(ended) \in Nat /\ DOMAIN ended = 1 .. Len(ended)
      /\ \A n \in DOMAIN ended : n \in DOMAIN ended' /\ ended'[n] = ended[n]
      /\ Len(ended) + 1 \in DOMAIN ended'
      /\ ended'[Len(ended) + 1].session = Cur
      /\ ended'[Len(ended) + 1].turn = HarnessTurnId(Cur, pi.turn)
  <2> DEFINE S == [session : Sessions, turn : TurnIds, model : Models, writer : Nat]
  <2>1. PICK e \in S : /\ e.session = Cur /\ e.turn = HarnessTurnId(Cur, pi.turn)
                       /\ ended' = Append(ended, e)
    BY MessageEndDoes
  <2>2. ended \in Seq(S)
    BY DEF Shape
  <2> HIDE DEF S
  <2>3. /\ Len(ended) \in Nat /\ DOMAIN ended = 1 .. Len(ended)
        /\ ended' \in Seq(S) /\ Len(ended') = Len(ended) + 1
        /\ \A n \in 1 .. Len(ended) : ended'[n] = ended[n]
        /\ ended'[Len(ended) + 1] = e
    BY <2>1, <2>2, AppendProperties, LenProperties
  <2>4. DOMAIN ended' = 1 .. Len(ended) + 1
    BY <2>3, LenProperties
  <2>5. 1 .. Len(ended) + 1 = 1 .. Len(ended) \cup {Len(ended) + 1}
    BY <2>3
  <2> QED BY <2>1, <2>3, <2>4, <2>5
<1>7. ASSUME NEW q \in Messages PROVE Numbered(q)'
  <2>1. Numbered(q)
    BY DEF Ids
  <2>2. \A j \in Keys : pi.turns[j] \in Nat
    BY PiTypes DEF Shape
  <2>3. \A j \in Keys : pi'.turns[j] \in Nat /\ pi.turns[j] \in Nat /\ pi'.turns[j] >= pi.turns[j]
    BY <1>2, <2>2
  <2>4. \A j \in Nat : j < k => j < k + 1
    BY <1>2
  <2> QED BY <1>2, <1>3, <1>4, <2>1, <2>3, <2>4, NumberedKept
<1>8. Numbered(r)'
  <2>1. CASE r.id = <<"response", Len(ended) + 1>>
    BY <1>1, <2>1 DEF NewMessage, Numbered
  <2>2. CASE r.id = SynthesizedId(Cur, pi.turn, k)
    <3>1. pi.turn < pi'.turns[Cur[1]]
      BY <1>2, CurKey
    <3>2. k < activeTurns'[Cur].messageCounter
      BY <1>2, <1>3
    <3> QED BY <1>2, <2>2, <3>1, <3>2 DEF Numbered, SynthesizedId
  <2> QED BY <1>1, <2>1, <2>2 DEF NewMessage
<1>9. Meant(r)'
  BY <1>1, <1>6 DEF NewMessage, Meant
<1>10. ASSUME NEW q \in Messages, q.id = r.id PROVE q.message = r.message
  <2>1. Numbered(q)
    BY DEF Ids
  <2>2. \A x, s, i, j : <<"response", x>> # <<s, i, j>>
    OBVIOUS
  <2>3. CASE r.id = <<"response", Len(ended) + 1>>
    BY <1>1, <1>10, <2>1, <2>2, <2>3 DEF Numbered, NewMessage, SynthesizedId
  <2>4. CASE r.id = SynthesizedId(Cur, pi.turn, k)
    <3>1. q.id # <<"response", q.message>>
      BY <1>10, <2>2, <2>4 DEF SynthesizedId
    <3>2. PICK s \in Sessions, i \in Nat, j \in Nat :
             /\ q.id = SynthesizedId(s, i, j)
             /\ (pi.alive /\ pi.turn # None /\ s = Cur /\ i = pi.turn) => j < activeTurns[s].messageCounter
      BY <2>1, <3>1 DEF Numbered
    <3>3. s = Cur /\ i = pi.turn /\ j = k
      BY <1>10, <2>4, <3>2 DEF SynthesizedId
    <3>4. k < k
      BY <1>2, <3>2, <3>3
    <3> QED BY <1>2, <3>4
  <2> QED BY <1>1, <2>3, <2>4 DEF NewMessage
<1>11. \A q \in Messages' : Meant(q)' /\ Numbered(q)'
  <2>1. \A q \in Messages : Meant(q)'
    BY <1>6 DEF Ids, Meant
  <2> QED BY <1>5, <1>7, <1>8, <1>9, <2>1
<1>12. \A p, q \in Messages' : p.id = q.id => p.message = q.message
  <2>1. \A p, q \in Messages : p.id = q.id => p.message = q.message
    BY DEF Ids
  <2> QED BY <1>5, <1>10, <2>1
<1> QED BY <1>11, <1>12 DEF Ids

\* A new load has no messages yet.
LEMMA IdsLoad ==
  ASSUME Shape, Alive, Ids, NEW k \in Keys, Load(k)
  PROVE  Ids'
<1>1. Messages' \subseteq Messages
  <2>1. Said(Writer) = {}
    BY EmptyRange DEF Said, Writer
  <2>2. ASSUME NEW n \in DOMAIN writers', NEW r \in Said(writers'[n]) \cup Range(waiting'[n]),
               r.type = "message"
        PROVE  r \in Messages
    <3>1. n \in DOMAIN writers /\ r \in Said(writers[n]) \cup Range(waiting[n])
      BY <2>1, <2>2, EmptyRange, LoadDoes
    <3> QED BY <2>2, <3>1 DEF Messages
  <2> QED BY <2>2 DEF Messages, Said, Range
<1>2. pi'.turn = None /\ pi'.turns = pi.turns /\ UNCHANGED ended
  BY LoadDoes DEF Alive, Turns, Registry, history
<1>3. \A j \in Keys : pi.turns[j] \in Nat
  BY PiTypes DEF Shape
<1>4. \A j \in Keys : pi'.turns[j] \in Nat /\ pi'.turns[j] >= pi.turns[j]
  BY <1>2, <1>3
<1>5. \A r \in Messages : Numbered(r) => Numbered(r)'
  BY <1>2, <1>3, <1>4, NumberedKept
<1> QED BY <1>1, <1>2, <1>5, IdsKept

\* A kill makes no message.
LEMMA IdsKilled ==
  ASSUME Shape, Ids, Killed
  PROVE  Ids'
<1>1. Messages' \subseteq Messages
  <2>1. ASSUME NEW n \in DOMAIN writers', NEW r \in Said(writers'[n]) \cup Range(waiting'[n]),
               r.type = "message"
        PROVE  r \in Messages
    <3>1. n \in DOMAIN writers /\ r \in Said(writers[n])
      BY <2>1, EmptyRange, KilledDoes DEF Said
    <3> QED BY <2>1, <3>1 DEF Messages
  <2> QED BY <2>1 DEF Messages, Said, Range
<1>2. ~pi'.alive /\ pi'.turns = pi.turns /\ UNCHANGED ended
  BY KilledDoes DEF history
<1>3. \A j \in Keys : pi.turns[j] \in Nat
  BY PiTypes DEF Shape
<1>4. \A j \in Keys : pi'.turns[j] \in Nat /\ pi'.turns[j] >= pi.turns[j]
  BY <1>2, <1>3
<1>5. \A r \in Messages : Numbered(r) => Numbered(r)'
  BY <1>2, <1>3, <1>4, NumberedKept
<1> QED BY <1>1, <1>2, <1>5, IdsKept

\* Every step leaves each id with one message.
LEMMA NextIds ==
  ASSUME Shape, Alive, Told, Ids, Next
  PROVE  Ids'
<1>0. Announced /\ WaitsBacked
  BY DEF Told
<1>n. \A n \in DOMAIN writers : Nothing[n] = {}
  BY DEF Nothing
<1>o. \A n, r : \A k \in DOMAIN writers : \A q \in Only(n, r)[k] : q = r
  BY DEF Only
<1>s. \A s, end : SessionRecord(s, end).type # "message"
  BY DEF SessionRecord
<1>1. ASSUME NEW n \in DOMAIN writers, Flush(n) PROVE Ids'
  <2>1. Wrote(Nothing)
    BY <1>1, FlushWrites DEF Shape
  <2>2. UNCHANGED <<pi, waiting, ended, activeTurns>> /\ pi.alive
    BY <1>1 DEF Flush, AppendNext, AppendFails, Rotate, RotateFails, maps, history
  <2> QED BY <1>n, <2>1, <2>2, IdsQuiet
<1>2. ASSUME NEW repository \in BOOLEAN, SessionStart(repository) PROVE Ids'
  <2> DEFINE r == SessionRecord(Cur, FALSE)
  <2>1. Wrote(Only(Loaded, r)) /\ r.type # "message"
    BY <1>2, <1>s, StartRecords
  <2> HIDE DEF r
  <2>2. /\ UNCHANGED <<activeTurns, waiting, ended>> /\ pi.alive
        /\ pi'.turns = pi.turns /\ pi'.key = pi.key /\ pi'.turn = pi.turn
    BY <1>2, SessionStartDoes DEF history
  <2> QED BY <1>o, <2>1, <2>2, IdsQuiet
<1>3. ASSUME NEW c \in captures, GitCaptured(c) PROVE Ids'
  <2> DEFINE r == SessionRecord(c.session, FALSE)
  <2>1. Wrote(Only(c.writer, r)) /\ r.type # "message"
    BY <1>3, <1>s, GitRecords
  <2> HIDE DEF r
  <2>2. UNCHANGED <<pi, activeTurns, waiting, ended>> /\ pi.alive
    BY <1>3 DEF GitCaptured, history
  <2> QED BY <1>o, <2>1, <2>2, IdsQuiet
<1>4. CASE SessionShutdown
  <2> DEFINE r == SessionRecord(Cur, TRUE)
  <2>1. Wrote(Only(Loaded, r)) /\ r.type # "message"
    BY <1>4, <1>s, ShutdownRecords
  <2> HIDE DEF r
  <2>2. /\ UNCHANGED <<waiting, ended>> /\ pi.alive
        /\ pi'.turns = pi.turns /\ pi'.key = pi.key /\ pi'.turn = None
    BY <1>4, ShutdownDoes
  <2> QED BY <1>o, <2>1, <2>2, IdsQuiet
<1>5. CASE Silent
  <2>1. Wrote(Nothing)
    BY <1>5, SilentDoes, SilentWrites DEF Shape
  <2>2. /\ UNCHANGED <<activeTurns, waiting, ended>> /\ pi.alive
        /\ pi'.turns = pi.turns /\ pi'.key = pi.key /\ pi'.turn = pi.turn
    BY <1>5, SilentDoes DEF Silent, ModelSelect, ToolExecutionStart, history
  <2> QED BY <1>n, <2>1, <2>2, IdsQuiet
<1>6. CASE TurnEnd
  <2>1. PICK r \in Records : r.type = "turn" /\ Wrote(Only(Loaded, r))
    BY <1>0, <1>6, TurnEndRecords
  <2>2. /\ UNCHANGED <<waiting, ended>> /\ pi.alive
        /\ pi'.turns = pi.turns /\ pi'.key = pi.key /\ pi'.turn = None
    BY <1>6, TurnEndDoes DEF history
  <2> QED BY <1>o, <2>1, <2>2, IdsQuiet
<1>7. CASE PricingLoads
  <2>1. Wrote(Resuming)
    BY <1>0, <1>7, PricingRecords
  <2>2. \A n \in DOMAIN writers : \A r \in Resuming[n] : r.type = "message" => r \in Messages
    BY DEF Resuming, Messages
  <2>3. UNCHANGED <<pi, activeTurns, ended>> /\ pi.alive
        /\ \A n \in DOMAIN writers : Range(waiting'[n]) = {}
    BY <1>7, EmptyRange, PricingDoes DEF PricingLoads, history
  <2> QED BY <2>1, <2>2, <2>3, IdsQuiet
<1>8. ASSUME NEW c \in Tools, ToolExecutionEnd(c) PROVE Ids'
  <2>1. PICK r \in Records : r.type = "tool" /\ Wrote(Only(Loaded, r))
    BY <1>0, <1>8, ToolRecords
  <2>2. UNCHANGED <<pi, activeTurns, waiting, ended>> /\ pi.alive
    BY <1>8, ToolEndDoes DEF history
  <2> QED BY <1>o, <2>1, <2>2, IdsQuiet
<1> QED BY <1>0, <1>1, <1>2, <1>3, <1>4, <1>5, <1>6, <1>7, <1>8, NextCases, IdsTurnStart, IdsMessage,
           IdsLoad, IdsKilled

-----------------------------------------------------------------------------
(* The theorems                                                            *)

\* Only a kill ends the process.
LEMMA NextBounded ==
  ASSUME Shape, Alive, Next, Shape', Alive'
  PROVE  Bounded'
<1>1. pi'.alive \/ Killed
  <2>1. pi.alive
    BY DEF Next, AppendNext, AppendFails, Rotate, RotateFails, SessionStart, GitCaptured, SessionShutdown,
           ModelSelect, TurnStart, TurnEnd, MessageEnd, PricingLoads, ToolExecutionStart,
           ToolExecutionEnd, Load, Killed
  <2>2. ASSUME NEW n \in DOMAIN writers, Flush(n) PROVE UNCHANGED pi
    BY <2>2 DEF Flush, AppendNext, AppendFails, Rotate, RotateFails
  <2> QED BY <2>1, <2>2, NextCases, SessionStartDoes, GitCapturedDoes, ShutdownDoes, SilentDoes,
             TurnStartDoes, TurnEndDoes, MessageEndDoes, PricingDoes, ToolEndDoes, LoadDoes
<1>2. CASE Killed
  BY <1>2, KilledDoes DEF Bounded
<1>3. CASE pi'.alive
  <2>1. Turns'
    BY <1>3 DEF Alive
  <2>2. /\ pi'.events \in 0 .. MaxEvents /\ MaxEvents \in Nat /\ pi'.turn \in Nat \cup {None}
        /\ pi'.key \in Keys /\ pi'.turns \in [Keys -> Nat]
    BY BoundsAssumption DEF Shape, Pi
  <2>3. ASSUME NEW s \in Sessions, activeTurns'[s] # None
        PROVE  activeTurns'[s].turnIndex <= MaxEvents /\ activeTurns'[s].messageCounter <= MaxEvents
    <3>1. /\ pi'.turn # None /\ activeTurns'[s].turnIndex = pi'.turn
          /\ activeTurns'[s].messageCounter <= pi'.events
          /\ pi'.turn < pi'.turns[pi'.key] /\ pi'.turns[pi'.key] <= pi'.events
      BY <2>1, <2>2, <2>3 DEF Turns
    <3>2. activeTurns'[s].messageCounter \in Nat
      BY <2>3 DEF Shape, InFlight
    <3>3. pi'.turn \in Nat /\ pi'.turns[pi'.key] \in Nat
      BY <2>2, <3>1
    <3> QED BY <2>2, <3>1, <3>2, <3>3
  <2> QED BY <2>3 DEF Bounded
<1> QED BY <1>1, <1>2, <1>3

\* The invariant holds at first.
LEMMA InitPInv == Init => PInv
<1> SUFFICES ASSUME Init PROVE PInv
  OBVIOUS
<1>1. /\ writers = <<>> /\ waiting = <<>> /\ ended = <<>> /\ closing = <<>>
      /\ registry = [k \in Keys |-> None] /\ activeTurns = [s \in Sessions |-> None]
      /\ activeModels = [s \in Sessions |-> None] /\ activeTools = {} /\ pricing = FALSE
      /\ captures = {} /\ faults = 0
  BY DEF Init
<1>2. PICK plan \in Plans :
        pi = [plan |-> plan, alive |-> TRUE, loaded |-> FALSE, started |-> FALSE, key |-> Ephemeral,
              turn |-> None, turns |-> [k \in Keys |-> 0], tools |-> Tools, events |-> 0]
  BY DEF Init
<1>3. DOMAIN <<>> = {} /\ Len(<<>>) = 0 /\ \A S : <<>> \in Seq(S)
  BY EmptySeq, LenProperties
<1>4. Range(closing) = {}
  BY <1>1, EmptyRange
<1>5. pi \in Pi
  <2>1. 0 \in 0 .. MaxEvents
    BY BoundsAssumption
  <2>2. Ephemeral \in Keys
    BY DEF Keys
  <2> QED BY <1>2, <2>1, <2>2 DEF Pi
<1>6. Shape
  <2>1. Len(pi.plan) \in Nat
    BY <1>5, PiTypes, PlansAssumption, LenProperties
  <2>2. waiting \in [DOMAIN writers -> Seq(MessageRecords)]
    <3>1. waiting = [n \in {} |-> <<>>]
      BY <1>1
    <3> QED BY <1>1, <1>3, <3>1
  <2>3. Len(writers) <= Len(pi.plan)
    BY <1>1, <1>3, <2>1
  <2>4. faults \in 0 .. MaxFaults
    BY <1>1, BoundsAssumption
  <2> QED BY <1>1, <1>3, <1>5, <2>2, <2>3, <2>4 DEF Shape
<1>7. Alive
  <2>1. ~pi.started /\ pi.turn = None /\ ~pi.loaded /\ pi.events = 0 /\ \A k \in Keys : pi.turns[k] = 0
    BY <1>2
  <2>2. Registry
    BY <1>1, <2>1 DEF Registry
  <2>3. Turns
    BY <1>1, <2>1 DEF Turns
  <2>4. Open
    BY <1>1, <1>3, <2>1 DEF Open
  <2> QED BY <2>2, <2>3, <2>4 DEF Alive
<1>8. Bounded
  BY <1>1 DEF Bounded
<1>9. Filed
  BY <1>1, <1>3 DEF Filed
<1>10. Told
  BY <1>1, <1>2, <1>3 DEF Told, Announced, WaitsBacked
<1>11. Whole
  BY <1>1, <1>2, <1>3, <1>4 DEF Whole, EndedHere, OpenWhole, ClosedWhole
<1>12. Ids
  BY <1>1, <1>3 DEF Ids, Messages
<1> QED BY <1>6, <1>7, <1>8, <1>9, <1>10, <1>11, <1>12 DEF PInv

\* Nothing changes when nothing changes.
LEMMA StutterPInv ==
  ASSUME PInv, UNCHANGED vars
  PROVE  PInv'
<1>1. UNCHANGED <<registry, activeTurns, activeModels, activeTools, pricing, waiting, captures, writers,
                  pi, ended, closing, faults>>
  BY DEF vars, maps, history
<1>2. Shape' /\ Bounded'
  BY <1>1 DEF PInv, Shape, Bounded
<1>3. Cur' = Cur /\ Loaded' = Loaded
  BY <1>1 DEF Cur, HarnessSessionId, Loaded
<1>4. Alive'
  BY <1>1, <1>3 DEF PInv, Alive, Registry, Turns, Open
<1>5. Filed'
  BY <1>1 DEF PInv, Filed, InOrder, Rotated
<1>6. Told'
  BY <1>1, <1>3 DEF PInv, Told, Announced, WaitsBacked, Said, HasParents, Range
<1>7. Whole'
  <2>1. EndedHere /\ OpenWhole /\ ClosedWhole
    BY DEF PInv, Whole
  <2>2. /\ writers' = writers /\ waiting' = waiting /\ pi' = pi /\ ended' = ended
        /\ closing' = closing /\ Loaded' = Loaded
    BY <1>1, <1>3
  <2> QED BY <2>1, <2>2, WholeFrom DEF EndedHere, OpenWhole, ClosedWhole
<1>8. Ids'
  BY <1>1, <1>3 DEF PInv, Ids, Messages, Meant, Numbered, Said, Range
<1> QED BY <1>2, <1>4, <1>5, <1>6, <1>7, <1>8 DEF PInv

\* The inductive invariant: one session and one turn at a time, files and queues
\* in order, nothing forgotten and no id given twice.
THEOREM PiInvariant == Spec => []PInv
<1>1. PInv /\ [Next]_vars => PInv'
  <2>1. ASSUME PInv, Next PROVE PInv'
    <3>1. Shape /\ Alive /\ Filed /\ Told /\ Whole /\ Ids
      BY <2>1 DEF PInv
    <3>2. Shape' /\ Alive'
      BY <2>1, <3>1, NextShape, NextAlive
    <3>3. Bounded'
      BY <2>1, <3>1, <3>2, NextBounded
    <3>4. Filed' /\ Told' /\ Whole' /\ Ids'
      BY <2>1, <3>1, NextFiled, NextTold, NextWhole, NextIds
    <3> QED BY <3>2, <3>3, <3>4 DEF PInv
  <2> QED BY <2>1, StutterPInv
<1> QED BY <1>1, InitPInv, PTL DEF Spec

\* The maps and the writers keep their shape, and what a snapshot finds that
\* comes late is a session or nothing (registry.get after the await).
THEOREM PiTypesHold == Spec => []TypeOK
<1>1. PInv => TypeOK
  <2> SUFFICES ASSUME PInv PROVE TypeOK
    OBVIOUS
  <2>1. Shape /\ Bounded
    BY DEF PInv
  <2>2. \A w \in Range(writers) : w \in Writers
    BY <2>1, RangeOfSeq DEF Shape
  <2>3. \A w \in Range(writers) :
          w.closed \in BOOLEAN /\ w.lost \in BOOLEAN /\ w.state \in {"active", "none", "closed", "left"}
    BY <2>2 DEF Writers
  <2> QED BY <2>1, <2>3 DEF TypeOK, Shape, Bounded
<1> QED BY <1>1, PiInvariant, PTL

\* In a file that lost nothing, a record's session and turn stand above it.
THEOREM ParentsComeFirst == Spec => []ParentsFirst
<1>1. PInv => ParentsFirst
  <2> SUFFICES ASSUME PInv, NEW w \in Range(writers), ~w.lost, NEW i \in DOMAIN w.file
               PROVE  HasParents(w.file[i], {w.file[j] : j \in 1 .. i - 1})
    BY DEF ParentsFirst
  <2>1. Ordered({}, w.file)
    BY DEF PInv, Filed, InOrder, Range
  <2>2. {} \cup {w.file[j] : j \in 1 .. i - 1} = {w.file[j] : j \in 1 .. i - 1}
    OBVIOUS
  <2> QED BY <2>1, <2>2 DEF Ordered
<1> QED BY <1>1, PiInvariant, PTL

\* A rotated file has the end of its session and every message that ended in it,
\* but for those whose handlers still waited when it closed.
THEOREM NothingIsLeftOut == Spec => []NothingLeftOut
<1>1. PInv => NothingLeftOut
  <2> SUFFICES ASSUME PInv, NEW c \in Range(closing),
                      writers[c.writer].state = "closed", ~writers[c.writer].lost
               PROVE  /\ SessionRecord(c.session, TRUE) \in Range(writers[c.writer].file)
                      /\ \A n \in DOMAIN ended : (ended[n].writer = c.writer /\ n \notin c.late) =>
                           \E r \in Range(writers[c.writer].file) : r.type = "message" /\ r.message = n
    BY DEF NothingLeftOut
  <2>1. /\ c.writer \in DOMAIN writers
        /\ SessionRecord(c.session, TRUE) \in Said(writers[c.writer])
        /\ \A n \in DOMAIN ended : (ended[n].writer = c.writer /\ n \notin c.late) =>
             HasMessage(n, Said(writers[c.writer]))
    BY DEF PInv, Whole, ClosedWhole
  <2>2. writers[c.writer].queue = <<>>
    BY <2>1 DEF PInv, Filed, Rotated
  <2>3. Said(writers[c.writer]) = Range(writers[c.writer].file)
    BY <2>2, EmptyRange DEF Said
  <2> QED BY <2>1, <2>3 DEF HasMessage
<1> QED BY <1>1, PiInvariant, PTL

\* Two messages never share an id, in one load of a session or across several.
THEOREM MessagesStayApart == Spec => []MessagesApart
<1>1. PInv => MessagesApart
  <2> DEFINE Said2(w) == {r \in Range(w.queue) \cup Range(w.file) : r.type = "message"}
             all == UNION {Said2(w) : w \in Range(writers)}
  <2> SUFFICES ASSUME PInv, NEW r \in all, NEW q \in all, r.id = q.id
               PROVE  r.message = q.message
    BY DEF MessagesApart
  <2>1. \A p \in all : p \in Messages
    BY DEF Messages, Said, Range
  <2> QED BY <2>1 DEF PInv, Ids
<1> QED BY <1>1, PiInvariant, PTL

\* A message is recorded for the session and the turn it ended in.
THEOREM MessagesAreAttributed == Spec => []Attributed
<1>1. PInv => Attributed
  <2> SUFFICES ASSUME PInv, NEW w \in Range(writers), NEW r \in Range(w.queue) \cup Range(w.file),
                      r.type = "message"
               PROVE  /\ r.turn = ended[r.message].turn
                      /\ r.session = ended[r.message].session
    BY DEF Attributed
  <2>1. r \in Messages
    BY DEF Messages, Said, Range
  <2> QED BY <2>1 DEF PInv, Ids, Meant
<1> QED BY <1>1, PiInvariant, PTL

=============================================================================
