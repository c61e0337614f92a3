------------------------- MODULE SubscriptionsProofs -------------------------
(***************************************************************************)
(* Proofs about Subscriptions, for every set of days, start days and       *)
(* conversations: first the calendar (computeMonthlyPeriod), then the      *)
(* tables.                                                                 *)
(***************************************************************************)
EXTENDS Subscriptions, TLAPS

-----------------------------------------------------------------------------
(* The calendar                                                            *)

StartDays == 1 .. 31

\* Months in their order.
Number(year, month) == 12 * year + month

\* The day the period after the one of this month starts on.
NextStart(year, month, startDay) ==
  PeriodStart(After(year, month).year, After(year, month).month, startDay)

\* What the order of two days needs of them.
Fields(date) == date.year \in Nat /\ date.month \in Months /\ date.day \in 1 .. 31

\* The arithmetic of Index and Number.
LEMMA Arithmetic ==
  ASSUME NEW y1 \in Nat, NEW m1 \in 1 .. 12, NEW d1 \in 1 .. 31,
         NEW y2 \in Nat, NEW m2 \in 1 .. 12, NEW d2 \in 1 .. 31
  PROVE  /\ 12 * y1 + m1 \in Nat
         /\ 32 * (12 * y1 + m1) + d1 \in Nat
         /\ 12 * y1 + m1 < 12 * y2 + m2 => 32 * (12 * y1 + m1) + d1 < 32 * (12 * y2 + m2) + d2
OBVIOUS

\* Days are numbered in the order of their months, and within a month of their
\* days.
LEMMA IndexOrder ==
  ASSUME NEW p, NEW q, Fields(p), Fields(q)
  PROVE  /\ Index(p) \in Nat
         /\ Number(p.year, p.month) < Number(q.year, q.month) => Index(p) < Index(q)
         /\ p.year = q.year /\ p.month = q.month =>
              (Index(p) < Index(q) <=> p.day < q.day)
<1>1. Index(p) \in Nat
  BY Arithmetic DEF Fields, Index, Months
<1>2. Number(p.year, p.month) < Number(q.year, q.month) => Index(p) < Index(q)
  BY Arithmetic DEF Fields, Index, Months, Number
<1>3. p.year = q.year /\ p.month = q.month => (Index(p) < Index(q) <=> p.day < q.day)
  <2> SUFFICES ASSUME p.year = q.year, p.month = q.month
               PROVE  Index(p) < Index(q) <=> p.day < q.day
    OBVIOUS
  <2>1. Index(q) = 32 * (12 * p.year + p.month) + q.day
    BY DEF Index
  <2> DEFINE k == 12 * p.year + p.month
  <2>2. k \in Nat
    BY DEF Fields, Months
  <2>3. p.day \in 1 .. 31 /\ q.day \in 1 .. 31
    BY DEF Fields
  <2> HIDE DEF k
  <2>4. 32 * k + p.day < 32 * k + q.day <=> p.day < q.day
    BY <2>2, <2>3
  <2> QED BY <2>1, <2>4 DEF Index, k
<1> QED BY <1>1, <1>2, <1>3

\* A month has 28 to 31 days.
LEMMA MonthLengths ==
  ASSUME NEW year \in Nat, NEW month \in Months
  PROVE  DaysInMonth(year, month) \in 28 .. 31
<1>1. DaysInMonth(year, month) \in {28, 29, 30, 31}
  BY DEF DaysInMonth
<1> QED BY <1>1

\* A period starts in its month, on a day that month has.
LEMMA StartType ==
  ASSUME NEW year \in Nat, NEW month \in Months, NEW startDay \in StartDays
  PROVE  /\ PeriodStart(year, month, startDay) \in Dates
         /\ Fields(PeriodStart(year, month, startDay))
         /\ PeriodStart(year, month, startDay).year = year
         /\ PeriodStart(year, month, startDay).month = month
BY MonthLengths DEF PeriodStart, Dates, Years, StartDays, Fields

\* The month after is a month, and the next one.
LEMMA AfterNext ==
  ASSUME NEW year \in Nat, NEW month \in Months
  PROVE  /\ After(year, month).year \in Nat
         /\ After(year, month).month \in Months
         /\ Number(After(year, month).year, After(year, month).month) = Number(year, month) + 1
BY DEF After, Months, Number

\* The month before is a month, and the previous one.
LEMMA BeforePrevious ==
  ASSUME NEW year \in Nat, NEW month \in Months, year > 0
  PROVE  /\ Before(year, month).year \in Nat
         /\ Before(year, month).month \in Months
         /\ Number(Before(year, month).year, Before(year, month).month) = Number(year, month) - 1
BY DEF Before, Months, Number

\* Months are told apart by their numbers.
LEMMA NumberApart ==
  ASSUME NEW y1 \in Nat, NEW m1 \in Months, NEW y2 \in Nat, NEW m2 \in Months,
         Number(y1, m1) = Number(y2, m2)
  PROVE  y1 = y2 /\ m1 = m2
BY DEF Months, Number

\* Of two months' periods the later month's starts later.
LEMMA StartsInOrder ==
  ASSUME NEW startDay \in StartDays,
         NEW y1 \in Nat, NEW m1 \in Months, NEW y2 \in Nat, NEW m2 \in Months,
         Number(y1, m1) < Number(y2, m2)
  PROVE  Index(PeriodStart(y1, m1, startDay)) < Index(PeriodStart(y2, m2, startDay))
BY StartType, IndexOrder

\* The period of a month starts before the next one.
LEMMA StartBeforeNext ==
  ASSUME NEW startDay \in StartDays, NEW year \in Nat, NEW month \in Months
  PROVE  Index(PeriodStart(year, month, startDay)) < Index(NextStart(year, month, startDay))
<1>0. Number(year, month) \in Nat
  BY DEF Number, Months
<1>1. Number(year, month) < Number(After(year, month).year, After(year, month).month)
  BY <1>0, AfterNext
<1> QED BY <1>1, AfterNext, StartsInOrder DEF NextStart

\* Two different months' periods share no day.
LEMMA PeriodsApart ==
  ASSUME NEW startDay \in StartDays,
         NEW y1 \in Nat, NEW m1 \in Months, NEW y2 \in Nat, NEW m2 \in Months,
         Number(y1, m1) < Number(y2, m2)
  PROVE  Index(NextStart(y1, m1, startDay)) <= Index(PeriodStart(y2, m2, startDay))
<1> DEFINE y == After(y1, m1).year
           m == After(y1, m1).month
<1>1. y \in Nat /\ m \in Months /\ Number(y, m) = Number(y1, m1) + 1
  BY AfterNext
<1>0. Number(y1, m1) \in Int /\ Number(y2, m2) \in Int
  BY DEF Number, Months
<1> HIDE DEF y, m
<1>2. CASE Number(y, m) = Number(y2, m2)
  <2>1. y = y2 /\ m = m2
    BY <1>1, <1>2, NumberApart
  <2>2. Index(PeriodStart(y2, m2, startDay)) \in Nat
    BY StartType, IndexOrder
  <2> QED BY <2>1, <2>2 DEF NextStart, y, m
<1>3. CASE Number(y, m) < Number(y2, m2)
  <2>1. Index(PeriodStart(y, m, startDay)) < Index(PeriodStart(y2, m2, startDay))
    BY <1>1, <1>3, StartsInOrder
  <2>2. Index(PeriodStart(y2, m2, startDay)) \in Nat /\ Index(PeriodStart(y, m, startDay)) \in Nat
    BY <1>1, StartType, IndexOrder
  <2> QED BY <2>1, <2>2 DEF NextStart, y, m
<1> QED BY <1>0, <1>1, <1>2, <1>3

\* The current period is one month's, and covers the day it is computed on, for
\* every day and start day (periods.ts computeMonthlyPeriod).
THEOREM PeriodCovers ==
  ASSUME NEW now \in Dates, now.year > 0, NEW startDay \in StartDays
  PROVE  \E year \in Nat, month \in Months :
           /\ MonthlyPeriod(now, startDay).from = PeriodStart(year, month, startDay)
           /\ MonthlyPeriod(now, startDay).to = NextStart(year, month, startDay)
           /\ Index(PeriodStart(year, month, startDay)) <= Index(now)
           /\ Index(now) < Index(NextStart(year, month, startDay))
<1> DEFINE s == StartMonth(now, startDay)
<1>1. Fields(now)
  BY DEF Dates, Years, Fields
<1>0. now.year \in Nat /\ now.month \in Months /\ Number(now.year, now.month) \in Nat
  BY <1>1 DEF Fields, Number, Months
<1>2. /\ MonthlyPeriod(now, startDay).from = PeriodStart(s.year, s.month, startDay)
      /\ MonthlyPeriod(now, startDay).to = NextStart(s.year, s.month, startDay)
  BY DEF MonthlyPeriod, NextStart
<1>3. CASE now.day >= PeriodStart(now.year, now.month, startDay).day
  <2>1. s.year = now.year /\ s.month = now.month
    BY <1>3 DEF StartMonth
  <2>2. Index(PeriodStart(now.year, now.month, startDay)) <= Index(now)
    <3> DEFINE p == PeriodStart(now.year, now.month, startDay)
    <3>1. p.year = now.year /\ p.month = now.month /\ Fields(p)
      BY <1>0, StartType
    <3>2. p.day \in 1 .. 31 /\ now.day \in 1 .. 31 /\ p.day <= now.day
      BY <1>1, <1>3, <3>1 DEF Fields
    <3> HIDE DEF p
    <3>3. Index(p) \in Nat /\ Index(now) \in Nat /\ ~ (Index(now) < Index(p))
      BY <1>1, <3>1, <3>2, IndexOrder
    <3>4. Index(p) <= Index(now)
      BY <3>3
    <3> QED BY <3>4 DEF p
  <2>3. Index(now) < Index(NextStart(now.year, now.month, startDay))
    <3> DEFINE a == After(now.year, now.month)
               n == PeriodStart(a.year, a.month, startDay)
    <3>1. /\ a.year \in Nat /\ a.month \in Months
          /\ Number(a.year, a.month) = Number(now.year, now.month) + 1
      BY <1>0, AfterNext
    <3>2. n.year = a.year /\ n.month = a.month /\ Fields(n)
      BY <3>1, StartType
    <3> HIDE DEF n, a
    <3>3. Index(now) < Index(n)
      BY <1>0, <1>1, <3>1, <3>2, IndexOrder
    <3> QED BY <3>3 DEF NextStart, n, a
  <2> QED BY <1>0, <1>2, <2>1, <2>2, <2>3
<1>4. CASE now.day < PeriodStart(now.year, now.month, startDay).day
  <2> DEFINE b == Before(now.year, now.month)
  <2>1. /\ b.year \in Nat /\ b.month \in Months
        /\ Number(b.year, b.month) = Number(now.year, now.month) - 1
    BY <1>0, BeforePrevious
  <2>2. s = b
    BY <1>0, <1>1, <1>4, StartType DEF StartMonth, Fields
  <2>3. Index(PeriodStart(b.year, b.month, startDay)) <= Index(now)
    <3> DEFINE p == PeriodStart(b.year, b.month, startDay)
    <3>1. p.year = b.year /\ p.month = b.month /\ Fields(p)
      BY <2>1, StartType
    <3> HIDE DEF p, b
    <3>2. Index(p) <= Index(now)
      BY <1>0, <1>1, <2>1, <3>1, IndexOrder
    <3> QED BY <3>2 DEF p, b
  <2>4. Index(now) < Index(NextStart(b.year, b.month, startDay))
    <3> DEFINE a == After(b.year, b.month)
    <3>1. a.year = now.year /\ a.month = now.month
      <4>1. a.year \in Nat /\ a.month \in Months /\ Number(a.year, a.month) = Number(b.year, b.month) + 1
        BY <2>1, AfterNext
      <4>2. Number(a.year, a.month) = Number(now.year, now.month)
        BY <1>0, <2>1, <4>1
      <4> QED BY <1>0, <4>1, <4>2, NumberApart
    <3>2. Index(now) < Index(PeriodStart(now.year, now.month, startDay))
      BY <1>0, <1>1, <1>4, StartType, IndexOrder DEF Fields
    <3> QED BY <3>1, <3>2 DEF NextStart
  <2> QED BY <1>2, <2>1, <2>2, <2>3, <2>4
<1> QED BY <1>0, <1>1, <1>3, <1>4, StartType DEF Fields

-----------------------------------------------------------------------------
(* The shape of a step: what it may add to the rows, the states and the     *)
(* messages                                                                *)

StartDay == ValidStartDay(config)

\* A start day that passes the check of the configuration is one a month may
\* have.
LEMMA ValidDays ==
  ASSUME NEW x \in Int
  PROVE  ValidStartDay(x) \in StartDays
BY DEF ValidStartDay, StartDays

\* The current period is a month's, and today is in it.
LEMMA CurrentCovers ==
  ASSUME TypeOK, config # None
  PROVE  /\ Current.from \in Dates /\ Current.to \in Dates
         /\ StartDay \in StartDays
         /\ \E year \in Nat, month \in Months :
              /\ Current.from = PeriodStart(year, month, StartDay)
              /\ Current.to = NextStart(year, month, StartDay)
         /\ Index(Current.from) <= Index(today)
         /\ Index(today) < Index(Current.to)
<1>1. today \in Dates /\ today.year > 0
  BY DaysAssumption DEF TypeOK
<1>2. config \in Int
  BY ConfigsAssumption DEF TypeOK
<1>3. StartDay \in StartDays
  BY <1>2, ValidDays DEF StartDay
<1>4. PICK year \in Nat, month \in Months :
        /\ Current.from = PeriodStart(year, month, StartDay)
        /\ Current.to = NextStart(year, month, StartDay)
        /\ Index(PeriodStart(year, month, StartDay)) <= Index(today)
        /\ Index(today) < Index(NextStart(year, month, StartDay))
  BY <1>1, <1>3, PeriodCovers DEF Current, StartDay
<1>5. PeriodStart(year, month, StartDay) \in Dates /\ NextStart(year, month, StartDay) \in Dates
  BY <1>3, AfterNext, StartType DEF NextStart
<1> QED BY <1>3, <1>4, <1>5

\* What a conversation may be given as its subscription: none, its state's, or
\* the current period, recorded in the same step.
Given(c, id) ==
  \/ id = None
  \/ state[c] # None /\ id = state[c].sub
  \/ config # None /\ id = Current.from /\ RecordPeriod

\* One conversation's part of a step.
Moves(c) ==
  /\ begun'[c] = begun[c] \/ (begun[c] = None /\ begun'[c] = today)
  /\ \/ state'[c] = state[c]
     \/ state'[c] = None
     \/ state'[c] # None /\ state[c] # None /\ state'[c].sub = state[c].sub
     \/ state'[c] # None /\ begun'[c] # None /\ Given(c, state'[c].sub)
  /\ \A i \in DOMAIN messages'[c] :
       \/ /\ i \in DOMAIN messages[c]
          /\ messages'[c][i].on = messages[c][i].on
          /\ \/ messages'[c][i].link = messages[c][i].link
             \/ Given(c, messages'[c][i].link)
       \/ /\ messages'[c][i].on = today /\ begun'[c] # None
          /\ Given(c, messages'[c][i].link)

\* A step as far as the periods are concerned.
Step ==
  /\ harness' = harness
  /\ rows' = rows \/ RecordPeriod
  /\ edits' # 0 \/ (edits' = edits /\ config' = config)
  /\ today' = today \/ Index(today) < Index(today')
  /\ \A c \in Conversations : Moves(c)

\* The linked messages of a conversation.
LEMMA LinkFacts ==
  ASSUME NEW list, NEW from, NEW id
  PROVE  /\ DOMAIN Link(list, from, id) = DOMAIN list
         /\ \A i \in DOMAIN list :
              \/ Link(list, from, id)[i] = list[i]
              \/ Link(list, from, id)[i] = [on |-> list[i].on, link |-> id, covered |-> id # None]
BY DEF Link

\* Messages upserted with what a conversation may be given keep their days.
LEMMA LinkMoves ==
  ASSUME TypeOK, NEW c \in Conversations, NEW from, NEW id, Given(c, id),
         messages' = [messages EXCEPT ![c] = Link(@, from, id)]
  PROVE  \A e \in Conversations : \A i \in DOMAIN messages'[e] :
           /\ i \in DOMAIN messages[e]
           /\ messages'[e][i].on = messages[e][i].on
           /\ \/ messages'[e][i].link = messages[e][i].link
              \/ Given(e, messages'[e][i].link)
<1> TAKE e \in Conversations
<1>1. CASE e = c
  <2>1. messages'[e] = Link(messages[c], from, id)
    BY <1>1 DEF TypeOK
  <2> DEFINE new == Link(messages[c], from, id)
  <2>2. /\ DOMAIN new = DOMAIN messages[c]
        /\ \A i \in DOMAIN messages[c] :
             \/ new[i] = messages[c][i]
             \/ new[i] = [on |-> messages[c][i].on, link |-> id, covered |-> id # None]
    BY LinkFacts
  <2> HIDE DEF new
  <2>3. SUFFICES ASSUME NEW i \in DOMAIN new
                 PROVE  /\ i \in DOMAIN messages[c]
                        /\ new[i].on = messages[c][i].on
                        /\ \/ new[i].link = messages[c][i].link
                           \/ Given(c, new[i].link)
    BY <1>1, <2>1 DEF new, Given
  <2>4. CASE new[i] = messages[c][i]
    BY <2>2, <2>4
  <2>5. CASE new[i] = [on |-> messages[c][i].on, link |-> id, covered |-> id # None]
    <3>1. new[i].on = messages[c][i].on /\ new[i].link = id
      BY <2>5
    <3> QED BY <2>2, <3>1 DEF Given
  <2> QED BY <2>2, <2>4, <2>5
<1>2. CASE e # c
  <2>1. messages'[e] = messages[e]
    BY <1>2 DEF TypeOK
  <2> QED BY <2>1
<1> QED BY <1>1, <1>2

\* A backfill gives the messages the current period.
LEMMA BackfillMoves ==
  ASSUME TypeOK, NEW c \in Conversations, harness = "cursor", Backfill(c)
  PROVE  \A e \in Conversations : \A i \in DOMAIN messages'[e] :
           /\ i \in DOMAIN messages[e]
           /\ messages'[e][i].on = messages[e][i].on
           /\ \/ messages'[e][i].link = messages[e][i].link
              \/ Given(e, messages'[e][i].link)
<1>1. CASE messages' = messages
  BY <1>1
<1>2. CASE /\ RecordPeriod
           /\ messages' = [messages EXCEPT ![c] = Link(messages[c], 0, CurrentId)]
  <2>1. Given(c, CurrentId)
    BY <1>2 DEF Given, CurrentId
  <2> QED BY <1>2, <2>1, LinkMoves
<1> QED BY <1>1, <1>2 DEF Backfill

\* The number of a day.
LEMMA DayIndex ==
  ASSUME NEW date \in Dates
  PROVE  Index(date) \in Nat
<1>1. Fields(date)
  BY DEF Dates, Years, Fields
<1> QED BY <1>1, IndexOrder

\* None is neither a day nor a state.
LEMMA NoneApart ==
  /\ None \notin Dates
  /\ None \notin States
  /\ Days \subseteq Dates
BY NoneAssumption, DaysAssumption

\* The first day of a conversation is set once.
LEMMA BeginFacts ==
  ASSUME TypeOK, NEW c \in Conversations, Begin(c)
  PROVE  /\ begun'[c] # None
         /\ \A e \in Conversations :
              begun'[e] = begun[e] \/ (begun[e] = None /\ begun'[e] = today)
<1>1. today # None
  BY NoneApart DEF TypeOK
<1>2. begun' = [begun EXCEPT ![c] = IF begun[c] = None THEN today ELSE begun[c]]
  BY DEF Begin
<1> QED BY <1>1, <1>2 DEF TypeOK

\* Every step has that shape.
LEMMA StepShape ==
  ASSUME TypeOK, [Next]_vars
  PROVE  Step
<1>1. ASSUME NEW c \in Conversations, SessionStart(c)
      PROVE  Step
  <2>1. /\ UNCHANGED <<harness, today, config, edits, messages>>
        /\ RecordPeriod
        /\ Begin(c)
    BY <1>1 DEF SessionStart
  <2>2. ASSUME NEW e \in Conversations
        PROVE  Moves(e)
    <3>1. CASE e = c
      <4>1. state'[c] = [sub |-> CurrentId, read |-> 0]
        BY <1>1 DEF SessionStart, TypeOK
      <4>2. CurrentId \in Dates \cup {None}
        BY CurrentCovers DEF CurrentId
      <4>3. state'[c] \in States /\ state'[c].sub = CurrentId
        BY <4>1, <4>2 DEF States
      <4>4. Given(c, CurrentId)
        BY <2>1 DEF Given, CurrentId
      <4> QED BY <2>1, <3>1, <4>3, <4>4, BeginFacts, NoneApart DEF Moves
    <3>2. CASE e # c
      <4>1. state'[e] = state[e]
        BY <1>1, <3>2 DEF SessionStart, TypeOK
      <4> QED BY <2>1, <4>1, BeginFacts DEF Moves
    <3> QED BY <3>1, <3>2
  <2> QED BY <2>1, <2>2 DEF Step
<1>2. ASSUME NEW c \in Conversations, SessionStartDies(c)
      PROVE  Step
  <2>1. /\ UNCHANGED <<harness, today, config, edits, state, messages>>
        /\ RecordPeriod
        /\ Begin(c)
    BY <1>2 DEF SessionStartDies
  <2>2. \A e \in Conversations : Moves(e)
    BY <2>1, BeginFacts DEF Moves
  <2> QED BY <2>1, <2>2 DEF Step
<1>3. ASSUME NEW c \in Conversations, Prompt(c)
      PROVE  Step
  <2>1. /\ UNCHANGED <<harness, today, config, edits, rows, messages>>
        /\ Begin(c)
        /\ state' = [state EXCEPT ![c] = Fresh]
    BY <1>3 DEF Prompt
  <2>2. Fresh \in States /\ Fresh.sub = None
    BY DEF Fresh, States
  <2>3. ASSUME NEW e \in Conversations
        PROVE  Moves(e)
    <3>1. CASE e = c
      <4>1. state'[c] \in States /\ state'[c].sub = None
        BY <2>1, <2>2 DEF TypeOK
      <4>2. Given(c, None)
        BY DEF Given
      <4> QED BY <2>1, <3>1, <4>1, <4>2, BeginFacts, NoneApart DEF Moves
    <3>2. CASE e # c
      <4>1. state'[e] = state[e]
        BY <2>1, <3>2 DEF TypeOK
      <4> QED BY <2>1, <4>1, BeginFacts DEF Moves
    <3> QED BY <3>1, <3>2
  <2> QED BY <2>1, <2>3 DEF Step
<1>4. ASSUME NEW c \in Conversations, Answer(c)
      PROVE  Step
  <2>1. /\ UNCHANGED <<harness, today, config, edits, rows, state>>
        /\ Begin(c)
    BY <1>4 DEF Answer
  <2>2. PICK id \in {None} \cup (IF harness = "cursor" /\ state[c] # None THEN {state[c].sub} ELSE {}) :
          messages' = [messages EXCEPT ![c] = Append(messages[c], [on |-> today, link |-> id, covered |-> FALSE])]
    BY <1>4 DEF Answer
  <2>3. Given(c, id)
    BY <2>2 DEF Given
  <2>4. messages[c] \in Seq([on : Days, link : Dates \cup {None}, covered : BOOLEAN])
    BY DEF TypeOK
  <2>5. ASSUME NEW e \in Conversations
        PROVE  Moves(e)
    <3>1. CASE e = c
      <4> DEFINE m == [on |-> today, link |-> id, covered |-> FALSE]
      <4>1. messages'[c] = Append(messages[c], m)
        BY <2>2 DEF TypeOK
      <4>2. m.on = today /\ m.link = id
        OBVIOUS
      <4> HIDE DEF m
      <4>3. \A i \in DOMAIN messages'[c] :
              \/ i \in DOMAIN messages[c] /\ messages'[c][i] = messages[c][i]
              \/ messages'[c][i] = m
        BY <2>4, <4>1
      <4>4. \A i \in DOMAIN messages'[c] :
              \/ /\ i \in DOMAIN messages[c]
                 /\ messages'[c][i].on = messages[c][i].on
                 /\ messages'[c][i].link = messages[c][i].link
              \/ /\ messages'[c][i].on = today
                 /\ Given(c, messages'[c][i].link)
        BY <2>3, <4>2, <4>3
      <4> QED BY <2>1, <3>1, <4>4, BeginFacts DEF Moves
    <3>2. CASE e # c
      <4>1. messages'[e] = messages[e]
        BY <2>2, <3>2 DEF TypeOK
      <4> QED BY <2>1, <4>1, BeginFacts DEF Moves
    <3> QED BY <3>1, <3>2
  <2> QED BY <2>1, <2>5 DEF Step
<1>5. ASSUME NEW c \in Conversations, Stop(c)
      PROVE  Step
  <2>1. /\ UNCHANGED <<harness, today, config, edits, begun>>
        /\ state[c] \in States
    BY <1>5 DEF Stop, TypeOK
  <2>2. CASE /\ Drain(c, state[c])
             /\ state' = [state EXCEPT ![c].read = Len(messages[c])]
             /\ UNCHANGED rows
    <3>1. PICK from \in {0, state[c].read} :
            messages' = [messages EXCEPT ![c] = Link(messages[c], from, state[c].sub)]
      BY <2>2 DEF Drain
    <3>2. Given(c, state[c].sub)
      BY <2>1, NoneApart DEF Given
    <3>3. \A e \in Conversations : \A i \in DOMAIN messages'[e] :
            /\ i \in DOMAIN messages[e]
            /\ messages'[e][i].on = messages[e][i].on
            /\ \/ messages'[e][i].link = messages[e][i].link
               \/ Given(e, messages'[e][i].link)
      BY <3>1, <3>2, LinkMoves
    <3>4. ASSUME NEW e \in Conversations
          PROVE  state'[e] = state[e] \/ (state'[e] # None /\ state[e] # None /\ state'[e].sub = state[e].sub)
      <4>1. CASE e = c
        <5>1. state'[c] = [state[c] EXCEPT !.read = Len(messages[c])]
          BY <2>2 DEF TypeOK
        <5>2. Len(messages[c]) \in Nat
          BY DEF TypeOK
        <5>3. state'[c] \in States /\ state'[c].sub = state[c].sub
          BY <2>1, <5>1, <5>2 DEF States
        <5> QED BY <2>1, <4>1, <5>3, NoneApart
      <4>2. CASE e # c
        BY <2>2, <4>2 DEF TypeOK
      <4> QED BY <4>1, <4>2
    <3>5. \A e \in Conversations : Moves(e)
      BY <2>1, <3>3, <3>4 DEF Moves
    <3> QED BY <2>1, <2>2, <3>5 DEF Step
  <2>3. CASE harness = "cursor" /\ Backfill(c) /\ UNCHANGED state
    <3>1. rows' = rows \/ RecordPeriod
      BY <2>3 DEF Backfill
    <3>2. \A e \in Conversations : \A i \in DOMAIN messages'[e] :
            /\ i \in DOMAIN messages[e]
            /\ messages'[e][i].on = messages[e][i].on
            /\ \/ messages'[e][i].link = messages[e][i].link
               \/ Given(e, messages'[e][i].link)
      BY <2>3, BackfillMoves
    <3>3. \A e \in Conversations : Moves(e)
      BY <2>1, <2>3, <3>2 DEF Moves
    <3> QED BY <2>1, <3>1, <3>3 DEF Step
  <2> QED BY <1>5, <2>2, <2>3 DEF Stop
<1>6. ASSUME NEW c \in Conversations, SessionEnd(c)
      PROVE  Step
  <2>1. /\ UNCHANGED <<harness, today, config, edits>>
        /\ Begin(c)
    BY <1>6 DEF SessionEnd
  <2>2. \A e \in Conversations : state'[e] = state[e] \/ state'[e] = None
    BY <1>6 DEF SessionEnd, TypeOK
  <2>3. /\ rows' = rows \/ RecordPeriod
        /\ \A e \in Conversations : \A i \in DOMAIN messages'[e] :
             /\ i \in DOMAIN messages[e]
             /\ messages'[e][i].on = messages[e][i].on
             /\ \/ messages'[e][i].link = messages[e][i].link
                \/ Given(e, messages'[e][i].link)
    <3>1. CASE Drain(c, IF state[c] = None THEN Fresh ELSE state[c]) /\ UNCHANGED rows
      <4> DEFINE found == IF state[c] = None THEN Fresh ELSE state[c]
      <4>1. PICK from \in {0, found.read} :
              messages' = [messages EXCEPT ![c] = Link(messages[c], from, found.sub)]
        BY <3>1 DEF Drain
      <4>2. Given(c, found.sub)
        BY DEF Given, Fresh
      <4> HIDE DEF found
      <4> QED BY <3>1, <4>1, <4>2, LinkMoves
    <3>2. CASE harness = "cursor" /\ Backfill(c)
      <4>1. rows' = rows \/ RecordPeriod
        BY <3>2 DEF Backfill
      <4> QED BY <3>2, <4>1, BackfillMoves
    <3> QED BY <1>6, <3>1, <3>2 DEF SessionEnd
  <2>4. \A e \in Conversations : Moves(e)
    BY <2>1, <2>2, <2>3, BeginFacts DEF Moves
  <2> QED BY <2>1, <2>3, <2>4 DEF Step
<1>7. ASSUME EditConfig
      PROVE  Step
  <2>1. edits' # 0
    BY <1>7, BoundsAssumption DEF EditConfig, TypeOK
  <2>2. \A e \in Conversations : Moves(e)
    BY <1>7 DEF EditConfig, Moves
  <2> QED BY <1>7, <2>1, <2>2 DEF EditConfig, Step
<1>8. ASSUME Later
      PROVE  Step
  <2>1. Index(today) < Index(today')
    <3>1. PICK d \in Days : Index(d) > Index(today) /\ today' = d
      BY <1>8 DEF Later
    <3>2. Index(d) \in Nat /\ Index(today) \in Nat
      BY DayIndex, NoneApart DEF TypeOK
    <3> QED BY <3>1, <3>2
  <2>2. \A e \in Conversations : Moves(e)
    BY <1>8 DEF Later, Moves
  <2> QED BY <1>8, <2>1, <2>2 DEF Later, Step
<1>9. ASSUME UNCHANGED vars
      PROVE  Step
  BY <1>9 DEF vars, Step, Moves
<1> QED BY <1>1, <1>2, <1>3, <1>4, <1>5, <1>6, <1>7, <1>8, <1>9 DEF Next

-----------------------------------------------------------------------------
(* Types                                                                   *)

\* Recording the current period keeps what is there, and adds or rewrites one
\* row.
LEMMA RecordFacts ==
  ASSUME TypeOK, RecordPeriod
  PROVE  /\ DOMAIN rows' \subseteq Dates
         /\ rows' \in [DOMAIN rows' -> Dates]
         /\ DOMAIN rows \subseteq DOMAIN rows'
         /\ config # None => /\ Current.from \in DOMAIN rows'
                             /\ rows'[Current.from] = Current.to
         /\ \A k \in DOMAIN rows' :
              \/ k \in DOMAIN rows /\ rows'[k] = rows[k]
              \/ /\ config # None
                 /\ k = Current.from
                 /\ rows'[k] = Current.to
<1>1. CASE config = None
  <2>1. rows' = rows
    BY <1>1 DEF RecordPeriod
  <2> QED BY <1>1, <2>1 DEF TypeOK
<1>2. CASE config # None
  <2> DEFINE key == Current.from
             new == [k \in DOMAIN rows \cup {key} |-> IF k = key THEN Current.to ELSE rows[k]]
  <2>1. rows' = new
    BY <1>2 DEF RecordPeriod
  <2>2. key \in Dates /\ Current.to \in Dates
    BY <1>2, CurrentCovers
  <2>3. DOMAIN rows \subseteq Dates /\ rows \in [DOMAIN rows -> Dates]
    BY DEF TypeOK
  <2>4. /\ DOMAIN new = DOMAIN rows \cup {key}
        /\ \A k \in DOMAIN new :
             \/ k \in DOMAIN rows /\ new[k] = rows[k]
             \/ k = key /\ new[k] = Current.to
        /\ new[key] = Current.to
    OBVIOUS
  <2>5. new \in [DOMAIN new -> Dates]
    <3> HIDE DEF key
    <3> QED BY <2>2, <2>3
  <2> HIDE DEF key, new
  <2>6. /\ DOMAIN new \subseteq Dates /\ DOMAIN rows \subseteq DOMAIN new /\ key \in DOMAIN new
    BY <2>2, <2>3, <2>4
  <2> QED BY <1>2, <2>1, <2>4, <2>5, <2>6 DEF key
<1> QED BY <1>1, <1>2

\* What a conversation may be given is a day or None.
LEMMA GivenType ==
  ASSUME TypeOK, NEW c \in Conversations, NEW id, Given(c, id)
  PROVE  id \in Dates \cup {None}
<1>1. state[c] # None => state[c].sub \in Dates \cup {None}
  BY DEF TypeOK, States
<1>2. config # None => Current.from \in Dates
  BY CurrentCovers
<1> QED BY <1>1, <1>2 DEF Given

\* Upserted messages are messages.
LEMMA LinkType ==
  ASSUME NEW list \in Seq([on : Days, link : Dates \cup {None}, covered : BOOLEAN]),
         NEW from, NEW id \in Dates \cup {None}
  PROVE  Link(list, from, id) \in Seq([on : Days, link : Dates \cup {None}, covered : BOOLEAN])
<1> DEFINE M == [on : Days, link : Dates \cup {None}, covered : BOOLEAN]
           new == Link(list, from, id)
<1>1. DOMAIN list = 1 .. Len(list) /\ Len(list) \in Nat
  OBVIOUS
<1>0. list \in Seq(M)
  OBVIOUS
<1>2. \A i \in 1 .. Len(list) : list[i] \in M
  <2> HIDE DEF M
  <2> QED BY <1>0
<1>3. new = [i \in 1 .. Len(list) |->
               IF i > from THEN [on |-> list[i].on, link |-> id, covered |-> id # None] ELSE list[i]]
  BY <1>1 DEF Link
<1>4. \A i \in 1 .. Len(list) : [on |-> list[i].on, link |-> id, covered |-> id # None] \in M
  BY <1>2
<1> HIDE DEF M, new
<1>5. new \in [1 .. Len(list) -> M]
  BY <1>2, <1>3, <1>4
<1>6. new \in Seq(M)
  BY <1>1, <1>5
<1> QED BY <1>6 DEF M, new

\* The types hold in the initial states.
LEMMA InitTypes == Init => TypeOK
<1> SUFFICES ASSUME Init PROVE TypeOK
  OBVIOUS
<1>1. DOMAIN rows = {} /\ rows \in [{} -> Dates]
  BY DEF Init
<1> QED BY <1>1, BoundsAssumption DEF Init, TypeOK

\* The types are kept by the steps.
LEMMA NextTypes == TypeOK /\ [Next]_vars => TypeOK'
<1> SUFFICES ASSUME TypeOK, [Next]_vars PROVE TypeOK'
  OBVIOUS
<1> DEFINE Messages == [on : Days, link : Dates \cup {None}, covered : BOOLEAN]
           RowsType == DOMAIN rows \subseteq Dates /\ rows \in [DOMAIN rows -> Dates]
<1>0. /\ harness \in Harnesses
      /\ today \in Days /\ config \in Configs \cup {None} /\ edits \in 0 .. MaxEdits
      /\ RowsType
      /\ begun \in [Conversations -> Days \cup {None}]
      /\ state \in [Conversations -> States \cup {None}]
      /\ messages \in [Conversations -> Seq(Messages)]
  BY DEF TypeOK
<1>a. ASSUME NEW c \in Conversations, Begin(c)
      PROVE  begun' \in [Conversations -> Days \cup {None}]
  BY <1>0, <1>a DEF Begin
<1>b. ASSUME RecordPeriod
      PROVE  RowsType'
  BY <1>0, <1>b, RecordFacts
<1>c. ASSUME NEW c \in Conversations, NEW from, NEW id \in Dates \cup {None},
             messages' = [messages EXCEPT ![c] = Link(messages[c], from, id)]
      PROVE  messages' \in [Conversations -> Seq(Messages)]
  BY <1>0, <1>c, LinkType
<1>d. CurrentId \in Dates \cup {None}
  BY CurrentCovers DEF CurrentId
<1>e. ASSUME NEW c \in Conversations, harness = "cursor", Backfill(c)
      PROVE  RowsType' /\ messages' \in [Conversations -> Seq(Messages)]
  <2>1. CASE UNCHANGED <<rows, messages>>
    BY <1>0, <2>1
  <2>2. CASE /\ RecordPeriod
             /\ messages' = [messages EXCEPT ![c] = Link(messages[c], 0, CurrentId)]
    BY <1>b, <1>c, <1>d, <2>2
  <2> QED BY <1>e, <2>1, <2>2 DEF Backfill
<1>f. ASSUME NEW c \in Conversations, NEW found \in States, Drain(c, found)
      PROVE  messages' \in [Conversations -> Seq(Messages)]
  <2>1. found.sub \in Dates \cup {None}
    BY DEF States
  <2> QED BY <1>c, <1>f, <2>1 DEF Drain
<1>1. ASSUME NEW c \in Conversations, SessionStart(c)
      PROVE  TypeOK'
  <2>1. [sub |-> CurrentId, read |-> 0] \in States
    BY <1>d DEF States
  <2>2. state' \in [Conversations -> States \cup {None}]
    BY <1>0, <1>1, <2>1 DEF SessionStart
  <2> QED BY <1>0, <1>1, <1>a, <1>b, <2>2 DEF SessionStart, TypeOK
<1>2. ASSUME NEW c \in Conversations, SessionStartDies(c)
      PROVE  TypeOK'
  BY <1>0, <1>2, <1>a, <1>b DEF SessionStartDies, TypeOK
<1>3. ASSUME NEW c \in Conversations, Prompt(c)
      PROVE  TypeOK'
  <2>1. Fresh \in States
    BY DEF Fresh, States
  <2>2. state' \in [Conversations -> States \cup {None}]
    BY <1>0, <1>3, <2>1 DEF Prompt
  <2> QED BY <1>0, <1>3, <1>a, <2>2 DEF Prompt, TypeOK
<1>4. ASSUME NEW c \in Conversations, Answer(c)
      PROVE  TypeOK'
  <2>1. PICK id \in {None} \cup (IF harness = "cursor" /\ state[c] # None THEN {state[c].sub} ELSE {}) :
          messages' = [messages EXCEPT ![c] = Append(messages[c], [on |-> today, link |-> id, covered |-> FALSE])]
    BY <1>4 DEF Answer
  <2>2. id \in Dates \cup {None}
    BY <1>0, <2>1 DEF States
  <2>3. [on |-> today, link |-> id, covered |-> FALSE] \in Messages
    BY <1>0, <2>2
  <2> HIDE DEF Messages
  <2>4. messages' \in [Conversations -> Seq(Messages)]
    BY <1>0, <2>1, <2>3
  <2> QED BY <1>0, <1>4, <1>a, <2>4 DEF Answer, TypeOK, Messages
<1>5. ASSUME NEW c \in Conversations, Stop(c)
      PROVE  TypeOK'
  <2>1. CASE /\ Drain(c, state[c])
             /\ state' = [state EXCEPT ![c].read = Len(messages[c])]
             /\ UNCHANGED rows
    <3>1. state[c] \in States
      BY <1>0, <1>5 DEF Stop
    <3>2. Len(messages[c]) \in Nat
      BY <1>0
    <3>3. [state[c] EXCEPT !.read = Len(messages[c])] \in States
      BY <3>1, <3>2 DEF States
    <3>4. state' \in [Conversations -> States \cup {None}]
      BY <1>0, <2>1, <3>3
    <3> QED BY <1>0, <1>5, <1>f, <2>1, <3>1, <3>4 DEF Stop, TypeOK
  <2>2. CASE harness = "cursor" /\ Backfill(c) /\ UNCHANGED state
    BY <1>0, <1>5, <1>e, <2>2 DEF Stop, TypeOK
  <2> QED BY <1>5, <2>1, <2>2 DEF Stop
<1>6. ASSUME NEW c \in Conversations, SessionEnd(c)
      PROVE  TypeOK'
  <2>1. state' \in [Conversations -> States \cup {None}]
    BY <1>0, <1>6 DEF SessionEnd
  <2>2. RowsType' /\ messages' \in [Conversations -> Seq(Messages)]
    <3>1. (IF state[c] = None THEN Fresh ELSE state[c]) \in States
      BY <1>0 DEF Fresh, States
    <3>2. CASE Drain(c, IF state[c] = None THEN Fresh ELSE state[c]) /\ UNCHANGED rows
      BY <1>0, <1>f, <3>1, <3>2
    <3>3. CASE harness = "cursor" /\ Backfill(c)
      BY <1>e, <3>3
    <3> QED BY <1>6, <3>2, <3>3 DEF SessionEnd
  <2> QED BY <1>0, <1>6, <1>a, <2>1, <2>2 DEF SessionEnd, TypeOK
<1>7. ASSUME EditConfig
      PROVE  TypeOK'
  <2>1. edits' \in 0 .. MaxEdits
    BY <1>0, <1>7, BoundsAssumption DEF EditConfig
  <2> QED BY <1>0, <1>7, <2>1 DEF EditConfig, TypeOK
<1>8. ASSUME Later
      PROVE  TypeOK'
  BY <1>0, <1>8 DEF Later, TypeOK
<1>9. CASE UNCHANGED vars
  BY <1>0, <1>9 DEF vars, TypeOK
<1> QED BY <1>1, <1>2, <1>3, <1>4, <1>5, <1>6, <1>7, <1>8, <1>9 DEF Next

\* Every variable keeps to its type (Subscriptions!TypeOK).
THEOREM TypesHold == Spec => []TypeOK
BY InitTypes, NextTypes, PTL DEF Spec

-----------------------------------------------------------------------------
(* The rows                                                                *)

\* Until the configuration is edited, every row is a month's period.
Monthly ==
  edits = 0 =>
    \A k \in DOMAIN rows :
      /\ config # None
      /\ \E year \in Nat, month \in Months :
           /\ k = PeriodStart(year, month, StartDay)
           /\ rows[k] = NextStart(year, month, StartDay)

\* A step keeps the rows, and leaves them as they were until an edit.
LEMMA RowsKept ==
  ASSUME TypeOK, Monthly, Step
  PROVE  /\ DOMAIN rows \subseteq DOMAIN rows'
         /\ edits' = 0 => \A k \in DOMAIN rows : rows'[k] = rows[k]
<1>1. CASE rows' = rows
  BY <1>1
<1>2. ASSUME RecordPeriod
      PROVE  /\ DOMAIN rows \subseteq DOMAIN rows'
             /\ edits' = 0 => \A k \in DOMAIN rows : rows'[k] = rows[k]
  <2>2. DOMAIN rows \subseteq DOMAIN rows'
    BY <1>2, RecordFacts
  <2>3. ASSUME edits' = 0, NEW k \in DOMAIN rows
        PROVE  rows'[k] = rows[k]
    <3>1. edits = 0
      BY <2>3 DEF Step
    <3>2. CASE config # None /\ k = Current.from /\ rows'[k] = Current.to
      <4>1. PICK y1 \in Nat, m1 \in Months :
              k = PeriodStart(y1, m1, StartDay) /\ rows[k] = NextStart(y1, m1, StartDay)
        BY <3>1 DEF Monthly
      <4>2. PICK y2 \in Nat, m2 \in Months :
              Current.from = PeriodStart(y2, m2, StartDay) /\ Current.to = NextStart(y2, m2, StartDay)
        BY <3>2, CurrentCovers
      <4>3. StartDay \in StartDays
        BY <3>2, CurrentCovers
      <4>4. y1 = y2 /\ m1 = m2
        <5>1. PeriodStart(y1, m1, StartDay) = PeriodStart(y2, m2, StartDay)
          BY <3>2, <4>1, <4>2
        <5>2. /\ PeriodStart(y1, m1, StartDay).year = y1 /\ PeriodStart(y1, m1, StartDay).month = m1
              /\ PeriodStart(y2, m2, StartDay).year = y2 /\ PeriodStart(y2, m2, StartDay).month = m2
          BY <4>3, StartType
        <5> QED BY <5>1, <5>2
      <4> QED BY <3>2, <4>1, <4>2, <4>4
    <3> QED BY <1>2, <2>2, <3>2, RecordFacts
  <2> QED BY <2>2, <2>3
<1> QED BY <1>1, <1>2 DEF Step

\* Every step keeps the rows months' periods.
LEMMA NextMonthly ==
  ASSUME TypeOK, Monthly, Step
  PROVE  Monthly'
<1> SUFFICES ASSUME edits' = 0, NEW k \in DOMAIN rows'
             PROVE  /\ config' # None
                    /\ \E year \in Nat, month \in Months :
                         /\ k = PeriodStart(year, month, StartDay')
                         /\ rows'[k] = NextStart(year, month, StartDay')
  BY DEF Monthly
<1>1. edits = 0 /\ config' = config
  BY DEF Step
<1>2. StartDay' = StartDay
  BY <1>1 DEF StartDay
<1>3. CASE k \in DOMAIN rows /\ rows'[k] = rows[k]
  BY <1>1, <1>2, <1>3 DEF Monthly
<1>4. CASE config # None /\ k = Current.from /\ rows'[k] = Current.to
  BY <1>1, <1>2, <1>4, CurrentCovers
<1>5. \/ k \in DOMAIN rows /\ rows'[k] = rows[k]
      \/ config # None /\ k = Current.from /\ rows'[k] = Current.to
  BY RecordFacts DEF Step
<1> QED BY <1>3, <1>4, <1>5

\* Rows of different months share no day.
LEMMA MonthlyApart ==
  ASSUME TypeOK, Monthly
  PROVE  RowsApart
<1> SUFFICES ASSUME edits = 0, NEW j \in DOMAIN rows, NEW k \in DOMAIN rows, j # k
             PROVE  Index(rows[j]) <= Index(k) \/ Index(rows[k]) <= Index(j)
  BY DEF RowsApart
<1>1. PICK y1 \in Nat, m1 \in Months :
        j = PeriodStart(y1, m1, StartDay) /\ rows[j] = NextStart(y1, m1, StartDay)
  BY DEF Monthly
<1>2. PICK y2 \in Nat, m2 \in Months :
        k = PeriodStart(y2, m2, StartDay) /\ rows[k] = NextStart(y2, m2, StartDay)
  BY DEF Monthly
<1>3. StartDay \in StartDays
  BY CurrentCovers DEF Monthly
<1>5. y1 # y2 \/ m1 # m2
  BY <1>1, <1>2
<1>6. Number(y1, m1) \in Nat /\ Number(y2, m2) \in Nat /\ Number(y1, m1) # Number(y2, m2)
  BY <1>5, NumberApart DEF Number, Months
<1>7. Number(y1, m1) < Number(y2, m2) \/ Number(y2, m2) < Number(y1, m1)
  BY <1>6
<1> QED BY <1>1, <1>2, <1>3, <1>7, PeriodsApart

\* A row that a step writes covers the day.
LEMMA StepCurrent ==
  ASSUME TypeOK, Step
  PROVE  \A k \in DOMAIN rows' :
           \/ k \in DOMAIN rows /\ rows'[k] = rows[k]
           \/ Index(k) <= Index(today) /\ Index(today) < Index(rows'[k])
<1>1. CASE rows' = rows
  BY <1>1
<1>2. ASSUME RecordPeriod
      PROVE  \A k \in DOMAIN rows' :
               \/ k \in DOMAIN rows /\ rows'[k] = rows[k]
               \/ Index(k) <= Index(today) /\ Index(today) < Index(rows'[k])
  BY <1>2, RecordFacts, CurrentCovers
<1> QED BY <1>1, <1>2 DEF Step

\* The initial table is empty.
LEMMA InitMonthly == Init => Monthly
BY DEF Init, Monthly

\* As long as nobody edits the start day, two rows share no day,
\* whatever the start day and however long the months between them are
\* (Subscriptions!RowsApart, periods.ts computeMonthlyPeriod).
THEOREM PeriodsNeverOverlap == Spec => []RowsApart
<1>1. TypeOK /\ Monthly /\ [Next]_vars => Monthly'
  BY StepShape, NextMonthly
<1>2. TypeOK /\ Monthly => RowsApart
  BY MonthlyApart
<1> QED BY <1>1, <1>2, InitMonthly, TypesHold, PTL DEF Spec

\* Every row that is written covers the day it is written on, edits or not
\* (Subscriptions!RowsCurrent).
THEOREM RowsCoverTheirDay == Spec => RowsCurrent
<1>1. TypeOK /\ [Next]_vars =>
        [\A k \in DOMAIN rows' :
           \/ k \in DOMAIN rows /\ rows'[k] = rows[k]
           \/ Index(k) <= Index(today) /\ Index(today) < Index(rows'[k])]_vars
  BY StepShape, StepCurrent
<1> QED BY <1>1, TypesHold, PTL DEF Spec, RowsCurrent

-----------------------------------------------------------------------------
(* The links                                                               *)

HasRow(c, id) == id # None => id \in DOMAIN rows

\* What a conversation's state and messages are linked to is in the table, and
\* a conversation with a state or a message has begun.
Linked ==
  \A c \in Conversations :
    /\ state[c] # None => begun[c] # None /\ HasRow(c, state[c].sub)
    /\ \A i \in DOMAIN messages[c] : begun[c] # None /\ HasRow(c, messages[c][i].link)

\* A period that some day of the conversation so far is in: it began before
\* today is over, and ends after the conversation's first day.
Meets(c, id) ==
  id # None =>
    /\ Index(id) <= Index(today)
    /\ Index(begun[c]) < Index(rows[id])

\* Until the configuration is edited, conversations are linked to periods they
\* have a day in, and their messages are of the days since their first.
Spanning ==
  edits = 0 =>
    \A c \in Conversations :
      /\ begun[c] # None => Index(begun[c]) <= Index(today)
      /\ state[c] # None => Meets(c, state[c].sub)
      /\ \A i \in DOMAIN messages[c] :
           /\ Meets(c, messages[c][i].link)
           /\ Index(begun[c]) <= Index(messages[c][i].on)
           /\ Index(messages[c][i].on) <= Index(today)

\* What a conversation is given is in the table.
LEMMA GivenHasRow ==
  ASSUME TypeOK, Monthly, Linked, Step, NEW c \in Conversations, NEW id, Given(c, id)
  PROVE  id # None => id \in DOMAIN rows'
<1>1. CASE state[c] # None /\ id = state[c].sub
  BY <1>1, RowsKept DEF Linked, HasRow
<1>2. CASE config # None /\ id = Current.from /\ RecordPeriod
  BY <1>2, RecordFacts
<1> QED BY <1>1, <1>2 DEF Given

\* What is in the table stays there.
LEMMA RowStays ==
  ASSUME TypeOK, Monthly, Step, NEW c \in Conversations, NEW id, HasRow(c, id)
  PROVE  id # None => id \in DOMAIN rows'
BY RowsKept DEF HasRow, Step

\* Every step keeps the links in the table.
LEMMA NextLinked ==
  ASSUME TypeOK, Monthly, Linked, Step
  PROVE  Linked'
<1> SUFFICES ASSUME NEW c \in Conversations
             PROVE  /\ state'[c] # None => begun'[c] # None /\ HasRow(c, state[c].sub)'
                    /\ \A i \in DOMAIN messages'[c] :
                         begun'[c] # None /\ HasRow(c, messages[c][i].link)'
  BY DEF Linked, HasRow
<1>0. Moves(c)
  BY DEF Step
<1>1. begun[c] # None => begun'[c] # None
  BY <1>0 DEF Moves
<1>2. ASSUME state'[c] # None
      PROVE  begun'[c] # None /\ HasRow(c, state[c].sub)'
  <2>1. CASE state[c] # None /\ state'[c].sub = state[c].sub
    <3>1. begun[c] # None /\ HasRow(c, state[c].sub)
      BY <2>1 DEF Linked
    <3>2. state[c].sub # None => state[c].sub \in DOMAIN rows'
      BY <3>1, RowStays
    <3> QED BY <1>1, <2>1, <3>1, <3>2 DEF HasRow
  <2>2. CASE begun'[c] # None /\ Given(c, state'[c].sub)
    BY <2>2, GivenHasRow DEF HasRow
  <2> QED BY <1>0, <1>2, <2>1, <2>2 DEF Moves
<1>3. ASSUME NEW i \in DOMAIN messages'[c]
      PROVE  begun'[c] # None /\ HasRow(c, messages[c][i].link)'
  <2>1. CASE Given(c, messages'[c][i].link)
    <3>1. begun'[c] # None
      BY <1>0, <1>1, <1>3 DEF Moves, Linked
    <3> QED BY <2>1, <3>1, GivenHasRow DEF HasRow
  <2>2. CASE i \in DOMAIN messages[c] /\ messages'[c][i].link = messages[c][i].link
    <3>1. begun[c] # None /\ HasRow(c, messages[c][i].link)
      BY <2>2 DEF Linked
    <3>2. messages[c][i].link # None => messages[c][i].link \in DOMAIN rows'
      BY <3>1, RowStays
    <3> QED BY <1>1, <2>2, <3>1, <3>2 DEF HasRow
  <2> QED BY <1>0, <1>3, <2>1, <2>2 DEF Moves
<1> QED BY <1>2, <1>3

\* The order of days.
LEMMA LaterDays ==
  ASSUME TypeOK, TypeOK', Step
  PROVE  /\ Index(today) \in Nat /\ Index(today') \in Nat
         /\ Index(today) <= Index(today')
<1>1. Index(today) \in Nat /\ Index(today') \in Nat
  BY DayIndex, NoneApart DEF TypeOK
<1> QED BY <1>1 DEF Step

\* A conversation that has begun began a day.
LEMMA BegunIndex ==
  ASSUME TypeOK, NEW c \in Conversations, begun[c] # None
  PROVE  Index(begun[c]) \in Nat
BY DayIndex, NoneApart DEF TypeOK

\* The parts of a message.
LEMMA MessageType ==
  ASSUME TypeOK, NEW c \in Conversations, NEW i \in DOMAIN messages[c]
  PROVE  /\ messages[c][i].on \in Days
         /\ messages[c][i].link \in Dates \cup {None}
<1> DEFINE M == [on : Days, link : Dates \cup {None}, covered : BOOLEAN]
<1>1. messages[c] \in Seq(M)
  BY DEF TypeOK
<1>2. messages[c][i] \in M
  <2> HIDE DEF M
  <2> QED BY <1>1
<1> QED BY <1>2

\* What a conversation has goes on meeting it.
LEMMA MeetsStays ==
  ASSUME TypeOK, TypeOK', Monthly, Step, edits' = 0, NEW c \in Conversations,
         begun[c] # None, NEW id \in Dates \cup {None}, HasRow(c, id), Meets(c, id)
  PROVE  id # None => /\ Index(id) <= Index(today')
                      /\ Index(begun'[c]) < Index(rows'[id])
<1> SUFFICES ASSUME id # None
             PROVE  /\ Index(id) <= Index(today')
                    /\ Index(begun'[c]) < Index(rows'[id])
  OBVIOUS
<1>1. begun'[c] = begun[c]
  BY DEF Step, Moves
<1>2. rows'[id] = rows[id]
  BY RowsKept DEF HasRow
<1>3. Index(id) <= Index(today) /\ Index(begun[c]) < Index(rows[id])
  BY DEF Meets
<1>4. Index(id) \in Nat
  BY DayIndex
<1> QED BY <1>1, <1>2, <1>3, <1>4, LaterDays

\* What a conversation is given meets it.
LEMMA GivenMeets ==
  ASSUME TypeOK, TypeOK', Monthly, Linked, Spanning, Step, edits' = 0,
         NEW c \in Conversations, begun'[c] # None, NEW id, Given(c, id)
  PROVE  id # None => /\ Index(id) <= Index(today')
                      /\ Index(begun'[c]) < Index(rows'[id])
<1>0. edits = 0
  BY DEF Step
<1>1. CASE state[c] # None /\ id = state[c].sub
  <2>1. begun[c] # None /\ HasRow(c, state[c].sub) /\ Meets(c, state[c].sub)
    BY <1>0, <1>1 DEF Linked, Spanning
  <2>2. state[c].sub \in Dates \cup {None}
    BY <1>1 DEF TypeOK, States
  <2> QED BY <1>1, <2>1, <2>2, MeetsStays
<1>2. CASE config # None /\ id = Current.from /\ RecordPeriod
  <2>1. rows'[id] = Current.to
    BY <1>0, <1>2, RecordFacts
  <2>2. /\ Current.from \in Dates /\ Current.to \in Dates
        /\ Index(Current.from) <= Index(today) /\ Index(today) < Index(Current.to)
    BY <1>2, CurrentCovers
  <2>3. Index(Current.from) \in Nat /\ Index(Current.to) \in Nat
    BY <2>2, DayIndex
  <2>4. begun'[c] = today \/ (begun'[c] = begun[c] /\ Index(begun[c]) <= Index(today))
    BY <1>0 DEF Step, Moves, Spanning
  <2>5. Index(begun'[c]) \in Nat
    BY DayIndex, NoneApart DEF TypeOK
  <2>6. Index(begun'[c]) <= Index(today)
    BY <2>4, LaterDays
  <2> QED BY <1>0, <1>2, <2>1, <2>2, <2>3, <2>5, <2>6, LaterDays
<1> QED BY <1>1, <1>2 DEF Given

\* Every step keeps the conversations' links within their days.
LEMMA NextSpanning ==
  ASSUME TypeOK, TypeOK', Monthly, Linked, Linked', Spanning, Step
  PROVE  Spanning'
<1> SUFFICES ASSUME edits' = 0, NEW c \in Conversations
             PROVE  /\ begun'[c] # None => Index(begun'[c]) <= Index(today')
                    /\ state'[c] # None => Meets(c, state[c].sub)'
                    /\ \A i \in DOMAIN messages'[c] :
                         /\ Meets(c, messages[c][i].link)'
                         /\ Index(begun'[c]) <= Index(messages'[c][i].on)
                         /\ Index(messages'[c][i].on) <= Index(today')
  BY DEF Spanning, Meets
<1>0. edits = 0 /\ Moves(c)
  BY DEF Step
<1>1. ASSUME begun'[c] # None
      PROVE  /\ Index(begun'[c]) \in Nat /\ Index(begun'[c]) <= Index(today)
             /\ Index(begun'[c]) <= Index(today')
  <2>1. begun'[c] = today \/ (begun'[c] = begun[c] /\ Index(begun[c]) <= Index(today))
    BY <1>0, <1>1 DEF Moves, Spanning
  <2>2. Index(begun'[c]) \in Nat
    BY <1>1, DayIndex, NoneApart DEF TypeOK
  <2> QED BY <2>1, <2>2, LaterDays
<1>2. ASSUME state'[c] # None
      PROVE  Meets(c, state[c].sub)'
  <2>1. CASE state[c] # None /\ state'[c].sub = state[c].sub
    <3>1. begun[c] # None /\ HasRow(c, state[c].sub) /\ Meets(c, state[c].sub)
      BY <1>0, <2>1 DEF Linked, Spanning
    <3>2. state[c].sub \in Dates \cup {None}
      BY <2>1 DEF TypeOK, States
    <3> QED BY <2>1, <3>1, <3>2, MeetsStays DEF Meets
  <2>2. CASE begun'[c] # None /\ Given(c, state'[c].sub)
    BY <2>2, GivenMeets DEF Meets
  <2> QED BY <1>0, <1>2, <2>1, <2>2 DEF Moves
<1>3. ASSUME NEW i \in DOMAIN messages'[c]
      PROVE  /\ Meets(c, messages[c][i].link)'
             /\ Index(begun'[c]) <= Index(messages'[c][i].on)
             /\ Index(messages'[c][i].on) <= Index(today')
  <2>0. begun'[c] # None
    BY <1>3 DEF Linked
  <2>1. ASSUME Given(c, messages'[c][i].link)
        PROVE  Meets(c, messages[c][i].link)'
    BY <2>0, <2>1, GivenMeets DEF Meets
  <2>2. ASSUME i \in DOMAIN messages[c], messages'[c][i].link = messages[c][i].link
        PROVE  Meets(c, messages[c][i].link)'
    <3>1. begun[c] # None /\ HasRow(c, messages[c][i].link) /\ Meets(c, messages[c][i].link)
      BY <1>0, <2>2 DEF Linked, Spanning
    <3>2. messages[c][i].link \in Dates \cup {None}
      BY <2>2, MessageType
    <3> QED BY <2>2, <3>1, <3>2, MeetsStays DEF Meets
  <2>3. ASSUME i \in DOMAIN messages[c], messages'[c][i].on = messages[c][i].on
        PROVE  /\ Index(begun'[c]) <= Index(messages'[c][i].on)
               /\ Index(messages'[c][i].on) <= Index(today')
    <3>1. /\ begun[c] # None
          /\ Index(begun[c]) <= Index(messages[c][i].on) /\ Index(messages[c][i].on) <= Index(today)
      BY <1>0, <2>3 DEF Linked, Spanning
    <3>2. begun'[c] = begun[c]
      BY <1>0, <3>1 DEF Moves
    <3>3. Index(messages[c][i].on) \in Nat
      BY <2>3, MessageType, DayIndex, NoneApart
    <3> QED BY <2>3, <3>1, <3>2, <3>3, LaterDays
  <2>4. ASSUME messages'[c][i].on = today
        PROVE  /\ Index(begun'[c]) <= Index(messages'[c][i].on)
               /\ Index(messages'[c][i].on) <= Index(today')
    BY <1>1, <2>0, <2>4, LaterDays
  <2> QED BY <1>0, <1>3, <2>1, <2>2, <2>3, <2>4 DEF Moves
<1> QED BY <1>1, <1>2, <1>3

\* Conversations that are still in the period they began in are linked to no
\* other.
LEMMA SpanningOnly ==
  ASSUME TypeOK, Monthly, Linked, Spanning
  PROVE  LinksJustified
<1>0. \A c \in Conversations : \A i \in DOMAIN messages[c] :
        messages[c][i].link # None => messages[c][i].link \in DOMAIN rows
  BY DEF Linked, HasRow
<1> SUFFICES ASSUME NEW c \in Conversations, NEW i \in DOMAIN messages[c], edits = 0,
                    messages[c][i].link # None,
                    MonthlyPeriod(begun[c], StartDay) = Current
             PROVE  Covers(messages[c][i].link, messages[c][i].on)
  BY <1>0 DEF LinksJustified, StartDay
<1> DEFINE m == messages[c][i]
<1>1. m.link \in DOMAIN rows /\ begun[c] # None
  BY DEF Linked, HasRow
<1>2. /\ Index(m.link) <= Index(today) /\ Index(begun[c]) < Index(rows[m.link])
      /\ Index(begun[c]) <= Index(m.on) /\ Index(m.on) <= Index(today)
  BY DEF Spanning, Meets
<1>3. config # None
  BY <1>1 DEF Monthly
<1>4. PICK y1 \in Nat, m1 \in Months :
        m.link = PeriodStart(y1, m1, StartDay) /\ rows[m.link] = NextStart(y1, m1, StartDay)
  BY <1>1 DEF Monthly
<1>5. PICK y2 \in Nat, m2 \in Months :
        Current.from = PeriodStart(y2, m2, StartDay) /\ Current.to = NextStart(y2, m2, StartDay)
  BY <1>3, CurrentCovers
<1>6. /\ StartDay \in StartDays /\ Current.from \in Dates /\ Current.to \in Dates
      /\ Index(Current.from) <= Index(today) /\ Index(today) < Index(Current.to)
  BY <1>3, CurrentCovers
<1>7. Index(Current.from) <= Index(begun[c])
  <2>1. begun[c] \in Dates /\ begun[c].year > 0
    BY <1>1, DaysAssumption DEF TypeOK
  <2> QED BY <1>6, <2>1, PeriodCovers
<1>8. /\ Index(begun[c]) \in Nat /\ Index(today) \in Nat /\ Index(m.on) \in Nat
      /\ Index(Current.from) \in Nat /\ Index(Current.to) \in Nat
      /\ Index(m.link) \in Nat /\ Index(rows[m.link]) \in Nat
  <2>1. m.on \in Dates /\ m.link \in Dates
    BY MessageType, NoneApart
  <2>2. rows[m.link] \in Dates
    BY <1>1 DEF TypeOK
  <2>3. today \in Dates
    BY NoneApart DEF TypeOK
  <2> QED BY <1>1, <1>6, <2>1, <2>2, <2>3, DayIndex, BegunIndex
<1> HIDE DEF m
<1>9. ~ Number(y1, m1) < Number(y2, m2)
  <2>1. SUFFICES ASSUME Number(y1, m1) < Number(y2, m2) PROVE FALSE
    OBVIOUS
  <2>2. Index(rows[m.link]) <= Index(Current.from)
    BY <1>4, <1>5, <1>6, <2>1, PeriodsApart
  <2> QED BY <1>2, <1>7, <1>8, <2>2
<1>10. ~ Number(y2, m2) < Number(y1, m1)
  <2>1. SUFFICES ASSUME Number(y2, m2) < Number(y1, m1) PROVE FALSE
    OBVIOUS
  <2>2. Index(Current.to) <= Index(m.link)
    BY <1>4, <1>5, <1>6, <2>1, PeriodsApart
  <2> QED BY <1>2, <1>6, <1>8, <2>2
<1>11. y1 = y2 /\ m1 = m2
  <2>1. Number(y1, m1) \in Nat /\ Number(y2, m2) \in Nat
    BY DEF Number, Months
  <2>2. Number(y1, m1) = Number(y2, m2)
    BY <1>9, <1>10, <2>1
  <2> QED BY <2>2, NumberApart
<1>12. m.link = Current.from /\ rows[m.link] = Current.to
  BY <1>4, <1>5, <1>11
<1>13. Index(m.link) <= Index(m.on) /\ Index(m.on) < Index(rows[m.link])
  BY <1>2, <1>6, <1>7, <1>8, <1>12
<1> QED BY <1>13 DEF Covers, m

\* Nothing is linked at first.
LEMMA InitLinked == Init => Linked /\ Spanning
<1> SUFFICES ASSUME Init PROVE Linked /\ Spanning
  OBVIOUS
<1>1. \A c \in Conversations : begun[c] = None /\ state[c] = None /\ DOMAIN messages[c] = {}
  <2>1. \A c \in Conversations : messages[c] = <<>>
    BY DEF Init
  <2>2. DOMAIN <<>> = {}
    OBVIOUS
  <2> QED BY <2>1, <2>2 DEF Init
<1> QED BY <1>1 DEF Linked, Spanning

\* The inductive invariant.
SInv == TypeOK /\ Monthly /\ Linked /\ Spanning

\* Types, months' rows, links to rows and links within a conversation's days
\* hold together in every reachable state.
THEOREM SubscriptionsInvariant == Spec => []SInv
<1>1. Init => SInv
  BY InitTypes, InitMonthly, InitLinked DEF SInv
<1>2. SInv /\ [Next]_vars => SInv'
  BY NextTypes, StepShape, NextMonthly, NextLinked, NextSpanning DEF SInv
<1> QED BY <1>1, <1>2, PTL DEF Spec

\* Whatever is edited, a message is linked to a row of the table or to none; and
\* until the configuration is, to a period that does not cover it only in a
\* conversation that has left the period it began in (Subscriptions!LinksJustified).
THEOREM LinksAreJustified == Spec => []LinksJustified
<1>1. SInv => LinksJustified
  BY SpanningOnly DEF SInv
<1> QED BY <1>1, SubscriptionsInvariant, PTL
=============================================================================
