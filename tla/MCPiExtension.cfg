\* Two loads, of one session file or without one, three events, one fault.
SPECIFICATION Spec
CONSTANTS
  Files = {f1}
  Ephemeral = Ephemeral
  Tools = {c1}
  Models = {m1}
  None = None
  f1 = f1
  Plans <- TwoLoads
  MaxLoads = 2
  MaxEvents = 3
  MaxFaults = 1
CHECK_DEADLOCK FALSE
INVARIANTS
  TypeOK
  ParentsFirst
  NothingLeftOut
  MessagesApart
  Attributed
