\* A session from start to end, a message paid by a subscription, or events.
SPECIFICATION Spec
CONSTANTS
  Null = Null
  h = h
  s = s
  t = t
  u = u
  m = m
  k = k
  plan1 = plan1
  v = v
  dir = dir
  Numbered <- TurnsNumbered
  Reports <- EachReport
  MaxAgain = 1
CHECK_DEADLOCK FALSE
INVARIANTS
  TypeOK
  OrderForgiven
  Attributed
  ReplayAtOnce
PROPERTIES
  NothingForgotten
