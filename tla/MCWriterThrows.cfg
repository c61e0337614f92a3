\* A session opened while the database is busy.
SPECIFICATION Spec
CONSTANTS
  Null = Null
  h = h
  s = s
  t = t
  u = u
  m = m
  k = k
  plan1 = plan1
  v = v
  dir = dir
  Numbered <- TurnsNumbered
  Reports <- JustPaid
  MaxAgain = 0
CHECK_DEADLOCK FALSE
PROPERTIES
  ThrowsWouldFailLater
