\* A second stop counts the first turn again.
SPECIFICATION Spec
CONSTANTS
  Null = Null
  Procs = {p1, p2}
  Tools = {t1}
  Kinds <- Wrapped
  MaxPrompts = 2
  MaxMessages = 2
  MaxStarts = 2
  MaxMishaps = 1
CHECK_DEADLOCK FALSE
INVARIANT
  NotCountedTwice
