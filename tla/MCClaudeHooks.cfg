\* Two hooks at a time, two prompts, a start that may be replayed, one mishap.
SPECIFICATION Spec
CONSTANTS
  Null = Null
  Procs = {p1, p2}
  Tools = {t1}
  Main = Main
  Sub = Sub
  MaxPrompts = 2
  MaxMessages = 2
  MaxStarts = 2
  MaxMishaps = 1
SYMMETRY Symmetry
CHECK_DEADLOCK FALSE
INVARIANTS
  TypeOK
  NothingSkipped
  EndComplete
  Attributed
  TurnsApart
  Timed
