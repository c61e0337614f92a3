\* Two hooks at a time, two prompts, two tools and a mishap.
SPECIFICATION Spec
CONSTANTS
  Null = Null
  Procs = {p1, p2}
  Tools = {t1, t2}
  Kinds <- Versions
  MaxPrompts = 2
  MaxMessages = 2
  MaxStarts = 2
  MaxMishaps = 1
SYMMETRY Symmetry
CHECK_DEADLOCK FALSE
INVARIANTS
  TypeOK
  TokensOfGeneration
  EndBackfilled
  RowsApart
