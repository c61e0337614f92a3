\* Two files, two calls, two runs, one failure.
SPECIFICATION Spec
CONSTANTS
  Tokens = {t1, t2}
  Null = Null
  Legacy <- Old
  MaxFiles = 2
  MaxCalls = 2
  MaxRuns = 2
  MaxFaults = 1
SYMMETRY Symmetry
CHECK_DEADLOCK FALSE
INVARIANTS
  TypeOK
  OnceEach
  NothingMissing
  RepeatAddsNothing
  ToolsFollow
  PreviewExact
PROPERTIES
  LiveRowsKept
