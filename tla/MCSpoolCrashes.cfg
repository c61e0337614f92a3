\* Two writer pids that only spool and the daemon under fairness, one crash or fault.
SPECIFICATION FairSpec
CONSTANTS
  w1 = w1
  w2 = w2
  r1 = r1
  r2 = r2
  d1 = d1
  Pids = {w1, w2}
  Records = {r1, r2}
  Daemons = {d1}
  Ingesters = {}
  WriterModes = {FALSE}
  MaxFiles = 2
  MaxFaults = 1
  StampReuse = FALSE
INVARIANTS
  OnceWithoutFaults
PROPERTIES
  SpoolEmpties
  OrphansPromoted
