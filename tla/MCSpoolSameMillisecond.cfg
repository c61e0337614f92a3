\* Two rotations of an active file within one millisecond.
SPECIFICATION Spec
CONSTANTS
  w1 = w1
  r1 = r1
  r2 = r2
  d1 = d1
  Pids = {w1}
  Records = {r1, r2}
  Daemons = {d1}
  Ingesters = {}
  WriterModes = {FALSE}
  MaxFiles = 2
  MaxFaults = 0
  StampReuse = TRUE
INVARIANTS
  NoLoss
