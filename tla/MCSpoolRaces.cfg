\* One writer pid, the daemon and a manual ingest after the same files.
SPECIFICATION Spec
CONSTANTS
  w1 = w1
  r1 = r1
  r2 = r2
  d1 = d1
  i1 = i1
  Pids = {w1}
  Records = {r1, r2}
  Daemons = {d1}
  Ingesters = {i1}
  WriterModes = {TRUE, FALSE}
  MaxFiles = 1
  MaxFaults = 1
  StampReuse = FALSE
SYMMETRY Symmetry
INVARIANTS
  TypeOK
  NoLoss
PROPERTIES
  LeavesStoredOrWhole
  KeepsPromise
