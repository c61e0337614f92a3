\* Three processes of three builds, two files in a set, one fault.
SPECIFICATION Spec
CONSTANTS
  Processes = {p1, p2, p3}
  NoProcess = NoProcess
  Builds = {1, 2, 4}
  MinSupported <- Supported
  MaxKnown <- Known
  Window = 2
  Newest = 4
  FileCount = 2
  MaxFaults = 1
SYMMETRY Symmetry
INVARIANTS
  TypeOK
  SetsWhole
  OutcomesJustified
