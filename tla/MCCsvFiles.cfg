CONSTANTS
  None = None
  Broken = Broken
  r1 = r1
  r2 = r2
  s1 = s1
  s2 = s2
  a = a
  b = b
  Runs = {r1, r2}
  Sensors = {s1, s2}
  Columns = {a, b}
  Items <- Measurements
  Names = {n1}
  MaxCrashes = 1
  MaxFaults = 1
SPECIFICATION Spec
\* the runs end, and with them the work
CHECK_DEADLOCK FALSE
INVARIANTS
  TypeOK
  StoredIsOwnFile
  CellsUnderColumns
  FailureHasCause
  LeftoverHasCause
