CONSTANTS
  None = None
  Absent = Absent
  Jobs = {j1}
  Workers = {w1, w2}
  Sensors = {s1, s2}
  Requests <- WindowRequests
  ModeTypes = {"ENABLED", "DISABLED"}
  LockLifetime = 2
  MaxTime = 4
  MaxModes = 0
  MaxCrashes = 2
  MaxFaults = 1
SPECIFICATION Spec
SYMMETRY SlotSymmetry
\* the bounded clock stops, and with it the system
CHECK_DEADLOCK FALSE
INVARIANTS
  TypeOK
  NoGapBeforeCursor
  CursorIsReported
  ReportsAreStored
PROPERTY
  DeliversWindowByWindow
