CONSTANTS
  None = None
  Absent = Absent
  Jobs = {j1}
  Workers = {w1, w2}
  Sensors = {s1}
  Requests <- FutureRequests
  ModeTypes = {"ENABLED", "DISABLED"}
  LockLifetime = 2
  MaxTime = 3
  MaxModes = 0
  MaxCrashes = 0
  MaxFaults = 0
SPECIFICATION Spec
SYMMETRY SlotSymmetry
\* the bounded clock stops, and with it the system
CHECK_DEADLOCK FALSE
INVARIANTS
  FutureFetchWaits
