CONSTANTS
  None = None
  Absent = Absent
  Jobs = {j1}
  Workers = {w1, w2}
  Sensors = {s1}
  Requests <- DisabledRequests
  ModeTypes = {"ENABLED", "DISABLED"}
  LockLifetime = 4
  MaxTime = 4
  MaxModes = 2
  MaxCrashes = 0
  MaxFaults = 0
SPECIFICATION Spec
\* the bounded clock stops, and with it the system
CHECK_DEADLOCK FALSE
PROPERTY
  DisabledIsNotRunAgain
