CONSTANTS
  None = None
  Absent = Absent
  Jobs = {j1}
  Workers = {w1, w2}
  Sensors = {s1}
  Requests <- ModeRequests
  ModeTypes = {"DISABLED"}
  LockLifetime = 2
  MaxTime = 3
  MaxModes = 1
  MaxCrashes = 1
  MaxFaults = 1
SPECIFICATION FairSpec
\* the bounded clock stops, and with it the system
CHECK_DEADLOCK FALSE
INVARIANTS
  OneRunUnlessDisturbed
  DoneIsFinal
  NoStrandedJob
PROPERTY
  EveryTaskAnswered
