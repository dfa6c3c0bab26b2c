CONSTANTS
  None = None
  Files = {f1, f2}
  Names = {n1}
  NameOf <- SharedName
  States = {"PUBLIC", "UNKNOWN"}
  Jobs = {j1}
  Movers = {w1, w2}
  MaxSaves = 1
  MaxMessages = 2
  MaxCrashes = 1
  MaxFaults = 1
  MaxOverruns = 1
SPECIFICATION FairSpec
\* the bounded requests run out, and with them the work
CHECK_DEADLOCK FALSE
PROPERTIES
  SaveTakesFreePath
  EveryMoveAnswered
