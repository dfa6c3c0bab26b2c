CONSTANTS
  None = None
  Files = {f1, f2}
  Names = {n1}
  NameOf <- SharedName
  States = {"PRIVATE", "PUBLIC"}
  Jobs = {}
  Movers = {}
  MaxSaves = 2
  MaxMessages = 0
  MaxCrashes = 0
  MaxFaults = 0
  MaxOverruns = 0
SPECIFICATION Spec
\* the bounded requests run out, and with them the work
CHECK_DEADLOCK FALSE
PROPERTIES
  SaveTakesFreePath
