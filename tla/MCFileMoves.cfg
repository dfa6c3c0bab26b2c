CONSTANTS
  None = None
  Files = {f1, f2}
  Names = {n1}
  NameOf <- SharedName
  States = {"PRIVATE", "PUBLIC"}
  Jobs = {j1, j2}
  Movers = {w1, w2}
  MaxSaves = 2
  MaxMessages = 2
  MaxCrashes = 1
  MaxFaults = 1
  MaxOverruns = 1
SPECIFICATION Spec
SYMMETRY SlotSymmetry
\* the bounded requests run out, and with them the work
CHECK_DEADLOCK FALSE
INVARIANTS
  TypeOK
  NoFileLost
  LocationIsKnown
  ExposedOnlyOnRequest
  DeletedIsGone
PROPERTIES
  IsCustody
