CONSTANTS
  None = None
  twin = twin
  group = group
  inner = inner
  device = device
  late = late
  f1 = f1
  f2 = f2
  Items = {twin, group, inner, device, late}
  Groups = {group, inner}
  Fragments = {f1, f2}
  Listing <- InitialListing
  ChildrenOf <- Children
  FragmentsOf <- Measurements
  PageSize = 2
  MaxPages = 100
  MaxAdded = 1
  MaxRemoved = 2
  MaxFaults = 1
  MaxMishaps = 1
  MaxKills = 1
SPECIFICATION SyncFairSpec
\* the job ends, and with it the work
CHECK_DEADLOCK FALSE
INVARIANTS
  SyncTypeOK
  MissedAreRemovals
  RepeatsAreAdditions
  AmountIsReported
  SyncIsComplete
PROPERTIES
  EverySyncAnswered
