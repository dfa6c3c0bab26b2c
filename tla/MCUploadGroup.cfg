CONSTANTS
  None = None
  t1 = t1
  t2 = t2
  t3 = t3
  f1 = f1
  f2 = f2
  f3 = f3
  f4 = f4
  n1 = n1
  n2 = n2
  Tasks = {t1, t2}
  Files = {f1, f2, f3, f4}
  Names = {n1, n2}
  Groups = {g1}
  FilesOf <- TwoTasks
  NameOf <- SameName
  GroupOf <- OneGroup
  Incomplete = {}
  Workers = {w1, w2}
  MaxCrashes = 0
  MaxFaults = 0
  MaxOverruns = 0
  MaxDeletions = 0
SPECIFICATION Spec
\* the tasks run out, and with them the work
CHECK_DEADLOCK FALSE
PROPERTIES
  GroupIsEnsured
