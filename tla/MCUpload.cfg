CONSTANTS
  None = None
  t1 = t1
  t2 = t2
  t3 = t3
  f1 = f1
  f2 = f2
  f3 = f3
  f4 = f4
  n1 = n1
  n2 = n2
  Tasks = {t1, t2, t3}
  Files = {f1, f2, f3, f4}
  Names = {n1, n2}
  Groups = {g1}
  FilesOf <- ThreeTasks
  NameOf <- SameName
  GroupOf <- OneGroup
  Incomplete = {f4}
  Workers = {w1, w2}
  MaxCrashes = 1
  MaxFaults = 1
  MaxOverruns = 1
  MaxDeletions = 1
SPECIFICATION FairSpec
\* the tasks run out, and with them the work
CHECK_DEADLOCK FALSE
INVARIANTS
  TypeOK
  DoneIsUploaded
  OneResourcePerPackage
  HalfPackageIsReported
  OneAnswerUnlessRepeated
PROPERTIES
  EveryUploadAnswered
