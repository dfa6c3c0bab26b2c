CONSTANTS
  None = None
  Absent = Absent
  w1 = w1
  Workers = {w1}
  u1 = u1
  t1 = t1
  t2 = t2
  c1 = c1
  Users = {u1}
  Tasks = {t1, t2}
  Credentials = {c1}
  Messages <- SomeMessages
  MaxMessages = 3
  MaxCrashes = 2
  MaxFaults = 1
SPECIFICATION FairSpec
\* the messages end, and with them the work
CHECK_DEADLOCK FALSE
INVARIANTS
  TypeOK
  UsersFollowMessages
  OneOutcomePerTask
  ConfirmedModeHolds
PROPERTIES
  QueuesMoveOn
