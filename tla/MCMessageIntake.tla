--------------------------- MODULE MCMessageIntake ---------------------------
(***************************************************************************)
(* An instance of MessageIntake for TLC.                                   *)
(***************************************************************************)
EXTENDS MessageIntake

CONSTANTS u1, t1, t2, c1, w1

User(u, credentials, deleted) == [user |-> u, credentials |-> credentials, deleted |-> deleted]

Task(t, type, ok) == [task |-> t, type |-> type, periodic |-> TRUE, window |-> ok,
                      empty |-> type = None, dateFrom |-> TRUE, described |-> ok, platform |-> "CKAN"]

SomeMessages ==
  [user |-> {User(u1, c1, FALSE), User(u1, None, FALSE), User(u1, None, TRUE),
             User(None, c1, FALSE)},
   task |-> {Task(t1, "DATA_FETCH", TRUE), Task(t2, "OBJECT_SYNC", FALSE),
             Task(t2, "DATA_UPLOAD", FALSE),
             Task(None, "other", TRUE), Task(None, None, FALSE)},
   mode |-> {[disabled |-> TRUE, tasks |-> {t1, t2}], [disabled |-> FALSE, tasks |-> {t1}]}]
=============================================================================
