---------------------------- MODULE MessageIntake ----------------------------
(***************************************************************************)
(* Three of the queues through which the core service reaches the data     *)
(* service: users, scheduled tasks and task modes.  A queue gives one      *)
(* message at a time (prefetchCount 1) and gives it again if the process   *)
(* ends before it is acknowledged.  A handler that throws leaves its       *)
(* message unacknowledged, and its queue stands until a restart.           *)
(* Meanwhile data-fetch jobs run, and save the documents that the modes    *)
(* are set in: of a run only what it does to the disabled flag is here.    *)
(*                                                                         *)
(* src/core/messages/messages-consumer.controller.ts,                      *)
(* messages-handler.service.ts, src/core/users/users.service.ts, the       *)
(* scheduling part of src/core/jobs/jobs.service.ts, and the saves of      *)
(* handlers/data-fetch.job.handler.ts.                                     *)
(***************************************************************************)
EXTENDS Integers, Sequences, FiniteSets

CONSTANTS Users, Tasks, Credentials, None,
          Absent,       \* what is not there: a user, or a flag of a document
          Workers,      \* runs that may be in progress at once
          Messages,     \* Messages[q]: the messages that may be sent to queue q
          MaxMessages,  \* bound: messages sent to the queues together
          MaxCrashes,   \* bound: crashes
          MaxFaults     \* bound: calls to the database that fail

Queues == {"user", "task", "mode"}

(* user is None for an id that is no ObjectID; credentials may be absent.  *)
UserMessages == [user : Users \union {None}, credentials : Credentials \union {None},
                 deleted : BOOLEAN]

(* task is None without a taskId; type "other" is one the service does not *)
(* know.  described: each file to be uploaded has its description.  empty: *)
(* the body is null, and has no keys to look at.                           *)
TaskMessages ==
  {m \in [task : Tasks \union {None}, periodic : BOOLEAN, window : BOOLEAN, empty : BOOLEAN,
          type : {"DATA_FETCH", "OBJECT_SYNC", "DATA_UPLOAD", "other", None},
          dateFrom : BOOLEAN, described : BOOLEAN, platform : {"CKAN", None}] :
     m.empty => m.task = None /\ m.type = None}

ModeMessages == [disabled : BOOLEAN, tasks : SUBSET Tasks]

ASSUME MessagesAssumption == /\ Messages["user"] \subseteq UserMessages
                             /\ Messages["task"] \subseteq TaskMessages
                             /\ Messages["mode"] \subseteq ModeMessages

(* A job document; one that was never enabled or disabled has no flag.     *)
Types    == {"DATA_FETCH", "OBJECT_SYNC", "DATA_UPLOAD"}
Document == [task : Tasks \union {None}, type : Types, disabled : BOOLEAN \union {Absent}]

(* A run: the position of its document, and the flag it read there.        *)
Run == [document : Nat, disabled : {FALSE, Absent}]

(* A user without credentials and one that is not there differ from each   *)
(* other and from every user that has some; no task is called None.        *)
ASSUME AbsenceAssumption == /\ None \notin Tasks /\ None \notin Users
                            /\ None \notin Credentials \union {Absent}
                            /\ None \notin {"ENABLED", "DISABLED"}
                            /\ None \notin Run
                            /\ Absent \notin Credentials /\ Absent \notin BOOLEAN

VARIABLES
  log,        \* log[q]: the messages sent to q, in order
  acked,      \* acked[q]: how many of them are acknowledged
  consumer,   \* consumer[q]: what the service does with the next one
  found,      \* the documents that the mode message in hand found
  users,      \* users[u]: the credentials stored, Absent without a user
  documents,  \* the job documents, in the order of their making
  failed,     \* tasks that were answered with FAILED
  confirmed,  \* confirmed[t]: the mode last confirmed for t
  repeated,   \* tasks whose message is given again after it was handled
  unsaved,    \* tasks of documents whose mode could not be saved
  runs,       \* runs[w]: the run of a data-fetch job in slot w, or None
  stale,      \* tasks whose mode was set while a run held another flag
  completed,  \* documents that a run disabled since their mode was set
  budget      \* how much of each bound is left

vars == <<log, acked, consumer, found, users, documents, failed, confirmed,
          repeated, unsaved, runs, stale, completed, budget>>
jobs  == <<documents, runs, stale, completed>>
tasks == <<jobs, failed, confirmed, repeated, unsaved>>

Init ==
  /\ log = [q \in Queues |-> <<>>]
  /\ acked = [q \in Queues |-> 0]
  /\ consumer = [q \in Queues |-> "ready"]
  /\ found = {}
  /\ users = [u \in Users |-> Absent]
  /\ documents = <<>>
  /\ failed = {}
  /\ confirmed = [t \in Tasks |-> None]
  /\ repeated = {}
  /\ unsaved = {}
  /\ runs = [w \in Workers |-> None]
  /\ stale = {}
  /\ completed = {}
  /\ budget = [crashes |-> MaxCrashes, faults |-> MaxFaults]

Spend(what) == budget[what] > 0 /\ budget' = [budget EXCEPT ![what] = @ - 1]

(* The message in hand, once the consumer of q is at a step.               *)
InHand(q)   == log[q][acked[q] + 1]
At(q, step) == acked[q] < Len(log[q]) /\ consumer[q] = step

Goes(q, step) == consumer' = [consumer EXCEPT ![q] = step]
------------------------------------------------------------------------------
(*                             The broker                                  *)

(* A task is sent once.                                                    *)
Publish(q) ==
  /\ Len(log["user"]) + Len(log["task"]) + Len(log["mode"]) < MaxMessages
  /\ \E m \in Messages[q] :
       /\ q = "task" => \A n \in DOMAIN log[q] : m.task \notin {log[q][n].task} \ {None}
       /\ log' = [log EXCEPT ![q] = Append(@, m)]
  /\ UNCHANGED <<acked, consumer, found, users, tasks, budget>>

Acknowledge(q) ==
  /\ At(q, "handled")
  /\ acked' = [acked EXCEPT ![q] = @ + 1]
  /\ Goes(q, "ready")
  /\ UNCHANGED <<log, found, users, tasks, budget>>

(* The process ends and is started again: the runs are gone, and what was  *)
(* not acknowledged is given again.                                        *)
Crash ==
  /\ Spend("crashes")
  /\ consumer' = [q \in Queues |-> "ready"]
  /\ found' = {}
  /\ repeated' = IF At("task", "handled")
                 THEN repeated \union {InHand("task").task} ELSE repeated
  /\ runs' = [w \in Workers |-> None]
  /\ UNCHANGED <<log, acked, users, documents, failed, confirmed, unsaved, stale, completed>>
------------------------------------------------------------------------------
(*                               Users                                     *)

(* Mutant: a message without credentials clears those that are stored.     *)
ClearingUpsert(u, credentials) == [users EXCEPT ![u] = credentials]

(* Credentials that are undefined are not set; without a user there is one *)
(* from now on.                                                            *)
UpsertUser(u, credentials) ==
  [users EXCEPT ![u] = CASE credentials # None -> credentials
                         [] credentials = None /\ @ = Absent -> None
                         [] OTHER -> @]

DeleteUser(u) == [users EXCEPT ![u] = Absent]

HandleUserMessage ==
  LET m == InHand("user")
  IN  /\ At("user", "ready") /\ m.user # None
      /\ users' = IF m.deleted THEN DeleteUser(m.user)
                  ELSE UpsertUser(m.user, m.credentials)
      /\ Goes("user", "handled")
      /\ UNCHANGED <<log, acked, found, tasks, budget>>

(* idToObjectID throws, before the test for an id that was not converted;  *)
(* or the call to the database fails.                                      *)
UserMessageThrows ==
  /\ At("user", "ready")
  /\ IF InHand("user").user = None THEN UNCHANGED budget ELSE Spend("faults")
  /\ Goes("user", "stalled")
  /\ UNCHANGED <<log, acked, found, users, tasks>>
------------------------------------------------------------------------------
(*                               Tasks                                     *)

Schedulable(m) ==
  CASE m.type = "DATA_FETCH"  -> m.dateFrom /\ (m.periodic => m.window)
    [] m.type = "OBJECT_SYNC" -> TRUE
    [] m.type = "DATA_UPLOAD" -> m.described /\ m.platform = "CKAN"
    [] OTHER -> FALSE

ScheduleTask ==
  /\ At("task", "ready") /\ Schedulable(InHand("task"))
  /\ documents' = Append(documents, [task |-> InHand("task").task, disabled |-> Absent,
                                     type |-> InHand("task").type])
  /\ Goes("task", "handled")
  /\ UNCHANGED <<log, acked, found, users, failed, confirmed, repeated, unsaved, runs, stale,
                 completed, budget>>

(* Mutant: what cannot be scheduled is passed over.                        *)
SkipTask ==
  /\ At("task", "ready")
  /\ (~Schedulable(InHand("task")) /\ UNCHANGED budget) \/ Spend("faults")
  /\ Goes("task", "handled")
  /\ UNCHANGED <<log, acked, found, users, tasks>>

(* Mutant: the answer does not look at the keys.                           *)
FailKeyless ==
  /\ At("task", "ready")
  /\ (~Schedulable(InHand("task")) /\ UNCHANGED budget) \/ Spend("faults")
  /\ failed' = failed \union {InHand("task").task}
  /\ Goes("task", "handled")
  /\ UNCHANGED <<log, acked, found, users, jobs, confirmed, repeated, unsaved>>

(* withTaskSchedulingErrorHandler: the message is refused, or the document *)
(* cannot be saved.  FAILED is sent if the message has both keys, and the  *)
(* error is caught.                                                        *)
FailTask ==
  LET m == InHand("task")
  IN  /\ At("task", "ready") /\ ~m.empty
      /\ (~Schedulable(m) /\ UNCHANGED budget) \/ Spend("faults")
      /\ failed' = IF m.task # None /\ m.type # None THEN failed \union {m.task} ELSE failed
      /\ Goes("task", "handled")
      /\ UNCHANGED <<log, acked, found, users, jobs, confirmed, repeated, unsaved>>

(* It looks at the keys of the message, and throws if there is none.       *)
TaskMessageThrows ==
  /\ At("task", "ready") /\ InHand("task").empty
  /\ Goes("task", "stalled")
  /\ UNCHANGED <<log, acked, found, users, tasks, budget>>
------------------------------------------------------------------------------
(*                       Runs of data-fetch jobs                           *)

(* Agenda runs a document that is not disabled, on a copy of what it is    *)
(* then.  When it does, and how long it may, is in DataFetchJobs: here a   *)
(* run may begin at any time, even beside another of the same document.    *)
Lock(w) ==
  /\ runs[w] = None
  /\ \E i \in DOMAIN documents :
       /\ documents[i].type = "DATA_FETCH" /\ documents[i].disabled # TRUE
       /\ runs' = [runs EXCEPT ![w] = [document |-> i, disabled |-> documents[i].disabled]]
  /\ UNCHANGED <<log, acked, consumer, found, users, documents, failed, confirmed, repeated,
                 unsaved, stale, completed, budget>>

(* Mutant: a run writes a flag even if its copy has none.                  *)
WithFlagAlways(i, flag) == [documents EXCEPT ![i].disabled = (flag = TRUE)]

(* job.save() writes the flag of the copy, if the copy has one.            *)
WithFlag(i, flag) == [documents EXCEPT ![i].disabled = IF flag = Absent THEN @ ELSE flag]

(* A run that does not complete its job saves the copy it was given.       *)
SaveRun(w) ==
  /\ runs[w] # None
  /\ documents' = WithFlag(runs[w].document, runs[w].disabled)
  /\ runs' = [runs EXCEPT ![w] = None]
  /\ UNCHANGED <<log, acked, consumer, found, users, failed, confirmed, repeated, unsaved,
                 stale, completed, budget>>

(* A run that fetched the last window disables its job.                    *)
CompleteJob(w) ==
  /\ runs[w] # None
  /\ documents' = WithFlag(runs[w].document, TRUE)
  /\ completed' = completed \union {runs[w].document}
  /\ runs' = [runs EXCEPT ![w] = None]
  /\ UNCHANGED <<log, acked, consumer, found, users, failed, confirmed, repeated, unsaved,
                 stale, budget>>

(* A run whose handler throws saves nothing.                               *)
FailRun(w) ==
  /\ runs[w] # None
  /\ runs' = [runs EXCEPT ![w] = None]
  /\ UNCHANGED <<log, acked, consumer, found, users, documents, failed, confirmed, repeated,
                 unsaved, stale, completed, budget>>
------------------------------------------------------------------------------
(*                               Modes                                     *)

(* Mutant: a message about tasks without documents is left alone.          *)
SetDisabledStatusIfAny ==
  /\ At("mode", "ready")
  /\ found' = {i \in DOMAIN documents : documents[i].task \in InHand("mode").tasks}
  /\ found' # {}
  /\ Goes("mode", "found")
  /\ UNCHANGED <<log, acked, users, tasks, budget>>

(* setDisabledStatus reads the documents of the tasks.                     *)
SetDisabledStatus ==
  /\ At("mode", "ready")
  /\ found' = {i \in DOMAIN documents : documents[i].task \in InHand("mode").tasks}
  /\ Goes("mode", "found")
  /\ UNCHANGED <<log, acked, users, tasks, budget>>

ModeMessageThrows ==
  /\ At("mode", "ready")
  /\ Spend("faults")
  /\ Goes("mode", "stalled")
  /\ UNCHANGED <<log, acked, found, users, tasks>>

(* The documents that a run will save with another flag than this one.     *)
HeldAgainst(flag) ==
  {runs[w].document : w \in {v \in Workers : runs[v] # None
                                             /\ runs[v].disabled \notin {Absent, flag}}}

(* It saves those it read.  A save that fails is settled with the others.  *)
SaveModes ==
  /\ At("mode", "found")
  /\ \E lost \in SUBSET found :
       /\ IF lost = {} THEN UNCHANGED budget ELSE Cardinality(lost) = 1 /\ Spend("faults")
       /\ documents' = [i \in DOMAIN documents |->
                          IF i \in found \ lost
                          THEN [documents[i] EXCEPT !.disabled = InHand("mode").disabled]
                          ELSE documents[i]]
       /\ unsaved' = unsaved \union {documents[i].task : i \in lost}
  /\ stale' = (stale \ {documents[i].task : i \in found})
                \union {documents[i].task : i \in found \cap HeldAgainst(InHand("mode").disabled)}
  /\ completed' = completed \ found
  /\ Goes("mode", "saved")
  /\ UNCHANGED <<log, acked, found, users, failed, confirmed, repeated, runs>>

(* The tasks whose documents were found.                                   *)
Confirmed == {documents[i].task : i \in found}

SendTaskModeMessage ==
  /\ At("mode", "saved")
  /\ confirmed' = [t \in Tasks |-> IF t \in Confirmed
                                   THEN IF InHand("mode").disabled THEN "DISABLED" ELSE "ENABLED"
                                   ELSE confirmed[t]]
  /\ found' = {}
  /\ Goes("mode", "handled")
  /\ UNCHANGED <<log, acked, users, jobs, failed, repeated, unsaved, budget>>
------------------------------------------------------------------------------
Consume(q) ==
  \/ Acknowledge(q)
  \/ q = "user" /\ (HandleUserMessage \/ UserMessageThrows)
  \/ q = "task" /\ (ScheduleTask \/ FailTask \/ TaskMessageThrows)
  \/ q = "mode" /\ (SetDisabledStatus \/ ModeMessageThrows \/ SaveModes
                    \/ SendTaskModeMessage)

Next ==
  \/ \E q \in Queues : Publish(q) \/ Consume(q)
  \/ \E w \in Workers : Lock(w) \/ SaveRun(w) \/ CompleteJob(w) \/ FailRun(w)
  \/ Crash

Spec == Init /\ [][Next]_vars

(* A consumer that has a message goes on with it.                          *)
FairSpec == Spec /\ \A q \in Queues : WF_vars(Consume(q))
------------------------------------------------------------------------------
(*                             Properties                                  *)

(* The types of the state; only the mode queue has more than one step, and *)
(* holds documents found only between its reading and its answer; a run    *)
(* has a document.                                                         *)
TypeOK ==
  /\ log \in [Queues -> Seq(UNION {Messages[q] : q \in Queues})]
  /\ acked \in [Queues -> Nat] /\ \A q \in Queues : acked[q] =< Len(log[q])
  /\ consumer \in [Queues -> {"ready", "found", "saved", "handled", "stalled"}]
  /\ \A q \in Queues \ {"mode"} : consumer[q] \notin {"found", "saved"}
  /\ found \subseteq DOMAIN documents
  /\ consumer["mode"] \notin {"found", "saved"} => found = {}
  /\ users \in [Users -> Credentials \union {None, Absent}]
  /\ documents \in Seq(Document)
  /\ runs \in [Workers -> Run \union {None}]
  /\ \A w \in Workers : runs[w] # None => runs[w].document \in DOMAIN documents
  /\ completed \subseteq DOMAIN documents
  /\ failed \subseteq Tasks
  /\ confirmed \in [Tasks -> {"ENABLED", "DISABLED", None}]

(* What the first n user messages say of u: absent if the last one deleted *)
(* it or there is none, else the last credentials given since it was last  *)
(* deleted, None if none were.                                             *)
Said(u, n) ==
  LET about  == {k \in 1 .. n : log["user"][k].user = u}
      alive  == {k \in about : \A j \in about : log["user"][j].deleted => j < k}
      given  == {k \in alive : log["user"][k].credentials # None}
      Last(S) == CHOOSE k \in S : \A j \in S : j =< k
  IN  CASE alive = {} -> Absent
        [] alive # {} /\ given = {} -> None
        [] OTHER -> log["user"][Last(given)].credentials

(* The stored users are what the acknowledged messages say, or those and   *)
(* the message in hand, through crashes, failed calls, repeated messages   *)
(* and ids that stop the queue: no message is lost, passed over or applied *)
(* out of order.                                                           *)
UsersFollowMessages ==
  \E n \in {acked["user"], acked["user"] + 1} :
    n =< Len(log["user"]) /\ users = [u \in Users |-> Said(u, n)]

DocumentsOf(t) == {i \in DOMAIN documents : documents[i].task = t}

(* A task has one outcome, a job document or FAILED, once its message is   *)
(* acknowledged, and never two unless the message was given again after it *)
(* was handled (nothing looks for a document that is there already).       *)
OneOutcomePerTask ==
  \A n \in DOMAIN log["task"] :
    LET m == log["task"][n]
        outcomes == Cardinality(DocumentsOf(m.task)) + Cardinality({m.task} \cap failed)
    IN  m.task # None /\ m.type # None =>
          /\ n =< acked["task"] => outcomes >= 1
          /\ m.task \notin repeated => outcomes =< 1

(* When no mode message is in hand, the documents of a task have the mode  *)
(* last confirmed, whatever tasks arrived and whatever runs began, saved   *)
(* or failed while it was set and since: DISABLED stays, and ENABLED stays *)
(* until a run completes the job.  Not so for a task whose mode was set    *)
(* while a run held another flag (the run saves that flag over it), whose  *)
(* message was repeated, or whose save failed and was confirmed.           *)
ConfirmedModeHolds ==
  acked["mode"] = Len(log["mode"]) =>
    \A t \in Tasks \ (repeated \union unsaved \union stale) :
      confirmed[t] # None =>
        /\ DocumentsOf(t) # {}
        /\ \A i \in DocumentsOf(t) :
             IF confirmed[t] = "DISABLED" THEN documents[i].disabled = TRUE
             ELSE documents[i].disabled = FALSE \/ i \in completed

(* Every message is acknowledged in the end, or its queue stands at one    *)
(* whose handler threw; the queue of scheduled tasks stands only at one    *)
(* without a body.                                                         *)
QueuesMoveOn ==
  \A q \in Queues :
    acked[q] < Len(log[q])
      ~> \/ acked[q] = Len(log[q])
         \/ consumer[q] = "stalled" /\ (q = "task" => InHand(q).empty)
=============================================================================
